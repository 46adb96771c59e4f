-------------------------- MODULE CalendarSync_proofs --------------------------
(***************************************************************************)
(* Theorems about CalendarSync, for any calendars, events, calls, requests  *)
(* and handlers.                                                            *)
(***************************************************************************)
EXTENDS CalendarSync, FiniteSetTheorems, SequenceTheorems, TLAPS

-----------------------------------------------------------------------------
(* What a handler may have to do yet, and which step comes after which.       *)
NoticeGoogleRests ==
    {<<"status", "load", "list", "rows", "commit">>, <<"load", "list", "rows",
     "commit">>, <<"list", "rows", "commit">>, <<"rows", "commit">>,
     <<"commit">>}
NoticeGoogleFollows ==
    {<<"status", "load">>, <<"load", "list">>, <<"list", "rows">>, <<"rows",
     "commit">>, <<"commit", "none">>}
PatchGoogleRests ==
    {<<"owner", "next", "commit">>, <<"next", "commit">>, <<"commit">>,
     <<"list", "rows", "known", "stop", "forget", "set", "watch", "note",
     "next", "commit">>, <<"rows", "known", "stop", "forget", "set", "watch",
     "note", "next", "commit">>, <<"known", "stop", "forget", "set", "watch",
     "note", "next", "commit">>, <<"stop", "forget", "set", "watch", "note",
     "next", "commit">>, <<"forget", "set", "watch", "note", "next",
     "commit">>, <<"set", "watch", "note", "next", "commit">>, <<"watch",
     "note", "next", "commit">>, <<"note", "next", "commit">>}
PatchGoogleFollows ==
    {<<"owner", "next">>, <<"next", "commit">>, <<"commit", "none">>,
     <<"list", "rows">>, <<"rows", "known">>, <<"known", "stop">>, <<"stop",
     "forget">>, <<"forget", "set">>, <<"set", "watch">>, <<"watch", "note">>,
     <<"note", "next">>}
PatchAppleRests ==
    {<<"owner", "next", "commit">>, <<"next", "commit">>, <<"commit">>,
     <<"list", "rows", "next", "commit">>, <<"rows", "next", "commit">>}
PatchAppleFollows ==
    {<<"owner", "next">>, <<"next", "commit">>, <<"commit", "none">>,
     <<"list", "rows">>, <<"rows", "next">>}
IntegrateGoogleRests ==
    {<<"fetch", "outbound", "set", "watch", "note", "commit">>, <<"outbound",
     "set", "watch", "note", "commit">>, <<"set", "watch", "note", "commit">>,
     <<"watch", "note", "commit">>, <<"note", "commit">>, <<"commit">>}
IntegrateGoogleFollows ==
    {<<"fetch", "outbound">>, <<"outbound", "set">>, <<"set", "watch">>,
     <<"watch", "note">>, <<"note", "commit">>, <<"commit", "none">>}
IntegrateAppleRests ==
    {<<"exists", "fetch", "commit">>, <<"fetch", "commit">>, <<"commit">>}
IntegrateAppleFollows ==
    {<<"exists", "fetch">>, <<"fetch", "commit">>, <<"commit", "none">>}
RemoveGoogleRests ==
    {<<"integration", "forgetAll", "details", "next", "commit">>,
     <<"forgetAll", "details", "next", "commit">>, <<"details", "next",
     "commit">>, <<"next", "commit">>, <<"commit">>, <<"stop", "forget",
     "next", "commit">>, <<"forget", "next", "commit">>}
RemoveGoogleFollows ==
    {<<"integration", "forgetAll">>, <<"forgetAll", "details">>, <<"details",
     "next">>, <<"next", "commit">>, <<"commit", "none">>, <<"stop",
     "forget">>, <<"forget", "next">>}
RemoveAppleRests ==
    {<<"commit">>}
RemoveAppleFollows ==
    {<<"commit", "none">>}
Ops == {"notice", "patch", "integrate", "remove"}
Rests ==
    [notice |-> [google |-> NoticeGoogleRests, apple |-> NoticeGoogleRests],
     patch |-> [google |-> PatchGoogleRests, apple |-> PatchAppleRests],
     integrate |-> [google |-> IntegrateGoogleRests, apple |-> IntegrateAppleRests],
     remove |-> [google |-> RemoveGoogleRests, apple |-> RemoveAppleRests]]
Follows ==
    [notice |-> [google |-> NoticeGoogleFollows, apple |-> NoticeGoogleFollows],
     patch |-> [google |-> PatchGoogleFollows, apple |-> PatchAppleFollows],
     integrate |-> [google |-> IntegrateGoogleFollows, apple |-> IntegrateAppleFollows],
     remove |-> [google |-> RemoveGoogleFollows, apple |-> RemoveAppleFollows]]
NextStep(t) == IF t = <<>> THEN "none" ELSE Head(t)
Going(rests, follows, t) ==
    /\ t # <<>> /\ t \in Seq(Steps)
    /\ Tail(t) = <<>> \/ Tail(t) \in rests
    /\ <<Head(t), NextStep(Tail(t))>> \in follows

LEMMA NoticeGoogleGoing == \A t \in NoticeGoogleRests : Going(NoticeGoogleRests, NoticeGoogleFollows, t)
<1> USE DEF Going, NextStep, Steps, NoticeGoogleRests, NoticeGoogleFollows
<1>1. Going(NoticeGoogleRests, NoticeGoogleFollows, <<"status", "load", "list", "rows", "commit">>)
  OBVIOUS
<1>2. Going(NoticeGoogleRests, NoticeGoogleFollows, <<"load", "list", "rows", "commit">>)
  OBVIOUS
<1>3. Going(NoticeGoogleRests, NoticeGoogleFollows, <<"list", "rows", "commit">>)
  OBVIOUS
<1>4. Going(NoticeGoogleRests, NoticeGoogleFollows, <<"rows", "commit">>)
  OBVIOUS
<1>5. Going(NoticeGoogleRests, NoticeGoogleFollows, <<"commit">>)
  OBVIOUS
<1> HIDE DEF Going, NoticeGoogleFollows
<1> QED  BY <1>1, <1>2, <1>3, <1>4, <1>5

LEMMA PatchGoogleGoing == \A t \in PatchGoogleRests : Going(PatchGoogleRests, PatchGoogleFollows, t)
<1> USE DEF Going, NextStep, Steps, PatchGoogleRests, PatchGoogleFollows
<1>1. Going(PatchGoogleRests, PatchGoogleFollows, <<"owner", "next", "commit">>)
  OBVIOUS
<1>2. Going(PatchGoogleRests, PatchGoogleFollows, <<"next", "commit">>)
  OBVIOUS
<1>3. Going(PatchGoogleRests, PatchGoogleFollows, <<"commit">>)
  OBVIOUS
<1>4. Going(PatchGoogleRests, PatchGoogleFollows, <<"list", "rows", "known", "stop", "forget", "set", "watch", "note", "next", "commit">>)
  OBVIOUS
<1>5. Going(PatchGoogleRests, PatchGoogleFollows, <<"rows", "known", "stop", "forget", "set", "watch", "note", "next", "commit">>)
  OBVIOUS
<1>6. Going(PatchGoogleRests, PatchGoogleFollows, <<"known", "stop", "forget", "set", "watch", "note", "next", "commit">>)
  OBVIOUS
<1>7. Going(PatchGoogleRests, PatchGoogleFollows, <<"stop", "forget", "set", "watch", "note", "next", "commit">>)
  OBVIOUS
<1>8. Going(PatchGoogleRests, PatchGoogleFollows, <<"forget", "set", "watch", "note", "next", "commit">>)
  OBVIOUS
<1>9. Going(PatchGoogleRests, PatchGoogleFollows, <<"set", "watch", "note", "next", "commit">>)
  OBVIOUS
<1>10. Going(PatchGoogleRests, PatchGoogleFollows, <<"watch", "note", "next", "commit">>)
  OBVIOUS
<1>11. Going(PatchGoogleRests, PatchGoogleFollows, <<"note", "next", "commit">>)
  OBVIOUS
<1> HIDE DEF Going, PatchGoogleFollows
<1> QED  BY <1>1, <1>2, <1>3, <1>4, <1>5, <1>6, <1>7, <1>8, <1>9, <1>10, <1>11

LEMMA PatchAppleGoing == \A t \in PatchAppleRests : Going(PatchAppleRests, PatchAppleFollows, t)
<1> USE DEF Going, NextStep, Steps, PatchAppleRests, PatchAppleFollows
<1>1. Going(PatchAppleRests, PatchAppleFollows, <<"owner", "next", "commit">>)
  OBVIOUS
<1>2. Going(PatchAppleRests, PatchAppleFollows, <<"next", "commit">>)
  OBVIOUS
<1>3. Going(PatchAppleRests, PatchAppleFollows, <<"commit">>)
  OBVIOUS
<1>4. Going(PatchAppleRests, PatchAppleFollows, <<"list", "rows", "next", "commit">>)
  OBVIOUS
<1>5. Going(PatchAppleRests, PatchAppleFollows, <<"rows", "next", "commit">>)
  OBVIOUS
<1> HIDE DEF Going, PatchAppleFollows
<1> QED  BY <1>1, <1>2, <1>3, <1>4, <1>5

LEMMA IntegrateGoogleGoing == \A t \in IntegrateGoogleRests : Going(IntegrateGoogleRests, IntegrateGoogleFollows, t)
<1> USE DEF Going, NextStep, Steps, IntegrateGoogleRests, IntegrateGoogleFollows
<1>1. Going(IntegrateGoogleRests, IntegrateGoogleFollows, <<"fetch", "outbound", "set", "watch", "note", "commit">>)
  OBVIOUS
<1>2. Going(IntegrateGoogleRests, IntegrateGoogleFollows, <<"outbound", "set", "watch", "note", "commit">>)
  OBVIOUS
<1>3. Going(IntegrateGoogleRests, IntegrateGoogleFollows, <<"set", "watch", "note", "commit">>)
  OBVIOUS
<1>4. Going(IntegrateGoogleRests, IntegrateGoogleFollows, <<"watch", "note", "commit">>)
  OBVIOUS
<1>5. Going(IntegrateGoogleRests, IntegrateGoogleFollows, <<"note", "commit">>)
  OBVIOUS
<1>6. Going(IntegrateGoogleRests, IntegrateGoogleFollows, <<"commit">>)
  OBVIOUS
<1> HIDE DEF Going, IntegrateGoogleFollows
<1> QED  BY <1>1, <1>2, <1>3, <1>4, <1>5, <1>6

LEMMA IntegrateAppleGoing == \A t \in IntegrateAppleRests : Going(IntegrateAppleRests, IntegrateAppleFollows, t)
<1> USE DEF Going, NextStep, Steps, IntegrateAppleRests, IntegrateAppleFollows
<1>1. Going(IntegrateAppleRests, IntegrateAppleFollows, <<"exists", "fetch", "commit">>)
  OBVIOUS
<1>2. Going(IntegrateAppleRests, IntegrateAppleFollows, <<"fetch", "commit">>)
  OBVIOUS
<1>3. Going(IntegrateAppleRests, IntegrateAppleFollows, <<"commit">>)
  OBVIOUS
<1> HIDE DEF Going, IntegrateAppleFollows
<1> QED  BY <1>1, <1>2, <1>3

LEMMA RemoveGoogleGoing == \A t \in RemoveGoogleRests : Going(RemoveGoogleRests, RemoveGoogleFollows, t)
<1> USE DEF Going, NextStep, Steps, RemoveGoogleRests, RemoveGoogleFollows
<1>1. Going(RemoveGoogleRests, RemoveGoogleFollows, <<"integration", "forgetAll", "details", "next", "commit">>)
  OBVIOUS
<1>2. Going(RemoveGoogleRests, RemoveGoogleFollows, <<"forgetAll", "details", "next", "commit">>)
  OBVIOUS
<1>3. Going(RemoveGoogleRests, RemoveGoogleFollows, <<"details", "next", "commit">>)
  OBVIOUS
<1>4. Going(RemoveGoogleRests, RemoveGoogleFollows, <<"next", "commit">>)
  OBVIOUS
<1>5. Going(RemoveGoogleRests, RemoveGoogleFollows, <<"commit">>)
  OBVIOUS
<1>6. Going(RemoveGoogleRests, RemoveGoogleFollows, <<"stop", "forget", "next", "commit">>)
  OBVIOUS
<1>7. Going(RemoveGoogleRests, RemoveGoogleFollows, <<"forget", "next", "commit">>)
  OBVIOUS
<1> HIDE DEF Going, RemoveGoogleFollows
<1> QED  BY <1>1, <1>2, <1>3, <1>4, <1>5, <1>6, <1>7

LEMMA RemoveAppleGoing == \A t \in RemoveAppleRests : Going(RemoveAppleRests, RemoveAppleFollows, t)
<1> USE DEF Going, NextStep, Steps, RemoveAppleRests, RemoveAppleFollows
<1>1. Going(RemoveAppleRests, RemoveAppleFollows, <<"commit">>)
  OBVIOUS
<1> HIDE DEF Going, RemoveAppleFollows
<1> QED  BY <1>1

LEMMA AllGoing ==
    ASSUME NEW op \in Ops, NEW v \in Vendors, NEW t \in Rests[op][v]
    PROVE  Going(Rests[op][v], Follows[op][v], t)
<1>1. CASE op = "notice"
  BY <1>1, NoticeGoogleGoing DEF Vendors, Rests, Follows
<1>2. CASE op = "patch"
  BY <1>2, PatchGoogleGoing, PatchAppleGoing DEF Vendors, Rests, Follows
<1>3. CASE op = "integrate"
  BY <1>3, IntegrateGoogleGoing, IntegrateAppleGoing DEF Vendors, Rests, Follows
<1>4. CASE op = "remove"
  BY <1>4, RemoveGoogleGoing, RemoveAppleGoing DEF Vendors, Rests, Follows
<1> QED  BY <1>1, <1>2, <1>3, <1>4 DEF Ops

LEMMA Table ==
    ASSUME NEW op \in Ops, NEW v \in Vendors, NEW s, NEW n, <<s, n>> \in Follows[op][v]
    PROVE  /\ s = "status" => op = "notice" /\ n = "load"
           /\ s = "load" => op = "notice" /\ n = "list"
           /\ s = "list" => op \in {"notice", "patch"} /\ n = "rows"
           /\ s = "rows" => \/ op = "notice" /\ n = "commit"
                            \/ op = "patch" /\ v = "google" /\ n = "known"
                            \/ op = "patch" /\ v = "apple" /\ n = "next"
           /\ s = "owner" => op = "patch" /\ n = "next"
           /\ s = "next" => op \in {"patch", "remove"} /\ n = "commit"
           /\ s = "known" => op = "patch" /\ v = "google" /\ n = "stop"
           /\ s = "stop" => op \in {"patch", "remove"} /\ v = "google" /\ n = "forget"
           /\ s = "forget" => \/ op = "patch" /\ v = "google" /\ n = "set"
                              \/ op = "remove" /\ v = "google" /\ n = "next"
           /\ s = "set" => op \in {"patch", "integrate"} /\ v = "google" /\ n = "watch"
           /\ s = "watch" => op \in {"patch", "integrate"} /\ v = "google" /\ n = "note"
           /\ s = "note" => \/ op = "patch" /\ v = "google" /\ n = "next"
                            \/ op = "integrate" /\ v = "google" /\ n = "commit"
           /\ s = "exists" => op = "integrate" /\ v = "apple" /\ n = "fetch"
           /\ s = "fetch" => \/ op = "integrate" /\ v = "google" /\ n = "outbound"
                             \/ op = "integrate" /\ v = "apple" /\ n = "commit"
           /\ s = "outbound" => op = "integrate" /\ v = "google" /\ n = "set"
           /\ s = "integration" => op = "remove" /\ v = "google" /\ n = "forgetAll"
           /\ s = "forgetAll" => op = "remove" /\ v = "google" /\ n = "details"
           /\ s = "details" => op = "remove" /\ v = "google" /\ n = "next"
           /\ n = "none" <=> s = "commit"
           /\ s \in Steps /\ n \in Steps \cup {"none"}
<1>1. CASE op = "notice"
  BY <1>1 DEF Vendors, Steps, Follows, NoticeGoogleFollows
<1>2. CASE op = "patch" /\ v = "google"
  BY <1>2 DEF Vendors, Steps, Follows, PatchGoogleFollows
<1>3. CASE op = "patch" /\ v = "apple"
  BY <1>3 DEF Vendors, Steps, Follows, PatchAppleFollows
<1>4. CASE op = "integrate" /\ v = "google"
  BY <1>4 DEF Vendors, Steps, Follows, IntegrateGoogleFollows
<1>5. CASE op = "integrate" /\ v = "apple"
  BY <1>5 DEF Vendors, Steps, Follows, IntegrateAppleFollows
<1>6. CASE op = "remove" /\ v = "google"
  BY <1>6 DEF Vendors, Steps, Follows, RemoveGoogleFollows
<1>7. CASE op = "remove" /\ v = "apple"
  BY <1>7 DEF Vendors, Steps, Follows, RemoveAppleFollows
<1> QED  BY <1>1, <1>2, <1>3, <1>4, <1>5, <1>6, <1>7 DEF Ops, Vendors

LEMMA JoinResubscribe1 == <<"known">> \o <<"stop", "forget">> =
    <<"known", "stop", "forget">>
<1> DEFINE s == <<"known">> t == <<"stop", "forget">>
<1> DEFINE u == <<"known", "stop", "forget">>
<1>1. s \in Seq(Steps) /\ t \in Seq(Steps) /\ u \in Seq(Steps)
  BY DEF Steps
<1>2. Len(s) = 1 /\ Len(t) = 2 /\ Len(u) = 3
  OBVIOUS
<1>3. /\ s \o t \in Seq(Steps) /\ Len(s \o t) = 3
      /\ \A i \in 1..3 : (s \o t)[i] = IF i <= 1 THEN s[i] ELSE t[i - 1]
  BY <1>1, <1>2, ConcatProperties
<1>4. \A i \in 1..3 : (s \o t)[i] = u[i]
  BY <1>3
<1> QED  BY <1>1, <1>2, <1>3, <1>4, SeqEqual

LEMMA JoinResubscribe2 == <<"known", "stop", "forget">> \o <<"set">> =
    <<"known", "stop", "forget", "set">>
<1> DEFINE s == <<"known", "stop", "forget">> t == <<"set">>
<1> DEFINE u == <<"known", "stop", "forget", "set">>
<1>1. s \in Seq(Steps) /\ t \in Seq(Steps) /\ u \in Seq(Steps)
  BY DEF Steps
<1>2. Len(s) = 3 /\ Len(t) = 1 /\ Len(u) = 4
  OBVIOUS
<1>3. /\ s \o t \in Seq(Steps) /\ Len(s \o t) = 4
      /\ \A i \in 1..4 : (s \o t)[i] = IF i <= 3 THEN s[i] ELSE t[i - 3]
  BY <1>1, <1>2, ConcatProperties
<1>4. \A i \in 1..4 : (s \o t)[i] = u[i]
  BY <1>3
<1> QED  BY <1>1, <1>2, <1>3, <1>4, SeqEqual

LEMMA JoinResubscribe3 == <<"known", "stop", "forget", "set">> \o <<"watch", "note">> =
    <<"known", "stop", "forget", "set", "watch", "note">>
<1> DEFINE s == <<"known", "stop", "forget", "set">> t == <<"watch", "note">>
<1> DEFINE u == <<"known", "stop", "forget", "set", "watch", "note">>
<1>1. s \in Seq(Steps) /\ t \in Seq(Steps) /\ u \in Seq(Steps)
  BY DEF Steps
<1>2. Len(s) = 4 /\ Len(t) = 2 /\ Len(u) = 6
  OBVIOUS
<1>3. /\ s \o t \in Seq(Steps) /\ Len(s \o t) = 6
      /\ \A i \in 1..6 : (s \o t)[i] = IF i <= 4 THEN s[i] ELSE t[i - 4]
  BY <1>1, <1>2, ConcatProperties
<1>4. \A i \in 1..6 : (s \o t)[i] = u[i]
  BY <1>3
<1> QED  BY <1>1, <1>2, <1>3, <1>4, SeqEqual

LEMMA JoinNotice1 == <<"status", "load">> \o <<"list", "rows">> =
    <<"status", "load", "list", "rows">>
<1> DEFINE s == <<"status", "load">> t == <<"list", "rows">>
<1> DEFINE u == <<"status", "load", "list", "rows">>
<1>1. s \in Seq(Steps) /\ t \in Seq(Steps) /\ u \in Seq(Steps)
  BY DEF Steps
<1>2. Len(s) = 2 /\ Len(t) = 2 /\ Len(u) = 4
  OBVIOUS
<1>3. /\ s \o t \in Seq(Steps) /\ Len(s \o t) = 4
      /\ \A i \in 1..4 : (s \o t)[i] = IF i <= 2 THEN s[i] ELSE t[i - 2]
  BY <1>1, <1>2, ConcatProperties
<1>4. \A i \in 1..4 : (s \o t)[i] = u[i]
  BY <1>3
<1> QED  BY <1>1, <1>2, <1>3, <1>4, SeqEqual

LEMMA JoinNotice2 == <<"status", "load", "list", "rows">> \o <<"commit">> =
    <<"status", "load", "list", "rows", "commit">>
<1> DEFINE s == <<"status", "load", "list", "rows">> t == <<"commit">>
<1> DEFINE u == <<"status", "load", "list", "rows", "commit">>
<1>1. s \in Seq(Steps) /\ t \in Seq(Steps) /\ u \in Seq(Steps)
  BY DEF Steps
<1>2. Len(s) = 4 /\ Len(t) = 1 /\ Len(u) = 5
  OBVIOUS
<1>3. /\ s \o t \in Seq(Steps) /\ Len(s \o t) = 5
      /\ \A i \in 1..5 : (s \o t)[i] = IF i <= 4 THEN s[i] ELSE t[i - 4]
  BY <1>1, <1>2, ConcatProperties
<1>4. \A i \in 1..5 : (s \o t)[i] = u[i]
  BY <1>3
<1> QED  BY <1>1, <1>2, <1>3, <1>4, SeqEqual

LEMMA JoinIntegrate1 == <<"fetch", "outbound", "set">> \o <<"watch", "note">> =
    <<"fetch", "outbound", "set", "watch", "note">>
<1> DEFINE s == <<"fetch", "outbound", "set">> t == <<"watch", "note">>
<1> DEFINE u == <<"fetch", "outbound", "set", "watch", "note">>
<1>1. s \in Seq(Steps) /\ t \in Seq(Steps) /\ u \in Seq(Steps)
  BY DEF Steps
<1>2. Len(s) = 3 /\ Len(t) = 2 /\ Len(u) = 5
  OBVIOUS
<1>3. /\ s \o t \in Seq(Steps) /\ Len(s \o t) = 5
      /\ \A i \in 1..5 : (s \o t)[i] = IF i <= 3 THEN s[i] ELSE t[i - 3]
  BY <1>1, <1>2, ConcatProperties
<1>4. \A i \in 1..5 : (s \o t)[i] = u[i]
  BY <1>3
<1> QED  BY <1>1, <1>2, <1>3, <1>4, SeqEqual

LEMMA JoinIntegrate2 == <<"fetch", "outbound", "set", "watch", "note">> \o <<"commit">> =
    <<"fetch", "outbound", "set", "watch", "note", "commit">>
<1> DEFINE s == <<"fetch", "outbound", "set", "watch", "note">> t == <<"commit">>
<1> DEFINE u == <<"fetch", "outbound", "set", "watch", "note", "commit">>
<1>1. s \in Seq(Steps) /\ t \in Seq(Steps) /\ u \in Seq(Steps)
  BY DEF Steps
<1>2. Len(s) = 5 /\ Len(t) = 1 /\ Len(u) = 6
  OBVIOUS
<1>3. /\ s \o t \in Seq(Steps) /\ Len(s \o t) = 6
      /\ \A i \in 1..6 : (s \o t)[i] = IF i <= 5 THEN s[i] ELSE t[i - 5]
  BY <1>1, <1>2, ConcatProperties
<1>4. \A i \in 1..6 : (s \o t)[i] = u[i]
  BY <1>3
<1> QED  BY <1>1, <1>2, <1>3, <1>4, SeqEqual

LEMMA JoinGoogle1 == <<"list", "rows">> \o <<"known", "stop", "forget", "set", "watch", "note">> =
    <<"list", "rows", "known", "stop", "forget", "set", "watch", "note">>
<1> DEFINE s == <<"list", "rows">> t == <<"known", "stop", "forget", "set", "watch", "note">>
<1> DEFINE u == <<"list", "rows", "known", "stop", "forget", "set", "watch", "note">>
<1>1. s \in Seq(Steps) /\ t \in Seq(Steps) /\ u \in Seq(Steps)
  BY DEF Steps
<1>2. Len(s) = 2 /\ Len(t) = 6 /\ Len(u) = 8
  OBVIOUS
<1>3. /\ s \o t \in Seq(Steps) /\ Len(s \o t) = 8
      /\ \A i \in 1..8 : (s \o t)[i] = IF i <= 2 THEN s[i] ELSE t[i - 2]
  BY <1>1, <1>2, ConcatProperties
<1>4. \A i \in 1..8 : (s \o t)[i] = u[i]
  BY <1>3
<1> QED  BY <1>1, <1>2, <1>3, <1>4, SeqEqual

LEMMA JoinGoogle2 == <<"list", "rows", "known", "stop", "forget", "set", "watch", "note">> \o <<"next", "commit">> =
    <<"list", "rows", "known", "stop", "forget", "set", "watch", "note", "next", "commit">>
<1> DEFINE s == <<"list", "rows", "known", "stop", "forget", "set", "watch", "note">> t == <<"next", "commit">>
<1> DEFINE u == <<"list", "rows", "known", "stop", "forget", "set", "watch", "note", "next", "commit">>
<1>1. s \in Seq(Steps) /\ t \in Seq(Steps) /\ u \in Seq(Steps)
  BY DEF Steps
<1>2. Len(s) = 8 /\ Len(t) = 2 /\ Len(u) = 10
  OBVIOUS
<1>3. /\ s \o t \in Seq(Steps) /\ Len(s \o t) = 10
      /\ \A i \in 1..10 : (s \o t)[i] = IF i <= 8 THEN s[i] ELSE t[i - 8]
  BY <1>1, <1>2, ConcatProperties
<1>4. \A i \in 1..10 : (s \o t)[i] = u[i]
  BY <1>3
<1> QED  BY <1>1, <1>2, <1>3, <1>4, SeqEqual

LEMMA JoinApple == <<"list", "rows">> \o <<"next", "commit">> =
    <<"list", "rows", "next", "commit">>
<1> DEFINE s == <<"list", "rows">> t == <<"next", "commit">>
<1> DEFINE u == <<"list", "rows", "next", "commit">>
<1>1. s \in Seq(Steps) /\ t \in Seq(Steps) /\ u \in Seq(Steps)
  BY DEF Steps
<1>2. Len(s) = 2 /\ Len(t) = 2 /\ Len(u) = 4
  OBVIOUS
<1>3. /\ s \o t \in Seq(Steps) /\ Len(s \o t) = 4
      /\ \A i \in 1..4 : (s \o t)[i] = IF i <= 2 THEN s[i] ELSE t[i - 2]
  BY <1>1, <1>2, ConcatProperties
<1>4. \A i \in 1..4 : (s \o t)[i] = u[i]
  BY <1>3
<1> QED  BY <1>1, <1>2, <1>3, <1>4, SeqEqual

LEMMA JoinRemove == <<"stop", "forget">> \o <<"next", "commit">> =
    <<"stop", "forget", "next", "commit">>
<1> DEFINE s == <<"stop", "forget">> t == <<"next", "commit">>
<1> DEFINE u == <<"stop", "forget", "next", "commit">>
<1>1. s \in Seq(Steps) /\ t \in Seq(Steps) /\ u \in Seq(Steps)
  BY DEF Steps
<1>2. Len(s) = 2 /\ Len(t) = 2 /\ Len(u) = 4
  OBVIOUS
<1>3. /\ s \o t \in Seq(Steps) /\ Len(s \o t) = 4
      /\ \A i \in 1..4 : (s \o t)[i] = IF i <= 2 THEN s[i] ELSE t[i - 2]
  BY <1>1, <1>2, ConcatProperties
<1>4. \A i \in 1..4 : (s \o t)[i] = u[i]
  BY <1>3
<1> QED  BY <1>1, <1>2, <1>3, <1>4, SeqEqual


LEMMA TodoOfNotice ==
    NoticeSteps = <<"status", "load", "list", "rows", "commit">>
BY JoinNotice1, JoinNotice2 DEF NoticeSteps, SyncSteps

LEMMA TodoOfCall ==
    ASSUME NEW call, call.op \in {"patch", "integrate", "remove"}, NEW v \in Vendors
    PROVE  /\ StepsOf(call, v) \in Rests[call.op][v]
           /\ StepsOf(call, v) # <<>>
           /\ Head(StepsOf(call, v)) =
                IF call.op = "patch" THEN "owner"
                ELSE IF call.op = "integrate" /\ v = "google" THEN "fetch"
                ELSE IF call.op = "integrate" THEN "exists"
                ELSE IF v = "google" THEN "integration" ELSE "commit"
<1>1. IntegrateSteps["google"] = <<"fetch", "outbound", "set", "watch", "note", "commit">>
  BY JoinIntegrate1, JoinIntegrate2 DEF IntegrateSteps, SubscribeSteps
<1>2. /\ IntegrateSteps["apple"] = <<"exists", "fetch", "commit">>
      /\ RemoveSteps["google"] = <<"integration", "forgetAll", "details", "next", "commit">>
      /\ RemoveSteps["apple"] = <<"commit">> /\ PatchSteps = <<"owner", "next", "commit">>
  BY DEF IntegrateSteps, RemoveSteps, PatchSteps
<1>3. CASE call.op = "patch"
  <2>1. StepsOf(call, v) = <<"owner", "next", "commit">>
    BY <1>2, <1>3 DEF StepsOf
  <2> QED  BY <1>3, <2>1 DEF Rests, Vendors, PatchGoogleRests, PatchAppleRests
<1>4. CASE call.op = "integrate"
  <2>1. StepsOf(call, v) = IntegrateSteps[v]
    BY <1>4 DEF StepsOf
  <2>2. CASE v = "google"
    <3>1. StepsOf(call, v) = <<"fetch", "outbound", "set", "watch", "note", "commit">>
      BY <1>1, <2>1, <2>2
    <3>2. <<"fetch", "outbound", "set", "watch", "note", "commit">> \in IntegrateGoogleRests
      BY DEF IntegrateGoogleRests
    <3>3. Rests[call.op][v] = IntegrateGoogleRests
      BY <1>4, <2>2 DEF Rests
    <3>4. StepsOf(call, v) # <<>> /\ Head(StepsOf(call, v)) = "fetch"
      BY <3>1
    <3> QED  BY <1>4, <2>2, <3>1, <3>2, <3>3, <3>4
  <2>3. CASE v = "apple"
    <3>1. StepsOf(call, v) = <<"exists", "fetch", "commit">>
      BY <1>2, <2>1, <2>3
    <3>2. <<"exists", "fetch", "commit">> \in IntegrateAppleRests
      BY DEF IntegrateAppleRests
    <3>3. Rests[call.op][v] = IntegrateAppleRests
      BY <1>4, <2>3 DEF Rests
    <3>4. StepsOf(call, v) # <<>> /\ Head(StepsOf(call, v)) = "exists"
      BY <3>1
    <3> QED  BY <1>4, <2>3, <3>1, <3>2, <3>3, <3>4
  <2> QED  BY <2>2, <2>3 DEF Vendors
<1>5. CASE call.op = "remove"
  <2>1. StepsOf(call, v) = RemoveSteps[v]
    BY <1>5 DEF StepsOf
  <2>2. CASE v = "google"
    <3>1. StepsOf(call, v) = <<"integration", "forgetAll", "details", "next", "commit">>
      BY <1>2, <2>1, <2>2
    <3>2. <<"integration", "forgetAll", "details", "next", "commit">> \in RemoveGoogleRests
      BY DEF RemoveGoogleRests
    <3>3. Rests[call.op][v] = RemoveGoogleRests
      BY <1>5, <2>2 DEF Rests
    <3>4. StepsOf(call, v) # <<>> /\ Head(StepsOf(call, v)) = "integration"
      BY <3>1
    <3> QED  BY <1>5, <2>2, <3>1, <3>2, <3>3, <3>4
  <2>3. CASE v = "apple"
    <3>1. StepsOf(call, v) = <<"commit">>
      BY <1>2, <2>1, <2>3
    <3>2. <<"commit">> \in RemoveAppleRests
      BY DEF RemoveAppleRests
    <3>3. Rests[call.op][v] = RemoveAppleRests
      BY <1>5, <2>3 DEF Rests
    <3>4. StepsOf(call, v) # <<>> /\ Head(StepsOf(call, v)) = "commit"
      BY <3>1
    <3> QED  BY <1>5, <2>3, <3>1, <3>2, <3>3, <3>4
  <2> QED  BY <2>2, <2>3 DEF Vendors
<1> QED  BY <1>3, <1>4, <1>5

(* What is done for a calendar, and then for the others.                      *)
LEMMA TodoOfCalendar ==
    ASSUME NEW q, q.op \in {"patch", "remove"}, NEW c, Vendor[c] \in Vendors,
           q.op = "remove" => Vendor[c] = "google",
           NEW t \in Rests[q.op][Vendor[c]], Head(t) = "next"
    PROVE  /\ StepsOfCalendar(q, c) \o t \in Rests[q.op][Vendor[c]]
           /\ StepsOfCalendar(q, c) \o t # <<>>
           /\ Head(StepsOfCalendar(q, c) \o t) = IF q.op = "patch" THEN "list" ELSE "stop"
<1>1. t = <<"next", "commit">>
  BY DEF Rests, Vendors, PatchGoogleRests, PatchAppleRests, RemoveGoogleRests
<1>2. ResubscribeSteps = <<"known", "stop", "forget", "set", "watch", "note">>
  BY JoinResubscribe1, JoinResubscribe2, JoinResubscribe3
     DEF ResubscribeSteps, UnsubscribeSteps, SubscribeSteps
<1>3. CASE q.op = "remove"
  <2>1. StepsOfCalendar(q, c) \o t = <<"stop", "forget", "next", "commit">>
    BY <1>1, <1>3, JoinRemove DEF StepsOfCalendar, UnsubscribeSteps
  <2> QED  BY <1>3, <2>1 DEF Rests, RemoveGoogleRests
<1>4. CASE q.op = "patch" /\ Vendor[c] = "apple"
  <2>1. StepsOfCalendar(q, c) \o t = <<"list", "rows", "next", "commit">>
    BY <1>1, <1>4, JoinApple DEF StepsOfCalendar, SyncSteps
  <2> QED  BY <1>4, <2>1 DEF Rests, PatchAppleRests
<1>5. CASE q.op = "patch" /\ Vendor[c] = "google"
  <2>1. StepsOfCalendar(q, c) \o t =
          <<"list", "rows", "known", "stop", "forget", "set", "watch", "note", "next",
            "commit">>
    BY <1>1, <1>2, <1>5, JoinGoogle1, JoinGoogle2 DEF StepsOfCalendar, SyncSteps
  <2> QED  BY <1>5, <2>1 DEF Rests, PatchGoogleRests
<1> QED  BY <1>3, <1>4, <1>5 DEF Vendors

(* What is left when steps are left out.                                      *)
LEMMA TodoSkipping ==
    ASSUME NEW op \in Ops, NEW v \in Vendors, NEW t \in Rests[op][v]
    PROVE  /\ Head(t) = "known" =>
                /\ Tail(Tail(Tail(t))) \in Rests[op][v] /\ Tail(Tail(Tail(t))) # <<>>
                /\ Head(Tail(Tail(Tail(t)))) = "set"
           /\ Head(t) = "watch" =>
                Tail(t) \in Rests[op][v] /\ Tail(t) # <<>> /\ Head(Tail(t)) = "note"
<1>1. CASE op = "notice"
  BY <1>1 DEF Rests, Vendors, NoticeGoogleRests
<1>2. CASE op = "remove"
  BY <1>2 DEF Rests, Vendors, RemoveGoogleRests, RemoveAppleRests
<1>3. CASE op = "integrate"
  <2>1. CASE Head(t) \in {"known", "watch"}
    <3>1. t = <<"watch", "note", "commit">>
      BY <1>3, <2>1 DEF Rests, Vendors, IntegrateGoogleRests, IntegrateAppleRests
    <3>2. v = "google"
      BY <1>3, <3>1 DEF Rests, Vendors, IntegrateAppleRests
    <3> QED  BY <1>3, <3>1, <3>2 DEF Rests, IntegrateGoogleRests
  <2> QED  BY <2>1
<1>4. CASE op = "patch"
  <2>1. CASE Head(t) = "watch"
    <3>1. t = <<"watch", "note", "next", "commit">>
      BY <1>4, <2>1 DEF Rests, Vendors, PatchGoogleRests, PatchAppleRests
    <3>2. v = "google"
      BY <1>4, <3>1 DEF Rests, Vendors, PatchAppleRests
    <3> QED  BY <1>4, <3>1, <3>2 DEF Rests, PatchGoogleRests
  <2>2. CASE Head(t) = "known"
    <3>1. t = <<"known", "stop", "forget", "set", "watch", "note", "next", "commit">>
      BY <1>4, <2>2 DEF Rests, Vendors, PatchGoogleRests, PatchAppleRests
    <3>2. v = "google"
      BY <1>4, <3>1 DEF Rests, Vendors, PatchAppleRests
    <3>3. Tail(Tail(Tail(t))) = <<"set", "watch", "note", "next", "commit">>
      BY <3>1
    <3>4. Tail(Tail(Tail(t))) \in PatchGoogleRests
      BY <3>3 DEF PatchGoogleRests
    <3>5. Rests[op][v] = PatchGoogleRests
      BY <1>4, <3>2 DEF Rests
    <3> DEFINE u == Tail(Tail(Tail(t)))
    <3>6. \A w : w = <<"set", "watch", "note", "next", "commit">> =>
                    w # <<>> /\ Head(w) = "set"
      OBVIOUS
    <3>7. u # <<>> /\ Head(u) = "set"
      BY <3>3, <3>6
    <3> QED  BY <2>2, <3>4, <3>5, <3>7
  <2> QED  BY <2>1, <2>2
<1> QED  BY <1>1, <1>2, <1>3, <1>4 DEF Ops

-----------------------------------------------------------------------------
(* The handlers: how the local state of each fits to what it does.            *)
V(j) == IF j \in Handlers THEN "google" ELSE VendorOf(j)
Now(q) == NextStep(q.todo)
Early == {"status", "load", "owner", "exists", "fetch", "integration"}
Working == {"list", "rows", "known", "stop", "forget", "set", "watch", "note"}
Owned(j, q, call) ==
    /\ j \in Handlers <=> q.op = "notice"
    /\ j \notin Handlers =>
          call \in Calls /\ call.op = q.op /\ VendorOf(j) \in Branches(call)
NamedBy(j, call) == {c \in DOMAIN call.want : Vendor[c] = V(j)}
Untouched(q, c) == \A e \in Events : <<c, e>> \notin q.fresh \cup q.obsolete

(* The calendar a handler works on when s is next, and those it has touched.  *)
Placed(j, q, call, s) ==
    /\ q.op = "notice" => q.cal \in Calendars
    /\ s \in Early => q.touched = {}
    /\ s \in Working => q.cal \in q.touched /\ q.cal \notin q.left
    /\ s \notin Early =>
          /\ q.op = "notice" => q.touched = {q.cal}
          /\ q.op = "integrate" =>
                /\ q.touched = {q.cal} /\ q.cal \in CalendarsOf(call.on)
                /\ q.cal \in Primary \/ Vendor[q.cal] = "apple"
          /\ q.op = "remove" /\ V(j) = "google" => q.touched = CalendarsOf(call.on)
          /\ q.op = "patch" => NamedBy(j, call) \subseteq q.touched
    /\ q.op # "notice" => \A c \in q.touched : Vendor[c] = V(j)

(* What it has read of them.                                                  *)
Kept(q, s) ==
    /\ q.left \subseteq q.touched /\ q.outdated \subseteq q.touched
    /\ q.shared \subseteq q.touched
    /\ q.fresh \subseteq q.touched \X Events /\ q.obsolete \subseteq q.touched \X Events
    /\ s = "commit" \/ q.op \in {"notice", "integrate"} => q.left = {}
    /\ q.op = "remove" => q.fresh = {} /\ q.obsolete = {}
    /\ s \in {"list", "rows"} => Untouched(q, q.cal)
    /\ \A c \in q.left : Untouched(q, c)
Works(j, q, call) ==
    /\ q.op \in Ops /\ q.todo \in Rests[q.op][V(j)] /\ q.todo # <<>>
    /\ Owned(j, q, call) /\ Placed(j, q, call, Now(q)) /\ Kept(q, Now(q))
HandlersInv ==
    \A j \in Jobs : IF job[j].todo = <<>> THEN job[j] = Idle ELSE Works(j, job[j], Call(j))
CoreInv == TypeOK /\ HandlersInv

(* p is q one step on, whose next step is n.                                  *)
Moved(j, q, p, n) ==
    /\ p \in JobType /\ p.todo \in Rests[q.op][V(j)] /\ p.todo # <<>> /\ Now(p) = n
    /\ p.op = q.op /\ p.cal = q.cal /\ p.left = q.left /\ p.listed = q.listed
    /\ p.fresh = q.fresh /\ p.obsolete = q.obsolete /\ p.first = q.first
    /\ p.touched = q.touched /\ p.outdated = q.outdated /\ p.shared = q.shared

(* p is q, or what others do shows in it.                                     *)
Kin(q, p) ==
    /\ p \in JobType /\ p.todo = q.todo
    /\ p.op = q.op /\ p.cal = q.cal /\ p.left = q.left /\ p.listed = q.listed
    /\ p.fresh = q.fresh /\ p.obsolete = q.obsolete /\ p.first = q.first
    /\ p.touched = q.touched
    /\ q.outdated \subseteq p.outdated /\ p.outdated \subseteq q.outdated \cup q.touched
    /\ q.shared \subseteq p.shared /\ p.shared \subseteq q.shared \cup q.touched

LEMMA JobsAre == \A j \in Jobs : V(j) \in Vendors /\ (j \notin Handlers => j[1] \in Requests /\ VendorOf(j) = j[2])
BY DEF Jobs, V, VendorOf, Vendors

LEMMA IdleType == Idle \in JobType /\ Idle.todo = <<>> /\ Idle.touched = {} /\ Idle.op = "none"
<1>1. <<>> \in Seq(Steps)
  OBVIOUS
<1> QED  BY <1>1, CalendarSyncAssumption DEF Idle, JobType

LEMMA KinSelf == \A q \in JobType : Kin(q, q)
BY DEF Kin

LEMMA KinIdle == ASSUME NEW p, Kin(Idle, p) PROVE p = Idle
<1>1. /\ p.op = "none" /\ p.todo = <<>> /\ p.cal = NoCalendar /\ p.left = {} /\ p.listed = {}
      /\ p.fresh = {} /\ p.obsolete = {} /\ p.first = FALSE /\ p.touched = {}
      /\ p.outdated = {} /\ p.shared = {}
  BY DEF Kin, Idle
<1>2. p \in JobType
  BY DEF Kin
<1> QED  BY <1>1, <1>2 DEF JobType, Idle

LEMMA KinWorks ==
    ASSUME NEW j, NEW q, NEW p, NEW call, Kin(q, p), Works(j, q, call)
    PROVE  Works(j, p, call)
<1>1. Now(p) = Now(q)
  BY DEF Kin, Now
<1>2. Owned(j, p, call)
  BY DEF Kin, Works, Owned
<1>3. Placed(j, p, call, Now(p))
  BY <1>1 DEF Kin, Works, Placed
<1>4. Kept(p, Now(p))
  BY <1>1 DEF Kin, Works, Kept, Untouched
<1> QED  BY <1>2, <1>3, <1>4 DEF Kin, Works

LEMMA Advancing ==
    ASSUME NEW j \in Jobs, NEW q \in JobType, q.op \in Ops, q.todo \in Rests[q.op][V(j)]
    PROVE  \E n : /\ <<Now(q), n>> \in Follows[q.op][V(j)]
                  /\ n = "none" => Advanced(q) = Idle
                  /\ n # "none" => Moved(j, q, Advanced(q), n)
<1> DEFINE t == q.todo n == NextStep(Tail(t))
<1>1. Going(Rests[q.op][V(j)], Follows[q.op][V(j)], t)
  BY JobsAre, AllGoing
<1>2. /\ t # <<>> /\ t \in Seq(Steps) /\ (Tail(t) = <<>> \/ Tail(t) \in Rests[q.op][V(j)])
      /\ <<Now(q), n>> \in Follows[q.op][V(j)]
  BY <1>1 DEF Going, Now, NextStep
<1>4. CASE Tail(t) = <<>>
  BY <1>2, <1>4 DEF Advanced, NextStep
<1>5. CASE Tail(t) # <<>>
  <2>0. PICK u : u = Tail(t)
    OBVIOUS
  <2>6. u # <<>> /\ u \in Rests[q.op][V(j)] /\ n = Head(u)
    BY <2>0, <1>2, <1>5 DEF NextStep
  <2>7. Going(Rests[q.op][V(j)], Follows[q.op][V(j)], u)
    BY <2>6, JobsAre, AllGoing
  <2>8. u \in Seq(Steps)
    BY <2>7 DEF Going
  <2>1. n \in Steps /\ n = Head(Tail(t))
    BY <2>6, <2>8, <2>0
  <2>2. n # "none"
    BY <2>1 DEF Steps
  <2> DEFINE p == [q EXCEPT !.todo = Tail(@)]
  <2>3. Advanced(q) = p
    BY <1>5 DEF Advanced
  <2>4. p \in JobType /\ p.todo = Tail(t)
    BY <2>0, <2>8 DEF JobType
  <2>5. Moved(j, q, p, n)
    BY <2>4, <2>1, <1>5, <1>2 DEF Moved, JobType, Now, NextStep
  <2> QED  BY <2>2, <2>3, <2>5, <1>2
<1> QED  BY <1>4, <1>5

(* What the ways of a handler to go on do to the local states.               *)
Doer(j, q) ==
    /\ job[j].todo # <<>> /\ q \in JobType /\ q.todo = job[j].todo /\ q.op = job[j].op
AreJobs == job' = [k \in Jobs |-> job'[k]]
Others(j) == \A k \in Jobs \ {j} : Kin(job[k], job'[k])
Went(j, q) ==
    \E n : /\ <<Now(job[j]), n>> \in Follows[job[j].op][V(j)]
           /\ n = "none" => job'[j] = Idle
           /\ n # "none" => Moved(j, q, job'[j], n)

LEMMA WorksFacts ==
    ASSUME CoreInv, NEW j \in Jobs, job[j].todo # <<>>
    PROVE  /\ Works(j, job[j], Call(j)) /\ job[j] \in JobType /\ job[j].op \in Ops
           /\ job[j].todo \in Rests[job[j].op][V(j)] /\ Now(job[j]) = Head(job[j].todo)
BY DEF CoreInv, HandlersInv, TypeOK, Works, Now, NextStep

LEMMA AfterGoes ==
    ASSUME CoreInv, NEW j \in Jobs, NEW q, Doer(j, q), After(j, q)
    PROVE  /\ Went(j, q) /\ job' = [job EXCEPT ![j] = Advanced(q)]
           /\ \A k \in Jobs \ {j} : job'[k] = job[k]
           /\ AreJobs
<1>1. job \in [Jobs -> JobType]
  BY DEF CoreInv, TypeOK
<1>2. job' = [job EXCEPT ![j] = Advanced(q)]
  BY DEF After
<1>3. AreJobs /\ job'[j] = Advanced(q) /\ \A k \in Jobs \ {j} : job'[k] = job[k]
  BY <1>1, <1>2 DEF AreJobs
<1>4. q \in JobType /\ q.op \in Ops /\ q.todo \in Rests[q.op][V(j)] /\ Now(q) = Now(job[j])
      /\ q.op = job[j].op
  BY WorksFacts DEF Doer, Now
<1>5. PICK n : /\ <<Now(q), n>> \in Follows[q.op][V(j)]
               /\ n = "none" => Advanced(q) = Idle
               /\ n # "none" => Moved(j, q, Advanced(q), n)
  BY <1>4, Advancing
<1> QED  BY <1>2, <1>3, <1>4, <1>5 DEF Went

LEMMA DoerSelf ==
    ASSUME CoreInv, NEW j \in Jobs, job[j].todo # <<>> PROVE Doer(j, job[j])
BY WorksFacts DEF Doer

LEMMA AdvanceGoes ==
    ASSUME CoreInv, NEW j \in Jobs, job[j].todo # <<>>, Advance(j)
    PROVE  Went(j, job[j]) /\ AreJobs /\ \A k \in Jobs \ {j} : job'[k] = job[k]
BY AfterGoes, DoerSelf DEF Advance

LEMMA EndGoes ==
    ASSUME CoreInv, NEW j \in Jobs, End(j)
    PROVE  job'[j] = Idle /\ AreJobs /\ \A k \in Jobs \ {j} : job'[k] = job[k]
BY DEF CoreInv, TypeOK, End, AreJobs

(* A handler that comes upon a calendar others have touched, and these.       *)
With(q, cs, both) == [q EXCEPT !.touched = @ \cup cs, !.shared = @ \cup both]
Both(j, cs) == {c \in cs : \E k \in InFlight \ {j} : c \in job[k].touched}

LEMMA WithIs ==
    ASSUME NEW q \in JobType, NEW cs, cs \subseteq Calendars, NEW both, both \subseteq cs
    PROVE  /\ With(q, cs, both) \in JobType /\ With(q, cs, both).todo = q.todo
           /\ With(q, cs, both).op = q.op /\ With(q, cs, both).cal = q.cal
           /\ With(q, cs, both).left = q.left /\ With(q, cs, both).listed = q.listed
           /\ With(q, cs, both).fresh = q.fresh
           /\ With(q, cs, both).obsolete = q.obsolete
           /\ With(q, cs, both).first = q.first
           /\ With(q, cs, both).outdated = q.outdated
BY DEF With, JobType

LEMMA WithTouches ==
    ASSUME NEW q \in JobType, NEW cs, NEW both
    PROVE  /\ With(q, cs, both).touched = q.touched \cup cs
           /\ With(q, cs, both).shared = q.shared \cup both
BY DEF With, JobType

Shown(q, p, cs) ==
    IF q.todo = <<>> THEN p = q ELSE Kin(q, p) /\ p.shared = q.shared \cup (cs \cap q.touched)
                                     /\ p.outdated = q.outdated

LEMMA TouchGoes ==
    ASSUME CoreInv, NEW j \in Jobs, NEW q, Doer(j, q), NEW cs, cs \subseteq Calendars,
           Touch(j, q, cs)
    PROVE  /\ Went(j, With(q, cs, Both(j, cs)))
           /\ \A k \in Jobs \ {j} : Shown(job[k], job'[k], cs)
           /\ AreJobs
<1>1. job \in [Jobs -> JobType]
  BY DEF CoreInv, TypeOK
<1> DEFINE p == With(q, cs, Both(j, cs))
<1>2. {c \in cs : {k \in InFlight \ {j} : c \in job[k].touched} # {}} = Both(j, cs)
  BY DEF Both
<1>3. Doer(j, p) /\ p \in JobType /\ p.todo = job[j].todo /\ p.op = job[j].op
  <2>1. Both(j, cs) \subseteq cs /\ q \in JobType
    BY DEF Both, Doer
  <2>2. /\ With(q, cs, Both(j, cs)) \in JobType /\ With(q, cs, Both(j, cs)).todo = q.todo
        /\ With(q, cs, Both(j, cs)).op = q.op
    <3>1. PICK b : b = Both(j, cs)
      OBVIOUS
    <3>2. b \subseteq cs /\ q \in JobType
      BY <2>1, <3>1
    <3>3. /\ With(q, cs, b) \in JobType /\ With(q, cs, b).todo = q.todo
          /\ With(q, cs, b).op = q.op
      BY <3>2, WithIs
    <3> QED  BY <3>1, <3>3
  <2> QED  BY <2>2 DEF Doer
<1>4. job'[j] = Advanced(p)
  BY <1>2 DEF Touch, With
<1>5. \A k \in Jobs \ {j} : job'[k] =
        IF k \in InFlight THEN [job[k] EXCEPT !.shared = @ \cup (cs \cap job[k].touched)]
        ELSE job[k]
  BY DEF Touch
<1>6. Went(j, p)
  <2>1. p.op \in Ops /\ p.todo \in Rests[p.op][V(j)] /\ Now(p) = Now(job[j])
    BY <1>3, WorksFacts DEF Doer, Now
  <2>2. PICK n : /\ <<Now(p), n>> \in Follows[p.op][V(j)]
                 /\ n = "none" => Advanced(p) = Idle
                 /\ n # "none" => Moved(j, p, Advanced(p), n)
    BY <1>3, <2>1, Advancing
  <2> QED  BY <2>1, <2>2, <1>3, <1>4 DEF Went
<1>7. ASSUME NEW k \in Jobs \ {j} PROVE Shown(job[k], job'[k], cs)
  <2>1. CASE k \notin InFlight
    BY <1>5, <2>1 DEF Shown, InFlight
  <2>2. CASE k \in InFlight
    <3>1. job'[k] = [job[k] EXCEPT !.shared = @ \cup (cs \cap job[k].touched)]
      BY <1>5, <2>2
    <3>2. job[k] \in JobType /\ job[k].todo # <<>>
      BY <1>1, <2>2 DEF InFlight
    <3> QED  BY <3>1, <3>2 DEF Shown, Kin, JobType
  <2> QED  BY <2>1, <2>2
<1>8. AreJobs
  BY DEF Touch, AreJobs
<1> QED  BY <1>6, <1>7, <1>8

LEMMA ShownKin ==
    ASSUME NEW q \in JobType, NEW p, NEW cs, Shown(q, p, cs) PROVE Kin(q, p)
BY KinSelf DEF Shown

LEMMA OutdatedKin ==
    ASSUME CoreInv, NEW c \in Calendars, NEW k \in Jobs
    PROVE  /\ Kin(job[k], Outdated(c)[k])
           /\ Outdated(c)[k].shared = job[k].shared
           /\ c \in job[k].touched => c \in Outdated(c)[k].outdated
<1>1. job[k] \in JobType
  BY DEF CoreInv, TypeOK
<1>2. Outdated(c)[k] = IF c \in job[k].touched
                       THEN [job[k] EXCEPT !.outdated = @ \cup {c}] ELSE job[k]
  BY DEF Outdated
<1> QED  BY <1>1, <1>2 DEF Kin, JobType

LEMMA MovedWorks ==
    ASSUME NEW j, NEW q, NEW p, NEW n, NEW call, q.op \in Ops, Moved(j, q, p, n),
           Owned(j, q, call), Placed(j, q, call, n), Kept(q, n)
    PROVE  Works(j, p, call)
<1>1. Now(p) = n
  BY DEF Moved
<1>2. Owned(j, p, call)
  BY DEF Moved, Owned
<1>3. Placed(j, p, call, n)
  BY DEF Moved, Placed
<1>4. Kept(p, n)
  BY DEF Moved, Kept, Untouched
<1> QED  BY <1>1, <1>2, <1>3, <1>4 DEF Moved, Works

LEMMA Assemble ==
    ASSUME CoreInv, NEW j \in Jobs, AreJobs, Others(j), calls' = calls,
           job'[j] = Idle \/ (job'[j] \in JobType /\ Works(j, job'[j], Call(j)))
    PROVE  job' \in [Jobs -> JobType] /\ HandlersInv'
<1>1. job \in [Jobs -> JobType]
  BY DEF CoreInv, TypeOK
<1>2. ASSUME NEW k \in Jobs PROVE job'[k] \in JobType
  BY <1>2, IdleType DEF Others, Kin
<1>3. job' \in [Jobs -> JobType]
  BY <1>2 DEF AreJobs
<1>4. \A k \in Jobs : Call(k)' = Call(k)
  BY DEF Call
<1>5. ASSUME NEW k \in Jobs
      PROVE  IF job'[k].todo = <<>> THEN job'[k] = Idle ELSE Works(k, job'[k], Call(k))
  <2>1. CASE k = j
    <3>1. CASE job'[j] = Idle
      BY <2>1, <3>1, IdleType
    <3>2. CASE Works(j, job'[j], Call(j))
      BY <2>1, <3>2 DEF Works
    <3> QED  BY <3>1, <3>2
  <2>2. CASE k # j
    <3>1. Kin(job[k], job'[k])
      BY <2>2 DEF Others
    <3>2. CASE job[k].todo = <<>>
      <4>1. job[k] = Idle
        BY <3>2 DEF CoreInv, HandlersInv
      <4> QED  BY <3>1, <4>1, KinIdle, IdleType
    <3>3. CASE job[k].todo # <<>>
      <4>1. Works(k, job[k], Call(k))
        BY <3>3 DEF CoreInv, HandlersInv
      <4>2. Works(k, job'[k], Call(k))
        BY <3>1, <4>1, KinWorks
      <4> QED  BY <4>2 DEF Works
    <3> QED  BY <3>2, <3>3
  <2> QED  BY <2>1, <2>2
<1> QED  BY <1>3, <1>4, <1>5 DEF HandlersInv

LEMMA SameOthers ==
    ASSUME CoreInv, NEW j \in Jobs, \A k \in Jobs \ {j} : job'[k] = job[k]
    PROVE  Others(j)
BY KinSelf DEF Others, CoreInv, TypeOK

LEMMA GoesOn ==
    ASSUME CoreInv, NEW j \in Jobs, job[j].todo # <<>>, NEW q, q.op = job[j].op, Went(j, q),
           AreJobs, Others(j), calls' = calls,
           \A n : <<Now(job[j]), n>> \in Follows[job[j].op][V(j)] /\ n # "none" =>
                  Placed(j, q, Call(j), n) /\ Kept(q, n)
    PROVE  job' \in [Jobs -> JobType] /\ HandlersInv'
<1>1. PICK n : /\ <<Now(job[j]), n>> \in Follows[job[j].op][V(j)]
               /\ n = "none" => job'[j] = Idle
               /\ n # "none" => Moved(j, q, job'[j], n)
  BY DEF Went
<1>2. CASE n = "none"
  BY <1>1, <1>2, Assemble
<1>3. CASE n # "none"
  <2>1. Owned(j, q, Call(j)) /\ q.op \in Ops
    BY WorksFacts DEF Works, Owned
  <2>2. Moved(j, q, job'[j], n) /\ Placed(j, q, Call(j), n) /\ Kept(q, n)
    BY <1>1, <1>3
  <2>3. Works(j, job'[j], Call(j)) /\ job'[j] \in JobType
    BY <2>1, <2>2, MovedWorks DEF Moved
  <2> QED  BY <2>3, Assemble
<1> QED  BY <1>2, <1>3

LEMMA StepFacts ==
    ASSUME CoreInv, NEW j \in Jobs, job[j].todo # <<>>
    PROVE  /\ Owned(j, job[j], Call(j)) /\ Placed(j, job[j], Call(j), Now(job[j]))
           /\ Kept(job[j], Now(job[j]))
BY WorksFacts DEF Works

(* Steps that change nothing of the local state but what is next.             *)
Plain == {"status", "known", "stop", "forget", "set", "watch", "note", "exists",
          "forgetAll", "commit"}
LEMMA PlainKeeps ==
    ASSUME CoreInv, NEW j \in Jobs, job[j].todo # <<>>, Now(job[j]) \in Plain,
           calls' = calls, Advance(j)
    PROVE  job' \in [Jobs -> JobType] /\ HandlersInv'
<1> DEFINE q == job[j] s == Now(q)
<1>1. Went(j, q) /\ AreJobs /\ Others(j)
  BY AdvanceGoes, SameOthers
<1>2. q.op \in Ops /\ V(j) \in Vendors
  BY WorksFacts, JobsAre
<1>3. Placed(j, q, Call(j), s) /\ Kept(q, s)
  BY StepFacts
<1> HIDE DEF q, s
<1>5. s \in Plain
  BY DEF q, s
<1>4. ASSUME NEW n, <<s, n>> \in Follows[q.op][V(j)], n # "none"
      PROVE  Placed(j, q, Call(j), n) /\ Kept(q, n)
  <2>1. PICK op \in Ops, v \in Vendors : op = q.op /\ v = V(j)
    BY <1>2
  <2>2. <<s, n>> \in Follows[op][v]
    BY <1>4, <2>1
  <2>3. CASE s = "status"
    <3>1. op = "notice" /\ n = "load"
      BY <2>2, <2>3, Table
    <3> QED  BY <1>3, <2>1, <2>3, <3>1 DEF Placed, Kept, Early, Working
  <2>4. CASE s = "exists"
    <3>1. op = "integrate" /\ n = "fetch"
      BY <2>2, <2>4, Table
    <3> QED  BY <1>3, <2>1, <2>4, <3>1 DEF Placed, Kept, Early, Working
  <2>5. CASE s \in {"known", "stop", "set", "watch", "forgetAll"}
    <3>1. n \in {"stop", "forget", "watch", "note", "set", "details"}
      BY <2>2, <2>5, Table
    <3>2. s = "forgetAll" => n = "details"
      BY <2>2, Table
    <3> QED  BY <1>3, <2>1, <2>5, <3>1, <3>2 DEF Placed, Kept, Early, Working
  <2>6. CASE s = "forget"
    <3>1. n \in {"set", "next"}
      BY <2>2, <2>6, Table
    <3> QED  BY <1>3, <2>1, <2>6, <3>1 DEF Placed, Kept, Early, Working
  <2>7. CASE s = "note"
    <3>1. (op = "patch" /\ n = "next") \/ (op = "integrate" /\ n = "commit")
      BY <2>2, <2>7, Table
    <3> QED  BY <1>3, <2>1, <2>7, <3>1 DEF Placed, Kept, Early, Working
  <2>8. CASE s = "commit"
    BY <2>2, <2>8, <1>4, Table
  <2> QED  BY <1>5, <2>3, <2>4, <2>5, <2>6, <2>7, <2>8 DEF Plain
<1> QED  BY <1>1, <1>4, GoesOn DEF q, s

LEMMA EndKeeps ==
    ASSUME CoreInv, NEW j \in Jobs, End(j), calls' = calls
    PROVE  job' \in [Jobs -> JobType] /\ HandlersInv'
BY EndGoes, SameOthers, Assemble

LEMMA DoingIs ==
    ASSUME NEW j, NEW s, Doing(j, s) PROVE job[j].todo # <<>> /\ Now(job[j]) = s
BY DEF Doing, Now, NextStep

(* Two local states that agree on all but what has been read.                 *)
Agree(q, p) ==
    /\ p.op = q.op /\ p.cal = q.cal /\ p.left = q.left /\ p.touched = q.touched
    /\ p.shared = q.shared
OnTo(j, n) == job'[j].todo # <<>> /\ Now(job'[j]) = n
Unmoved(j) == \A k \in Jobs \ {j} : job'[k] = job[k]

LEMMA AfterMoves ==
    ASSUME CoreInv, NEW j \in Jobs, NEW q, Doer(j, q), After(j, q), calls' = calls,
           NEW n, n # "none",
           \A m : <<Now(job[j]), m>> \in Follows[job[j].op][V(j)] => m = n,
           Placed(j, q, Call(j), n), Kept(q, n)
    PROVE  /\ job' \in [Jobs -> JobType] /\ HandlersInv' /\ Unmoved(j)
           /\ Moved(j, q, job'[j], n) /\ OnTo(j, n)
<1>1. job[j].todo # <<>> /\ q.op = job[j].op
  BY DEF Doer
<1>2. Went(j, q) /\ AreJobs /\ Unmoved(j)
  BY AfterGoes DEF Unmoved
<1>3. PICK m : /\ <<Now(job[j]), m>> \in Follows[job[j].op][V(j)]
               /\ m # "none" => Moved(j, q, job'[j], m)
  BY <1>2 DEF Went
<1>4. Moved(j, q, job'[j], n)
  BY <1>3
<1>5. Others(j)
  BY <1>2, SameOthers DEF Unmoved
<1>6. job' \in [Jobs -> JobType] /\ HandlersInv'
  BY <1>1, <1>2, <1>5, GoesOn
<1> QED  BY <1>2, <1>4, <1>6 DEF Moved, OnTo

LEMMA ListGoes ==
    ASSUME CoreInv, NEW j \in Jobs, List(j)
    PROVE  /\ job' \in [Jobs -> JobType] /\ HandlersInv' /\ Unmoved(j)
           /\ OnTo(j, "rows") /\ Agree(job[j], job'[j]) /\ job'[j].first = job[j].first
           /\ job'[j].fresh = job[j].fresh /\ job'[j].obsolete = job[j].obsolete
           /\ \E page \in SUBSET events[Cal(j)] :
                 /\ job'[j].listed = page
                 /\ job[j].outdated \subseteq job'[j].outdated
                 /\ page # events[Cal(j)] => Cal(j) \in job'[j].outdated
                 /\ overtaken' = overtaken \cup (events[Cal(j)] \ page)
<1>1. job[j].todo # <<>> /\ Now(job[j]) = "list"
  BY DoingIs DEF List
<1>2. /\ job[j] \in JobType /\ job[j].op \in Ops /\ V(j) \in Vendors
      /\ Placed(j, job[j], Call(j), "list") /\ Kept(job[j], "list")
  BY <1>1, WorksFacts, StepFacts, JobsAre
<1>3. PICK page \in SUBSET events[Cal(j)] :
        /\ After(j, [job[j] EXCEPT !.listed = page,
              !.outdated = IF events[Cal(j)] \ page = {} THEN @ ELSE @ \cup {Cal(j)}])
        /\ overtaken' = overtaken \cup (events[Cal(j)] \ page)
  BY DEF List
<1> DEFINE q == [job[j] EXCEPT !.listed = page,
              !.outdated = IF events[Cal(j)] \ page = {} THEN @ ELSE @ \cup {Cal(j)}]
<1>4. Cal(j) = job[j].cal /\ Cal(j) \in job[j].touched /\ job[j].touched \subseteq Calendars
  BY <1>2 DEF Cal, Placed, Working, JobType
<1>5. events[Cal(j)] \subseteq Events
  BY <1>4 DEF CoreInv, TypeOK
<1>6. /\ q.todo = job[j].todo /\ q.first = job[j].first /\ Agree(job[j], q)
      /\ q.listed = page /\ q.fresh = job[j].fresh /\ q.obsolete = job[j].obsolete
      /\ job[j].outdated \subseteq q.outdated
      /\ q.outdated \subseteq job[j].outdated \cup {Cal(j)}
      /\ page # events[Cal(j)] => Cal(j) \in q.outdated
  BY <1>2 DEF JobType, Agree
<1>7. q \in JobType
  BY <1>2, <1>4, <1>5 DEF JobType
<1>8. After(j, q) /\ Doer(j, q)
  BY <1>1, <1>3, <1>6, <1>7 DEF Doer, Agree
<1>9. PICK p : p = q
  OBVIOUS
<1> HIDE DEF q
<1>10. \A n : <<Now(job[j]), n>> \in Follows[job[j].op][V(j)] => n = "rows"
  BY <1>1, <1>2, Table
<1>11. Placed(j, p, Call(j), "rows") /\ Kept(p, "rows")
  BY <1>2, <1>4, <1>6, <1>9 DEF Placed, Kept, Agree, Early, Working, Untouched
<1>12. calls' = calls
  BY DEF List
<1>13. /\ job' \in [Jobs -> JobType] /\ HandlersInv' /\ Unmoved(j)
       /\ Moved(j, p, job'[j], "rows") /\ OnTo(j, "rows")
  BY <1>8, <1>9, <1>10, <1>11, <1>12, AfterMoves
<1>14. /\ Agree(job[j], job'[j]) /\ job'[j].first = job[j].first
       /\ job'[j].fresh = job[j].fresh /\ job'[j].obsolete = job[j].obsolete
       /\ job'[j].listed = page /\ job[j].outdated \subseteq job'[j].outdated
       /\ page # events[Cal(j)] => Cal(j) \in job'[j].outdated
  BY <1>6, <1>9, <1>13 DEF Moved, Agree
<1> QED  BY <1>3, <1>13, <1>14

LEMMA CompareGoes ==
    ASSUME CoreInv, NEW j \in Jobs, Compare(j)
    PROVE  /\ job' \in [Jobs -> JobType] /\ HandlersInv' /\ Unmoved(j)
           /\ Doing(j, "rows") /\ \E n \in {"commit", "known", "next"} : OnTo(j, n)
           /\ OnTo(j, "commit") => job[j].op = "notice"
           /\ OnTo(j, "next") => job[j].op = "patch" /\ V(j) = "apple"
           /\ Agree(job[j], job'[j]) /\ job'[j].first = job[j].first
           /\ job'[j].listed = job[j].listed /\ job'[j].outdated = job[j].outdated
           /\ job'[j].fresh = job[j].fresh \cup ({Cal(j)} \X Fresh(j))
           /\ job'[j].obsolete = job[j].obsolete \cup ({Cal(j)} \X Obsolete(j))
<1>1. job[j].todo # <<>> /\ Now(job[j]) = "rows"
  BY DoingIs DEF Compare
<1>2. /\ job[j] \in JobType /\ job[j].op \in Ops /\ V(j) \in Vendors
      /\ Placed(j, job[j], Call(j), "rows") /\ Kept(job[j], "rows")
  BY <1>1, WorksFacts, StepFacts, JobsAre
<1>3. After(j, [job[j] EXCEPT !.fresh = @ \cup ({Cal(j)} \X Fresh(j)),
                             !.obsolete = @ \cup ({Cal(j)} \X Obsolete(j))])
  BY DEF Compare
<1> DEFINE q == [job[j] EXCEPT !.fresh = @ \cup ({Cal(j)} \X Fresh(j)),
                              !.obsolete = @ \cup ({Cal(j)} \X Obsolete(j))]
<1>4. Cal(j) = job[j].cal /\ Cal(j) \in job[j].touched /\ job[j].touched \subseteq Calendars
  BY <1>2 DEF Cal, Placed, Working, JobType
<1>5. Fresh(j) \subseteq Events /\ Obsolete(j) \subseteq Events
  <2>1. job[j].listed \subseteq Events
    BY <1>2 DEF JobType
  <2> QED  BY <2>1 DEF Fresh, Obsolete, Stored
<1>6. /\ q.todo = job[j].todo /\ q.first = job[j].first /\ Agree(job[j], q)
      /\ q.listed = job[j].listed /\ q.outdated = job[j].outdated
      /\ q.fresh = job[j].fresh \cup ({Cal(j)} \X Fresh(j))
      /\ q.obsolete = job[j].obsolete \cup ({Cal(j)} \X Obsolete(j))
  BY <1>2 DEF JobType, Agree
<1>7. q \in JobType
  <2>1. /\ {Cal(j)} \X Fresh(j) \subseteq Calendars \X Events
        /\ {Cal(j)} \X Obsolete(j) \subseteq Calendars \X Events
    BY <1>4, <1>5
  <2> QED  BY <1>2, <2>1 DEF JobType
<1>8. After(j, q) /\ Doer(j, q)
  BY <1>1, <1>3, <1>6, <1>7 DEF Doer, Agree
<1>9. PICK p : p = q
  OBVIOUS
<1> HIDE DEF q
<1>10. PICK n \in {"commit", "known", "next"} :
          /\ \A m : <<Now(job[j]), m>> \in Follows[job[j].op][V(j)] => m = n
          /\ n = "commit" => job[j].op = "notice"
          /\ n # "commit" => job[j].op = "patch"
          /\ n = "next" => V(j) = "apple"
  <2>1. PICK op \in Ops, v \in Vendors : op = job[j].op /\ v = V(j)
    BY <1>2
  <2>2. \A m : <<"rows", m>> \in Follows[op][v] =>
               \/ op = "notice" /\ m = "commit"
               \/ op = "patch" /\ v = "google" /\ m = "known"
               \/ op = "patch" /\ v = "apple" /\ m = "next"
    BY Table
  <2>3. \E m : <<"rows", m>> \in Follows[op][v]
    BY <1>1, <1>8, <2>1, AfterGoes DEF Went
  <2> QED  BY <1>1, <2>1, <2>2, <2>3 DEF Ops, Vendors
<1>11. Placed(j, p, Call(j), n)
  BY <1>2, <1>4, <1>6, <1>9 DEF Placed, Agree, Early, Working
<1>12. Kept(p, n)
  <2>1. /\ p.left = job[j].left /\ p.touched = job[j].touched /\ p.op = job[j].op
        /\ p.outdated = job[j].outdated /\ p.shared = job[j].shared
        /\ p.fresh = job[j].fresh \cup ({Cal(j)} \X Fresh(j))
        /\ p.obsolete = job[j].obsolete \cup ({Cal(j)} \X Obsolete(j))
    BY <1>6, <1>9 DEF Agree
  <2>2. p.fresh \subseteq p.touched \X Events /\ p.obsolete \subseteq p.touched \X Events
    BY <1>2, <1>4, <1>5, <2>1 DEF Kept
  <2>3. n = "commit" => p.left = {}
    BY <1>2, <1>10, <2>1 DEF Kept
  <2>4. \A c \in p.left : Untouched(p, c)
    <3>1. job[j].cal \notin job[j].left
      BY <1>2 DEF Placed, Working
    <3>2. \A c \in job[j].left : Untouched(job[j], c)
      BY <1>2 DEF Kept
    <3> QED  BY <1>4, <2>1, <3>1, <3>2 DEF Untouched
  <2>5. /\ p.left \subseteq p.touched /\ p.outdated \subseteq p.touched
        /\ p.shared \subseteq p.touched
        /\ p.op \in {"notice", "integrate"} => p.left = {}
    BY <1>2, <2>1 DEF Kept
  <2>6. p.op # "remove"
    BY <1>10, <2>1
  <2> QED  BY <1>10, <2>2, <2>3, <2>4, <2>5, <2>6 DEF Kept
<1>13. calls' = calls /\ Doing(j, "rows")
  BY DEF Compare
<1>14. /\ job' \in [Jobs -> JobType] /\ HandlersInv' /\ Unmoved(j)
       /\ Moved(j, p, job'[j], n) /\ OnTo(j, n)
  BY <1>8, <1>9, <1>10, <1>11, <1>12, <1>13, AfterMoves
<1>15. /\ Agree(job[j], job'[j]) /\ job'[j].first = job[j].first
       /\ job'[j].listed = job[j].listed /\ job'[j].outdated = job[j].outdated
       /\ job'[j].fresh = job[j].fresh \cup ({Cal(j)} \X Fresh(j))
       /\ job'[j].obsolete = job[j].obsolete \cup ({Cal(j)} \X Obsolete(j))
  BY <1>6, <1>9, <1>14 DEF Moved, Agree
<1>16. /\ OnTo(j, "commit") => n = "commit"
       /\ OnTo(j, "next") => n = "next"
  BY <1>14 DEF OnTo
<1> QED  BY <1>10, <1>13, <1>14, <1>15, <1>16

LEMMA TouchMoves ==
    ASSUME CoreInv, NEW j \in Jobs, NEW q, Doer(j, q), NEW cs, cs \subseteq Calendars,
           Touch(j, q, cs), calls' = calls, NEW p, p = With(q, cs, Both(j, cs)),
           NEW n, n # "none",
           \A m : <<Now(job[j]), m>> \in Follows[job[j].op][V(j)] => m = n,
           Placed(j, p, Call(j), n), Kept(p, n)
    PROVE  /\ job' \in [Jobs -> JobType] /\ HandlersInv' /\ Others(j)
           /\ \A k \in Jobs \ {j} : Shown(job[k], job'[k], cs)
           /\ Moved(j, p, job'[j], n) /\ OnTo(j, n)
<1>1. job[j].todo # <<>> /\ q.op = job[j].op /\ q \in JobType
  BY DEF Doer
<1>2. Went(j, p) /\ AreJobs /\ \A k \in Jobs \ {j} : Shown(job[k], job'[k], cs)
  BY TouchGoes
<1>3. PICK m : /\ <<Now(job[j]), m>> \in Follows[job[j].op][V(j)]
               /\ m # "none" => Moved(j, p, job'[j], m)
  BY <1>2 DEF Went
<1>4. Moved(j, p, job'[j], n)
  BY <1>3
<1>5. Others(j)
  BY <1>2, ShownKin DEF Others, CoreInv, TypeOK
<1>6. p.op = job[j].op
  <2>1. PICK b : b = Both(j, cs)
    OBVIOUS
  <2>2. b \subseteq cs
    BY <2>1 DEF Both
  <2>3. With(q, cs, b).op = q.op
    BY <1>1, <2>2, WithIs
  <2> QED  BY <1>1, <2>1, <2>3
<1>7. job' \in [Jobs -> JobType] /\ HandlersInv'
  BY <1>1, <1>2, <1>5, <1>6, GoesOn
<1> QED  BY <1>2, <1>4, <1>5, <1>7 DEF Moved, OnTo

Joined(j, q, cs, p) ==
    /\ p \in JobType /\ p.todo = q.todo /\ p.op = q.op /\ p.cal = q.cal
    /\ p.left = q.left /\ p.listed = q.listed /\ p.fresh = q.fresh
    /\ p.obsolete = q.obsolete /\ p.first = q.first /\ p.outdated = q.outdated
    /\ p.touched = q.touched \cup cs /\ p.shared = q.shared \cup Both(j, cs)
    /\ Both(j, cs) \subseteq cs
LEMMA WithAll ==
    ASSUME NEW j, NEW q \in JobType, NEW cs \in SUBSET Calendars, NEW p,
           p = With(q, cs, Both(j, cs))
    PROVE  Joined(j, q, cs, p)
<1>1. PICK b : b = Both(j, cs)
  OBVIOUS
<1>2. b \subseteq cs
  BY <1>1 DEF Both
<1>3. p = With(q, cs, b)
  BY <1>1
<1>4. p.touched = q.touched \cup cs /\ p.shared = q.shared \cup b
  BY <1>3, WithTouches
<1>5. /\ p \in JobType /\ p.todo = q.todo /\ p.op = q.op /\ p.cal = q.cal
      /\ p.left = q.left /\ p.listed = q.listed /\ p.fresh = q.fresh
      /\ p.obsolete = q.obsolete /\ p.first = q.first /\ p.outdated = q.outdated
  BY <1>2, <1>3, WithIs
<1> QED  BY <1>1, <1>2, <1>4, <1>5 DEF Joined

LEMMA SkipGoes ==
    ASSUME CoreInv, NEW j \in Jobs, Cal(j) \in Calendars, Skip(j), calls' = calls
    PROVE  /\ job' \in [Jobs -> JobType] /\ HandlersInv' /\ Others(j) /\ job'[j] = Idle
           /\ \A k \in Jobs \ {j} :
                 /\ job'[k].shared = job[k].shared
                 /\ Cal(j) \in job[k].touched => Cal(j) \in job'[k].outdated
<1>1. job' = [Outdated(Cal(j)) EXCEPT ![j] = Idle]
  BY DEF Skip
<1>2. DOMAIN Outdated(Cal(j)) = Jobs
  BY DEF Outdated
<1>3. job'[j] = Idle /\ \A k \in Jobs \ {j} : job'[k] = Outdated(Cal(j))[k]
  BY <1>1, <1>2 DEF Outdated
<1>4. AreJobs
  BY <1>1, <1>2 DEF AreJobs, Outdated
<1>5. ASSUME NEW k \in Jobs \ {j}
      PROVE  /\ Kin(job[k], job'[k]) /\ job'[k].shared = job[k].shared
             /\ Cal(j) \in job[k].touched => Cal(j) \in job'[k].outdated
  <2>1. PICK c \in Calendars : c = Cal(j)
    OBVIOUS
  <2> QED  BY <1>3, <2>1, OutdatedKin
<1>6. Others(j)
  BY <1>5 DEF Others
<1>7. job' \in [Jobs -> JobType] /\ HandlersInv'
  BY <1>3, <1>4, <1>6, Assemble
<1> QED  BY <1>3, <1>5, <1>6, <1>7

LEMMA CheckStatusGoes ==
    ASSUME CoreInv, NEW j \in Jobs, CheckStatus(j)
    PROVE  /\ job' \in [Jobs -> JobType] /\ HandlersInv' /\ Others(j)
           /\ job[j].op = "notice" /\ Cal(j) \in Calendars /\ Doing(j, "status")
           /\ \/ /\ Cal(j) \in status /\ UNCHANGED seen /\ Unmoved(j)
                 /\ Moved(j, job[j], job'[j], "load") /\ OnTo(j, "load")
              \/ /\ Cal(j) \notin status /\ Skip(j) /\ job'[j] = Idle
                 /\ \A k \in Jobs \ {j} :
                       /\ job'[k].shared = job[k].shared
                       /\ Cal(j) \in job[k].touched => Cal(j) \in job'[k].outdated
<1>1. job[j].todo # <<>> /\ Now(job[j]) = "status" /\ calls' = calls /\ Doing(j, "status")
  BY DoingIs DEF CheckStatus
<1>2. /\ job[j] \in JobType /\ job[j].op \in Ops /\ V(j) \in Vendors
      /\ Placed(j, job[j], Call(j), "status") /\ Kept(job[j], "status")
      /\ Works(j, job[j], Call(j))
  BY <1>1, WorksFacts, StepFacts, JobsAre
<1>3. PICK op \in Ops, v \in Vendors : op = job[j].op /\ v = V(j)
  BY <1>2
<1>4. \A m : <<"status", m>> \in Follows[op][v] => op = "notice" /\ m = "load"
  BY Table
<1>5. PICK m : <<"status", m>> \in Follows[op][v]
  BY <1>1, <1>2, <1>3, Advancing DEF Works
<1>6. op = "notice" /\ job[j].cal \in Calendars
  BY <1>2, <1>3, <1>4, <1>5 DEF Placed
<1>7. CASE Cal(j) \in status
  <2>1. Advance(j) /\ UNCHANGED seen
    BY <1>7 DEF CheckStatus
  <2>2. Doer(j, job[j]) /\ After(j, job[j])
    BY <1>1, <2>1, DoerSelf DEF Advance
  <2>3. Placed(j, job[j], Call(j), "load") /\ Kept(job[j], "load")
    BY <1>2 DEF Placed, Kept, Early, Working
  <2>4. \A n : <<Now(job[j]), n>> \in Follows[job[j].op][V(j)] => n = "load"
    BY <1>1, <1>3, <1>4
  <2>5. /\ job' \in [Jobs -> JobType] /\ HandlersInv' /\ Unmoved(j)
        /\ Moved(j, job[j], job'[j], "load") /\ OnTo(j, "load")
    BY <1>1, <2>2, <2>3, <2>4, AfterMoves
  <2>6. Others(j)
    BY <2>5, SameOthers DEF Unmoved
  <2> QED  BY <1>1, <1>3, <1>6, <1>7, <2>1, <2>5, <2>6 DEF Cal
<1>8. CASE Cal(j) \notin status
  <2>1. Skip(j) /\ Cal(j) \in Calendars
    BY <1>6, <1>8 DEF CheckStatus, Cal
  <2> QED  BY <1>1, <1>3, <1>6, <1>8, <2>1, SkipGoes
<1> QED  BY <1>7, <1>8

LEMMA LoadCalendarGoes ==
    ASSUME CoreInv, NEW j \in Jobs, LoadCalendar(j)
    PROVE  /\ job' \in [Jobs -> JobType] /\ HandlersInv' /\ Others(j)
           /\ job[j].op = "notice" /\ Cal(j) \in Calendars /\ Doing(j, "load")
           /\ \/ /\ IsRow(Cal(j)) /\ calendars[Cal(j)].check /\ UNCHANGED seen
                 /\ Moved(j, With(job[j], {Cal(j)}, Both(j, {Cal(j)})), job'[j], "list")
                 /\ OnTo(j, "list") /\ job'[j].touched = {Cal(j)}
                 /\ job'[j].shared = Both(j, {Cal(j)}) /\ job'[j].cal = Cal(j)
                 /\ job'[j].fresh = {} /\ job'[j].obsolete = {}
                 /\ \A k \in Jobs \ {j} : Shown(job[k], job'[k], {Cal(j)})
              \/ /\ Skip(j) /\ job'[j] = Idle
                 /\ \A k \in Jobs \ {j} :
                       /\ job'[k].shared = job[k].shared
                       /\ Cal(j) \in job[k].touched => Cal(j) \in job'[k].outdated
<1>1. job[j].todo # <<>> /\ Now(job[j]) = "load" /\ calls' = calls /\ Doing(j, "load")
  BY DoingIs DEF LoadCalendar
<1>2. /\ job[j] \in JobType /\ job[j].op \in Ops /\ V(j) \in Vendors
      /\ Placed(j, job[j], Call(j), "load") /\ Kept(job[j], "load")
      /\ Works(j, job[j], Call(j))
  BY <1>1, WorksFacts, StepFacts, JobsAre
<1>3. PICK op \in Ops, v \in Vendors : op = job[j].op /\ v = V(j)
  BY <1>2
<1>4. \A m : <<"load", m>> \in Follows[op][v] => op = "notice" /\ m = "list"
  BY Table
<1>5. PICK m : <<"load", m>> \in Follows[op][v]
  BY <1>1, <1>2, <1>3, Advancing DEF Works
<1>6. op = "notice" /\ job[j].cal \in Calendars /\ Cal(j) = job[j].cal
  BY <1>2, <1>3, <1>4, <1>5 DEF Placed, Cal
<1>7. CASE IsRow(Cal(j)) /\ calendars[Cal(j)].check
  <2>1. Touch(j, job[j], {Cal(j)}) /\ UNCHANGED seen
    BY <1>7 DEF LoadCalendar
  <2>2. Doer(j, job[j])
    BY <1>1, DoerSelf
  <2>3. PICK cs : cs = {Cal(j)}
    OBVIOUS
  <2>4. PICK p : p = With(job[j], cs, Both(j, cs))
    OBVIOUS
  <2>5. cs \subseteq Calendars
    BY <1>6, <2>3
  <2>6. /\ p \in JobType /\ p.todo = job[j].todo /\ p.op = job[j].op /\ p.cal = job[j].cal
        /\ p.left = job[j].left /\ p.listed = job[j].listed /\ p.fresh = job[j].fresh
        /\ p.obsolete = job[j].obsolete /\ p.outdated = job[j].outdated
        /\ p.touched = job[j].touched \cup cs /\ p.shared = job[j].shared \cup Both(j, cs)
        /\ Both(j, cs) \subseteq cs
    <3>1. Joined(j, job[j], cs, p)
      BY <1>2, <2>4, <2>5, WithAll
    <3> QED  BY <3>1 DEF Joined
  <2>7. /\ job[j].touched = {} /\ job[j].left = {} /\ job[j].fresh = {}
        /\ job[j].obsolete = {} /\ job[j].shared = {} /\ job[j].outdated = {}
    BY <1>2 DEF Placed, Kept, Early
  <2>8. Placed(j, p, Call(j), "list") /\ Kept(p, "list")
    BY <1>3, <1>6, <2>3, <2>6, <2>7 DEF Placed, Kept, Early, Working, Untouched
  <2>9. \A n : <<Now(job[j]), n>> \in Follows[job[j].op][V(j)] => n = "list"
    BY <1>1, <1>3, <1>4
  <2>10. /\ job' \in [Jobs -> JobType] /\ HandlersInv' /\ Others(j)
         /\ \A k \in Jobs \ {j} : Shown(job[k], job'[k], cs)
         /\ Moved(j, p, job'[j], "list") /\ OnTo(j, "list")
    BY <1>1, <2>1, <2>2, <2>3, <2>4, <2>5, <2>8, <2>9, TouchMoves
  <2>11. /\ job'[j].touched = {Cal(j)} /\ job'[j].shared = Both(j, {Cal(j)})
         /\ job'[j].cal = Cal(j) /\ job'[j].fresh = {} /\ job'[j].obsolete = {}
    BY <1>6, <2>3, <2>6, <2>7, <2>10 DEF Moved
  <2> QED  BY <1>1, <1>3, <1>6, <1>7, <2>1, <2>3, <2>4, <2>10, <2>11
<1>8. CASE ~(IsRow(Cal(j)) /\ calendars[Cal(j)].check)
  <2>1. Skip(j) /\ Cal(j) \in Calendars
    BY <1>6, <1>8 DEF LoadCalendar, Cal
  <2> QED  BY <1>1, <1>3, <1>6, <2>1, SkipGoes
<1> QED  BY <1>7, <1>8

LEMMA NextIs ==
    ASSUME CoreInv, NEW j \in Jobs, job[j].todo # <<>>
    PROVE  \E op \in Ops, v \in Vendors, n \in Steps \cup {"none"} :
              op = job[j].op /\ v = V(j) /\ <<Now(job[j]), n>> \in Follows[op][v]
<1>1. PICK n : <<Now(job[j]), n>> \in Follows[job[j].op][V(j)]
  BY WorksFacts, Advancing
<1>2. n \in Steps \cup {"none"}
  BY <1>1, WorksFacts, JobsAre, Table
<1> QED  BY <1>1, <1>2, WorksFacts, JobsAre

LEMMA CallsAre ==
    ASSUME NEW call \in Calls
    PROVE  /\ call.op \in {"patch", "integrate", "remove"}
           /\ call.op = "patch" =>
                 /\ DOMAIN call.want \subseteq Calendars /\ call.vendors \subseteq Vendors
                 /\ \A c \in DOMAIN call.want : call.want[c] \in Setting
           /\ call.op # "patch" => call.on \in Integrations
<1>1. CASE call \in [op : {"integrate", "remove"}, on : Integrations]
  BY <1>1
<1>2. CASE \E named \in SUBSET Calendars :
              call \in [op : {"patch"}, vendors : SUBSET Vendors, want : [named -> Setting]]
  <2>1. PICK named \in SUBSET Calendars :
              call \in [op : {"patch"}, vendors : SUBSET Vendors, want : [named -> Setting]]
    BY <1>2
  <2> QED  BY <2>1
<1> QED  BY <1>1, <1>2, CalendarSyncAssumption

LEMMA OfRequests ==
    ASSUME CoreInv, NEW j \in Jobs, job[j].todo # <<>>, job[j].op # "notice"
    PROVE  /\ j \notin Handlers /\ j[1] \in Requests /\ V(j) = VendorOf(j)
           /\ Call(j) \in Calls /\ Call(j).op = job[j].op /\ VendorOf(j) \in Branches(Call(j))
BY StepFacts, JobsAre DEF Owned, V

LEMMA OfPatches ==
    ASSUME CoreInv, NEW j \in Jobs, job[j].todo # <<>>, job[j].op = "patch"
    PROVE  /\ j \notin Handlers /\ V(j) = VendorOf(j) /\ Named(j) = NamedBy(j, Call(j))
           /\ Named(j) \subseteq Calendars
           /\ \A c \in Named(j) : Vendor[c] = V(j) /\ Call(j).want[c] \in Setting
           /\ Checked(j) \subseteq Calendars /\ \A c \in Checked(j) : Vendor[c] = V(j)
<1>1. j \notin Handlers /\ V(j) = VendorOf(j) /\ Call(j) \in Calls /\ Call(j).op = "patch"
  BY OfRequests
<1>2. Named(j) = NamedBy(j, Call(j))
  BY <1>1 DEF Named, NamedBy
<1>3. /\ Named(j) \subseteq Calendars
      /\ \A c \in Named(j) : Vendor[c] = V(j) /\ Call(j).want[c] \in Setting
  BY <1>1, CallsAre DEF Named
<1> QED  BY <1>1, <1>2, <1>3 DEF Checked, Mine

LEMMA OwnerGoes ==
    ASSUME CoreInv, NEW j \in Jobs, Owner(j)
    PROVE  /\ job' \in [Jobs -> JobType] /\ HandlersInv' /\ Others(j)
           /\ Doing(j, "owner") /\ job[j].op = "patch"
           /\ \/ /\ UNCHANGED <<store, notices, seen>> /\ Named(j) \subseteq Mine(j)
                 /\ OnTo(j, "next") /\ job'[j].op = "patch" /\ job'[j].cal = job[j].cal
                 /\ job'[j].left = Checked(j)
                 /\ job'[j].touched = Checked(j) \cup Named(j)
                 /\ job'[j].shared = Both(j, Checked(j) \cup Named(j))
                 /\ job'[j].fresh = {} /\ job'[j].obsolete = {} /\ job'[j].outdated = {}
                 /\ \A k \in Jobs \ {j} : Shown(job[k], job'[k], Checked(j) \cup Named(j))
              \/ RollBack(j) /\ UNCHANGED broken /\ job'[j] = Idle /\ Unmoved(j)
<1>1. job[j].todo # <<>> /\ Now(job[j]) = "owner" /\ calls' = calls /\ Doing(j, "owner")
  BY DoingIs DEF Owner
<1>2. /\ job[j] \in JobType
      /\ Placed(j, job[j], Call(j), "owner") /\ Kept(job[j], "owner")
  BY <1>1, WorksFacts, StepFacts
<1>3. PICK op \in Ops, v \in Vendors, n \in Steps \cup {"none"} :
        op = job[j].op /\ v = V(j) /\ <<"owner", n>> \in Follows[op][v]
  BY <1>1, NextIs
<1>4. \A m : <<"owner", m>> \in Follows[op][v] => op = "patch" /\ m = "next"
  BY Table
<1>5. op = "patch"
  BY <1>3, <1>4
<1>6. CASE Named(j) \subseteq Mine(j)
  <2> DEFINE q == [job[j] EXCEPT !.left = Checked(j)]
  <2>1. Touch(j, q, Checked(j) \cup Named(j)) /\ UNCHANGED <<store, notices, seen>>
    BY <1>6 DEF Owner
  <2>2. /\ Checked(j) \subseteq Calendars /\ Named(j) \subseteq Calendars
        /\ \A c \in Checked(j) \cup Named(j) : Vendor[c] = V(j)
        /\ Named(j) = NamedBy(j, Call(j))
    BY <1>1, <1>3, <1>5, OfPatches
  <2>3. /\ q \in JobType /\ q.todo = job[j].todo /\ q.op = job[j].op /\ q.cal = job[j].cal
        /\ q.left = Checked(j) /\ q.touched = job[j].touched /\ q.shared = job[j].shared
        /\ q.fresh = job[j].fresh /\ q.obsolete = job[j].obsolete
        /\ q.outdated = job[j].outdated
    BY <1>2, <2>2 DEF JobType
  <2>4. PICK r : r = q
    OBVIOUS
  <2> HIDE DEF q
  <2>5. PICK cs \in SUBSET Calendars : cs = Checked(j) \cup Named(j)
    BY <2>2
  <2>6. PICK p : p = With(r, cs, Both(j, cs))
    OBVIOUS
  <2>7. r \in JobType /\ Joined(j, r, cs, p)
    BY <2>3, <2>4, <2>5, <2>6, WithAll
  <2>8. Doer(j, r)
    BY <1>1, <2>3, <2>4 DEF Doer
  <2>9. /\ job[j].touched = {} /\ job[j].left = {} /\ job[j].fresh = {}
        /\ job[j].obsolete = {} /\ job[j].shared = {} /\ job[j].outdated = {}
    BY <1>2 DEF Placed, Kept, Early
  <2>10. /\ p.left = Checked(j) /\ p.touched = cs /\ p.shared = Both(j, cs)
         /\ p.fresh = {} /\ p.obsolete = {} /\ p.outdated = {} /\ p.op = "patch"
         /\ p.cal = job[j].cal /\ Both(j, cs) \subseteq cs
    BY <1>3, <1>5, <2>3, <2>4, <2>7, <2>9 DEF Joined
  <2>11. Placed(j, p, Call(j), "next") /\ Kept(p, "next")
    BY <2>2, <2>5, <2>10 DEF Placed, Kept, Early, Working, Untouched
  <2>12. \A m : <<Now(job[j]), m>> \in Follows[job[j].op][V(j)] => m = "next"
    BY <1>1, <1>3, <1>4
  <2>13. /\ job' \in [Jobs -> JobType] /\ HandlersInv' /\ Others(j)
         /\ \A k \in Jobs \ {j} : Shown(job[k], job'[k], cs)
         /\ Moved(j, p, job'[j], "next") /\ OnTo(j, "next")
    BY <1>1, <2>1, <2>4, <2>5, <2>6, <2>8, <2>11, <2>12, TouchMoves
  <2>14. /\ job'[j].op = "patch" /\ job'[j].cal = job[j].cal
         /\ job'[j].left = Checked(j)
         /\ job'[j].touched = Checked(j) \cup Named(j)
         /\ job'[j].shared = Both(j, Checked(j) \cup Named(j))
         /\ job'[j].fresh = {} /\ job'[j].obsolete = {} /\ job'[j].outdated = {}
    BY <2>5, <2>10, <2>13 DEF Moved
  <2> QED  BY <1>1, <1>3, <1>5, <1>6, <2>1, <2>5, <2>13, <2>14
<1>7. CASE ~(Named(j) \subseteq Mine(j))
  <2>1. RollBack(j) /\ UNCHANGED broken /\ End(j)
    BY <1>7 DEF Owner, RollBack
  <2>2. job' \in [Jobs -> JobType] /\ HandlersInv' /\ Others(j) /\ job'[j] = Idle /\ Unmoved(j)
    BY <1>1, <2>1, EndKeeps, EndGoes, SameOthers DEF Unmoved
  <2> QED  BY <1>1, <1>3, <1>5, <2>1, <2>2
<1> QED  BY <1>6, <1>7

LEMMA NextCalendarGoes ==
    ASSUME CoreInv, NEW j \in Jobs, NextCalendar(j)
    PROVE  /\ job' \in [Jobs -> JobType] /\ HandlersInv' /\ Unmoved(j)
           /\ Doing(j, "next") /\ job[j].op \in {"patch", "remove"}
           /\ \/ /\ job[j].left = {} /\ Moved(j, job[j], job'[j], "commit")
                 /\ OnTo(j, "commit")
              \/ /\ OnTo(j, IF job[j].op = "patch" THEN "list" ELSE "stop")
                 /\ job'[j].cal \in job[j].left /\ job'[j].left = job[j].left \ {job'[j].cal}
                 /\ job'[j].op = job[j].op /\ job'[j].touched = job[j].touched
                 /\ job'[j].shared = job[j].shared /\ job'[j].outdated = job[j].outdated
                 /\ job'[j].fresh = job[j].fresh /\ job'[j].obsolete = job[j].obsolete
                 /\ job'[j].first = job[j].first
<1>1. job[j].todo # <<>> /\ Now(job[j]) = "next" /\ calls' = calls /\ Doing(j, "next")
  BY DoingIs DEF NextCalendar
<1>2. /\ job[j] \in JobType /\ Works(j, job[j], Call(j))
      /\ Placed(j, job[j], Call(j), "next") /\ Kept(job[j], "next")
  BY <1>1, WorksFacts, StepFacts
<1>3. PICK op \in Ops, v \in Vendors, n \in Steps \cup {"none"} :
        op = job[j].op /\ v = V(j) /\ <<"next", n>> \in Follows[op][v]
  BY <1>1, NextIs
<1>4. \A m : <<"next", m>> \in Follows[op][v] => op \in {"patch", "remove"} /\ m = "commit"
  BY Table
<1>5. op \in {"patch", "remove"}
  BY <1>3, <1>4
<1>6. CASE job[j].left = {} /\ Advance(j)
  <2>1. Doer(j, job[j]) /\ After(j, job[j])
    BY <1>1, <1>6, DoerSelf DEF Advance
  <2>2. Placed(j, job[j], Call(j), "commit") /\ Kept(job[j], "commit")
    BY <1>2, <1>6 DEF Placed, Kept, Early, Working
  <2>3. \A m : <<Now(job[j]), m>> \in Follows[job[j].op][V(j)] => m = "commit"
    BY <1>1, <1>3, <1>4
  <2>4. /\ job' \in [Jobs -> JobType] /\ HandlersInv' /\ Unmoved(j)
        /\ Moved(j, job[j], job'[j], "commit") /\ OnTo(j, "commit")
    BY <1>1, <2>1, <2>2, <2>3, AfterMoves
  <2> QED  BY <1>1, <1>3, <1>5, <1>6, <2>4
<1>7. ASSUME NEW c \in job[j].left,
             job' = [job EXCEPT ![j].cal = c, ![j].left = @ \ {c},
                                ![j].todo = StepsOfCalendar(job[j], c) \o @]
      PROVE  /\ job' \in [Jobs -> JobType] /\ HandlersInv' /\ Unmoved(j)
             /\ OnTo(j, IF job[j].op = "patch" THEN "list" ELSE "stop")
             /\ job'[j].cal \in job[j].left /\ job'[j].left = job[j].left \ {job'[j].cal}
             /\ job'[j].op = job[j].op /\ job'[j].touched = job[j].touched
             /\ job'[j].shared = job[j].shared /\ job'[j].outdated = job[j].outdated
             /\ job'[j].fresh = job[j].fresh /\ job'[j].obsolete = job[j].obsolete
             /\ job'[j].first = job[j].first
  <2>1. c \in job[j].touched /\ Vendor[c] = V(j) /\ c \in Calendars /\ Untouched(job[j], c)
    BY <1>2, <1>3, <1>5 DEF Placed, Kept, JobType
  <2>2. op = "remove" => v = "google"
    <3>1. CASE op = "remove" /\ v = "apple"
      <4>1. <<"next", n>> \in RemoveAppleFollows
        BY <1>3, <3>1 DEF Follows
      <4> QED  BY <4>1 DEF RemoveAppleFollows
    <3> QED  BY <3>1 DEF Vendors
  <2>3. /\ job[j].todo \in Rests[job[j].op][Vendor[c]] /\ Head(job[j].todo) = "next"
        /\ Vendor[c] \in Vendors
    BY <1>1, <1>2, <1>3, <2>1 DEF Works, Now, NextStep
  <2> DEFINE u == StepsOfCalendar(job[j], c) \o job[j].todo
  <2>4. /\ u \in Rests[job[j].op][V(j)] /\ u # <<>>
        /\ Head(u) = IF job[j].op = "patch" THEN "list" ELSE "stop"
    <3>1. PICK o, t : o = job[j] /\ t = job[j].todo
      OBVIOUS
    <3>2. o.op \in {"patch", "remove"} /\ (o.op = "remove" => Vendor[c] = "google")
      BY <1>3, <1>5, <2>1, <2>2, <3>1
    <3>3. Vendor[c] \in Vendors /\ t \in Rests[o.op][Vendor[c]] /\ Head(t) = "next"
      BY <2>3, <3>1
    <3>4. /\ StepsOfCalendar(o, c) \o t \in Rests[o.op][Vendor[c]]
          /\ StepsOfCalendar(o, c) \o t # <<>>
          /\ Head(StepsOfCalendar(o, c) \o t) = IF o.op = "patch" THEN "list" ELSE "stop"
      BY <3>2, <3>3, TodoOfCalendar
    <3> QED  BY <2>1, <3>1, <3>4
  <2>5. u \in Seq(Steps)
    BY <1>3, <2>4, AllGoing DEF Going
  <2> HIDE DEF u
  <2>6. job \in [Jobs -> JobType]
    BY DEF CoreInv, TypeOK
  <2>7. /\ job'[j] = [job[j] EXCEPT !.cal = c, !.left = @ \ {c}, !.todo = u]
        /\ AreJobs /\ Unmoved(j)
    BY <1>7, <2>6 DEF u, AreJobs, Unmoved
  <2>8. PICK p : p = job'[j]
    OBVIOUS
  <2>9. /\ p \in JobType /\ p.cal = c /\ p.left = job[j].left \ {c} /\ p.todo = u
        /\ p.op = job[j].op /\ p.touched = job[j].touched /\ p.shared = job[j].shared
        /\ p.outdated = job[j].outdated /\ p.fresh = job[j].fresh
        /\ p.obsolete = job[j].obsolete /\ p.first = job[j].first
    <3>1. PICK o : o = job[j]
      OBVIOUS
    <3>2. p = [o EXCEPT !.cal = c, !.left = @ \ {c}, !.todo = u]
      BY <2>7, <2>8, <3>1
    <3>3. o \in JobType
      BY <1>2, <3>1
    <3>4. p \in JobType
      BY <2>1, <2>5, <3>2, <3>3 DEF JobType
    <3>5. /\ p.cal = c /\ p.left = o.left \ {c} /\ p.todo = u
          /\ p.op = o.op /\ p.touched = o.touched /\ p.shared = o.shared
          /\ p.outdated = o.outdated /\ p.fresh = o.fresh
          /\ p.obsolete = o.obsolete /\ p.first = o.first
      BY <3>2, <3>3 DEF JobType
    <3> QED  BY <3>1, <3>4, <3>5
  <2>10. Now(p) = IF job[j].op = "patch" THEN "list" ELSE "stop"
    BY <2>4, <2>9 DEF Now, NextStep
  <2>11. Placed(j, p, Call(j), Now(p))
    BY <1>2, <1>3, <1>5, <2>1, <2>9, <2>10 DEF Placed, Early, Working
  <2>12. Kept(p, Now(p))
    <3>1. /\ p.left \subseteq p.touched /\ p.outdated \subseteq p.touched
          /\ p.shared \subseteq p.touched
          /\ p.fresh \subseteq p.touched \X Events /\ p.obsolete \subseteq p.touched \X Events
      BY <1>2, <2>9 DEF Kept
    <3>2. Now(p) # "commit" /\ p.op \notin {"notice", "integrate"}
      BY <1>3, <1>5, <2>9, <2>10
    <3>3. Untouched(p, p.cal) /\ \A d \in p.left : Untouched(p, d)
      BY <1>2, <2>1, <2>9 DEF Kept, Untouched
    <3>4. p.op = "remove" => p.fresh = {} /\ p.obsolete = {}
      BY <1>2, <2>9 DEF Kept
    <3> QED  BY <3>1, <3>2, <3>3, <3>4 DEF Kept
  <2>13. Works(j, p, Call(j))
    BY <1>2, <1>3, <2>4, <2>9, <2>11, <2>12 DEF Works, Owned
  <2>14. Others(j)
    BY <2>7, SameOthers DEF Unmoved
  <2>15. job' \in [Jobs -> JobType] /\ HandlersInv'
    BY <1>1, <2>7, <2>8, <2>9, <2>13, <2>14, Assemble
  <2> QED  BY <2>4, <2>7, <2>8, <2>9, <2>10, <2>15 DEF OnTo
<1>8. CASE \E c \in job[j].left :
             job' = [job EXCEPT ![j].cal = c, ![j].left = @ \ {c},
                                ![j].todo = StepsOfCalendar(job[j], c) \o @]
  BY <1>1, <1>3, <1>5, <1>7, <1>8
<1> QED  BY <1>6, <1>8 DEF NextCalendar

LEMMA PlainGoes ==
    ASSUME CoreInv, NEW j \in Jobs, NEW s \in Plain, Doing(j, s), calls' = calls, Advance(j)
    PROVE  /\ job' \in [Jobs -> JobType] /\ HandlersInv' /\ Unmoved(j)
           /\ s = "commit" => job'[j] = Idle
           /\ s # "commit" => \E n :
                 /\ Moved(j, job[j], job'[j], n) /\ OnTo(j, n)
                 /\ s = "status" => n = "load"
                 /\ s = "known" => n = "stop" /\ job[j].op = "patch"
                 /\ s = "stop" => n = "forget" /\ job[j].op \in {"patch", "remove"}
                 /\ s = "forget" => \/ n = "set" /\ job[j].op = "patch"
                                    \/ n = "next" /\ job[j].op = "remove"
                 /\ s = "set" => n = "watch" /\ job[j].op \in {"patch", "integrate"}
                 /\ s = "watch" => n = "note" /\ job[j].op \in {"patch", "integrate"}
                 /\ s = "note" => \/ n = "next" /\ job[j].op = "patch"
                                  \/ n = "commit" /\ job[j].op = "integrate"
                 /\ s = "exists" => n = "fetch" /\ job[j].op = "integrate"
                 /\ s = "forgetAll" => n = "details" /\ job[j].op = "remove"
<1>1. job[j].todo # <<>> /\ Now(job[j]) = s
  BY DoingIs
<1>2. job' \in [Jobs -> JobType] /\ HandlersInv'
  BY <1>1, PlainKeeps
<1>3. Went(j, job[j]) /\ Unmoved(j)
  BY <1>1, AdvanceGoes DEF Unmoved
<1>4. PICK n : /\ <<s, n>> \in Follows[job[j].op][V(j)]
               /\ n = "none" => job'[j] = Idle
               /\ n # "none" => Moved(j, job[j], job'[j], n)
  BY <1>1, <1>3 DEF Went
<1>5. PICK op \in Ops, v \in Vendors : op = job[j].op /\ v = V(j)
  BY <1>1, WorksFacts, JobsAre
<1>6. <<s, n>> \in Follows[op][v]
  BY <1>4, <1>5
<1>7. n = "none" <=> s = "commit"
  BY <1>6, Table
<1>8. CASE s = "commit"
  BY <1>2, <1>3, <1>4, <1>7, <1>8
<1>9. CASE s # "commit"
  <2>1. Moved(j, job[j], job'[j], n) /\ OnTo(j, n)
    BY <1>4, <1>7, <1>9 DEF Moved, OnTo
  <2>2. /\ s = "status" => n = "load"
        /\ s = "known" => n = "stop" /\ op = "patch"
        /\ s = "stop" => n = "forget" /\ op \in {"patch", "remove"}
    BY <1>6, Table
  <2>3. /\ s = "forget" => (n = "set" /\ op = "patch") \/ (n = "next" /\ op = "remove")
        /\ s = "note" => (n = "next" /\ op = "patch") \/ (n = "commit" /\ op = "integrate")
    BY <1>6, Table
  <2>4. /\ s = "set" => n = "watch" /\ op \in {"patch", "integrate"}
        /\ s = "watch" => n = "note" /\ op \in {"patch", "integrate"}
        /\ s = "exists" => n = "fetch" /\ op = "integrate"
        /\ s = "forgetAll" => n = "details" /\ op = "remove"
    BY <1>6, Table
  <2> QED  BY <1>2, <1>3, <1>5, <1>9, <2>1, <2>2, <2>3, <2>4
<1> QED  BY <1>8, <1>9

LEMMA KnownGoes ==
    ASSUME CoreInv, NEW j \in Jobs, Known(j)
    PROVE  /\ job' \in [Jobs -> JobType] /\ HandlersInv' /\ Unmoved(j)
           /\ Doing(j, "known") /\ job[j].op = "patch"
           /\ \/ OnTo(j, "stop") /\ Moved(j, job[j], job'[j], "stop")
              \/ OnTo(j, "set") /\ Moved(j, job[j], job'[j], "set")
<1>1. job[j].todo # <<>> /\ Now(job[j]) = "known" /\ calls' = calls /\ Doing(j, "known")
  BY DoingIs DEF Known
<1>2. CASE Cal(j) \in status \cap detail
  <2>1. Advance(j) /\ "known" \in Plain
    BY <1>2 DEF Known, Plain
  <2>2. /\ job' \in [Jobs -> JobType] /\ HandlersInv' /\ Unmoved(j)
        /\ \E n : Moved(j, job[j], job'[j], n) /\ OnTo(j, n) /\ n = "stop" /\ job[j].op = "patch"
    BY <1>1, <2>1, PlainGoes
  <2> QED  BY <1>1, <2>2
<1>3. CASE Cal(j) \notin status \cap detail
  <2>1. job' = [job EXCEPT ![j].todo = Tail(Tail(Tail(@)))]
    BY <1>3 DEF Known, SkipUnsubscribing
  <2>2. /\ job[j] \in JobType /\ Works(j, job[j], Call(j))
        /\ Placed(j, job[j], Call(j), "known") /\ Kept(job[j], "known")
    BY <1>1, WorksFacts, StepFacts
  <2>3. PICK op \in Ops, v \in Vendors, n \in Steps \cup {"none"} :
          op = job[j].op /\ v = V(j) /\ <<"known", n>> \in Follows[op][v]
    BY <1>1, NextIs
  <2>4. op = "patch"
    BY <2>3, Table
  <2>5. PICK t : t = job[j].todo
    OBVIOUS
  <2>6. t \in Rests[op][v] /\ Head(t) = "known"
    BY <1>1, <2>2, <2>3, <2>5 DEF Works, Now, NextStep
  <2>17. /\ Tail(Tail(Tail(t))) \in Rests[op][v] /\ Tail(Tail(Tail(t))) # <<>>
         /\ Head(Tail(Tail(Tail(t)))) = "set"
    BY <2>3, <2>6, TodoSkipping
  <2>7. PICK u : u = Tail(Tail(Tail(t))) /\ u \in Rests[op][v] /\ u # <<>> /\ Head(u) = "set"
    BY <2>17, Zenon
  <2>8. u \in Seq(Steps)
    BY <2>7, AllGoing DEF Going
  <2>9. PICK p : p = job'[j]
    OBVIOUS
  <2>10. job \in [Jobs -> JobType]
    BY DEF CoreInv, TypeOK
  <2>11. p = [job[j] EXCEPT !.todo = u] /\ AreJobs /\ Unmoved(j)
    BY <2>1, <2>5, <2>7, <2>9, <2>10 DEF AreJobs, Unmoved
  <2>12. p \in JobType /\ p.todo = u /\ Moved(j, job[j], p, "set")
    BY <2>2, <2>3, <2>7, <2>8, <2>11 DEF JobType, Moved, Now, NextStep
  <2>13. Placed(j, job[j], Call(j), "set") /\ Kept(job[j], "set")
    BY <2>2 DEF Placed, Kept, Early, Working
  <2>14. Works(j, p, Call(j))
    BY <2>2, <2>3, <2>12, <2>13, MovedWorks DEF Works
  <2>15. Others(j)
    BY <2>11, SameOthers DEF Unmoved
  <2>16. job' \in [Jobs -> JobType] /\ HandlersInv'
    BY <1>1, <2>9, <2>11, <2>12, <2>14, <2>15, Assemble
  <2> QED  BY <1>1, <2>3, <2>4, <2>7, <2>9, <2>11, <2>12, <2>16 DEF OnTo, Now, NextStep
<1> QED  BY <1>2, <1>3

LEMMA SkipSubscribingGoes ==
    ASSUME CoreInv, NEW j \in Jobs, NEW s \in {"watch", "note"}, Doing(j, s), calls' = calls,
           SkipSubscribing(j)
    PROVE  /\ job' \in [Jobs -> JobType] /\ HandlersInv' /\ Unmoved(j)
           /\ \E n : /\ OnTo(j, n) /\ Moved(j, job[j], job'[j], n)
                     /\ \/ n = "next" /\ job[j].op = "patch"
                        \/ n = "commit" /\ job[j].op = "integrate"
<1>1. job[j].todo # <<>> /\ Now(job[j]) = s
  BY DoingIs
<1>2. CASE s = "note"
  <2>1. ~Doing(j, "watch")
    BY <1>1, <1>2 DEF Doing, Now, NextStep
  <2>2. Advance(j) /\ "note" \in Plain
    BY <2>1 DEF SkipSubscribing, Advance, Plain
  <2>3. /\ job' \in [Jobs -> JobType] /\ HandlersInv' /\ Unmoved(j)
        /\ \E n : /\ Moved(j, job[j], job'[j], n) /\ OnTo(j, n)
                  /\ \/ n = "next" /\ job[j].op = "patch"
                     \/ n = "commit" /\ job[j].op = "integrate"
    BY <1>2, <2>2, PlainGoes
  <2> QED  BY <2>3
<1>3. CASE s = "watch"
  <2> DEFINE q == [job[j] EXCEPT !.todo = Tail(@)]
  <2>1. After(j, q)
    BY <1>3 DEF SkipSubscribing
  <2>2. /\ job[j] \in JobType /\ Works(j, job[j], Call(j)) /\ job \in [Jobs -> JobType]
        /\ Placed(j, job[j], Call(j), "watch") /\ Kept(job[j], "watch")
    BY <1>1, <1>3, WorksFacts, StepFacts DEF CoreInv, TypeOK
  <2>3. PICK op \in Ops, v \in Vendors, n \in Steps \cup {"none"} :
          op = job[j].op /\ v = V(j) /\ <<"watch", n>> \in Follows[op][v]
    BY <1>1, <1>3, NextIs
  <2>4. PICK t, u : t = job[j].todo /\ u = Tail(t)
    OBVIOUS
  <2>5. t \in Rests[op][v] /\ Head(t) = "watch"
    BY <1>1, <1>3, <2>2, <2>3, <2>4 DEF Works, Now, NextStep
  <2>6. u \in Rests[op][v] /\ u # <<>> /\ Head(u) = "note"
    BY <2>4, <2>5, TodoSkipping
  <2>7. u \in Seq(Steps)
    BY <2>6, AllGoing DEF Going
  <2>8. /\ q \in JobType /\ q.todo = u /\ q.op = op /\ q.cal = job[j].cal
        /\ q.left = job[j].left /\ q.listed = job[j].listed /\ q.fresh = job[j].fresh
        /\ q.obsolete = job[j].obsolete /\ q.first = job[j].first
        /\ q.touched = job[j].touched /\ q.outdated = job[j].outdated
        /\ q.shared = job[j].shared
    BY <2>2, <2>3, <2>4, <2>7 DEF JobType
  <2>9. job'[j] = Advanced(q) /\ AreJobs /\ Unmoved(j)
    BY <2>1, <2>2 DEF After, AreJobs, Unmoved
  <2>10. PICK r : r = q
    OBVIOUS
  <2> HIDE DEF q
  <2>11. PICK m : /\ <<Now(r), m>> \in Follows[r.op][V(j)]
                  /\ m = "none" => Advanced(r) = Idle
                  /\ m # "none" => Moved(j, r, Advanced(r), m)
    BY <2>3, <2>6, <2>8, <2>10, Advancing
  <2>12. <<"note", m>> \in Follows[op][v]
    BY <2>3, <2>6, <2>8, <2>10, <2>11 DEF Now, NextStep
  <2>13. (m = "next" /\ op = "patch") \/ (m = "commit" /\ op = "integrate")
    BY <2>12, Table
  <2>14. Moved(j, r, job'[j], m)
    BY <2>9, <2>10, <2>11, <2>13
  <2>15. Moved(j, job[j], job'[j], m)
    BY <2>3, <2>8, <2>10, <2>14 DEF Moved
  <2>16. Placed(j, job[j], Call(j), m) /\ Kept(job[j], m)
    BY <2>2, <2>3, <2>13 DEF Placed, Kept, Early, Working
  <2>17. Works(j, job'[j], Call(j)) /\ job'[j] \in JobType
    BY <2>2, <2>15, <2>16, MovedWorks DEF Works, Moved
  <2>18. Others(j)
    BY <2>9, SameOthers DEF Unmoved
  <2>19. job' \in [Jobs -> JobType] /\ HandlersInv'
    BY <2>9, <2>17, <2>18, Assemble
  <2>20. OnTo(j, m)
    BY <2>15 DEF Moved, OnTo
  <2> QED  BY <2>3, <2>9, <2>13, <2>15, <2>19, <2>20
<1> QED  BY <1>2, <1>3

LEMMA OfIntegrations ==
    ASSUME CoreInv, NEW j \in Jobs, job[j].todo # <<>>, job[j].op \in {"integrate", "remove"}
    PROVE  /\ j \notin Handlers /\ V(j) = VendorOf(j) /\ Call(j) \in Calls
           /\ CalendarsOf(Call(j).on) \subseteq Calendars
           /\ \A c \in CalendarsOf(Call(j).on) : Vendor[c] = V(j)
           /\ \E c \in CalendarsOf(Call(j).on) : Vendor[c] = V(j)
<1>1. /\ j \notin Handlers /\ V(j) = VendorOf(j) /\ Call(j) \in Calls
      /\ Call(j).op \in {"integrate", "remove"} /\ VendorOf(j) \in Branches(Call(j))
  BY OfRequests
<1>2. PICK call : call = Call(j)
  OBVIOUS
<1>3. CalendarsOf(call.on) \subseteq Calendars
  BY DEF CalendarsOf
<1>4. \E c \in CalendarsOf(call.on) : Vendor[c] = V(j)
  BY <1>1, <1>2 DEF Branches
<1>5. \A c \in CalendarsOf(call.on) : Vendor[c] = V(j)
  BY <1>4, CalendarSyncAssumption DEF CalendarsOf
<1> QED  BY <1>1, <1>2, <1>3, <1>4, <1>5

LEMMA FetchGoes ==
    ASSUME CoreInv, NEW j \in Jobs, Fetch(j)
    PROVE  /\ job' \in [Jobs -> JobType] /\ HandlersInv' /\ Others(j)
           /\ Doing(j, "fetch") /\ job[j].op = "integrate" /\ job'[j].op = "integrate"
           /\ OnTo(j, IF V(j) = "google" THEN "outbound" ELSE "commit")
           /\ job'[j].cal \in Fetched(j) /\ job'[j].touched = {job'[j].cal}
           /\ job'[j].shared = Both(j, {job'[j].cal}) /\ job'[j].left = {}
           /\ \E page \in SUBSET events[job'[j].cal] :
                 /\ job'[j].fresh = {job'[j].cal} \X page
                 /\ job'[j].outdated =
                      IF page = events[job'[j].cal] THEN {} ELSE {job'[j].cal}
           /\ job'[j].obsolete = {} /\ job'[j].first = job[j].first
           /\ \A k \in Jobs \ {j} : Shown(job[k], job'[k], {job'[j].cal})
<1>1. job[j].todo # <<>> /\ Now(job[j]) = "fetch" /\ calls' = calls /\ Doing(j, "fetch")
  BY DoingIs DEF Fetch
<1>2. /\ job[j] \in JobType
      /\ Placed(j, job[j], Call(j), "fetch") /\ Kept(job[j], "fetch")
  BY <1>1, WorksFacts, StepFacts
<1>3. PICK op \in Ops, v \in Vendors, n \in Steps \cup {"none"} :
        op = job[j].op /\ v = V(j) /\ <<"fetch", n>> \in Follows[op][v]
  BY <1>1, NextIs
<1> DEFINE on == IF V(j) = "google" THEN "outbound" ELSE "commit"
<1>4. /\ op = "integrate"
      /\ \A m : <<"fetch", m>> \in Follows[op][v] => m = on
  <2>1. \A m : <<"fetch", m>> \in Follows[op][v] =>
            \/ op = "integrate" /\ v = "google" /\ m = "outbound"
            \/ op = "integrate" /\ v = "apple" /\ m = "commit"
    BY Table
  <2> QED  BY <1>3, <2>1
<1>5. PICK c \in Fetched(j), page \in SUBSET Events :
        /\ page \subseteq events[c]
        /\ Touch(j, [job[j] EXCEPT !.cal = c, !.fresh = {c} \X page,
                       !.outdated = IF page = events[c] THEN {} ELSE {c}], {c})
  BY DEF Fetch
<1>6. /\ c \in Calendars /\ c \in CalendarsOf(Call(j).on) /\ Vendor[c] = V(j)
      /\ c \in Primary \/ Vendor[c] = "apple"
  BY <1>1, <1>3, <1>4, OfIntegrations DEF Fetched
<1> DEFINE q == [job[j] EXCEPT !.cal = c, !.fresh = {c} \X page,
                    !.outdated = IF page = events[c] THEN {} ELSE {c}]
<1>7. PICK o : o = job[j]
  OBVIOUS
<1>8. PICK r : r = [o EXCEPT !.cal = c, !.fresh = {c} \X page,
                    !.outdated = IF page = events[c] THEN {} ELSE {c}]
  OBVIOUS
<1>9. PICK cs \in SUBSET Calendars : cs = {c}
  BY <1>6
<1>10. Touch(j, r, cs)
  BY <1>5, <1>7, <1>8, <1>9
<1>11. /\ r \in JobType /\ r.todo = o.todo /\ r.op = o.op /\ r.cal = c
       /\ r.left = o.left /\ r.touched = o.touched /\ r.shared = o.shared
       /\ r.fresh = {c} \X page /\ r.obsolete = o.obsolete /\ r.first = o.first
       /\ r.outdated = IF page = events[c] THEN {} ELSE {c}
  <2>1. {c} \X page \subseteq Calendars \X Events
    BY <1>6
  <2>2. o \in JobType
    BY <1>2, <1>7
  <2> QED  BY <1>6, <1>8, <2>1, <2>2 DEF JobType
<1>12. PICK p : p = With(r, cs, Both(j, cs))
  OBVIOUS
<1>13. Joined(j, r, cs, p)
  BY <1>11, <1>9, <1>12, WithAll
<1>14. Doer(j, r)
  BY <1>1, <1>7, <1>11 DEF Doer
<1>15. /\ o.touched = {} /\ o.left = {} /\ o.fresh = {} /\ o.obsolete = {} /\ o.shared = {}
  BY <1>2, <1>7 DEF Placed, Kept, Early
<1>16. /\ p.left = {} /\ p.touched = {c} /\ p.shared = Both(j, {c}) /\ p.cal = c
       /\ p.fresh = {c} \X page /\ p.obsolete = {} /\ p.op = "integrate"
       /\ p.first = o.first /\ Both(j, {c}) \subseteq {c}
       /\ p.outdated = IF page = events[c] THEN {} ELSE {c}
  BY <1>3, <1>4, <1>7, <1>9, <1>11, <1>13, <1>15 DEF Joined
<1>17. on \in {"outbound", "commit"}
  OBVIOUS
<1>18. Placed(j, p, Call(j), on) /\ Kept(p, on)
  <2>1. p.fresh \subseteq p.touched \X Events
    BY <1>16
  <2> QED  BY <1>6, <1>16, <1>17, <2>1 DEF Placed, Kept, Early, Working
<1>19. \A m : <<Now(job[j]), m>> \in Follows[job[j].op][V(j)] => m = on
  BY <1>1, <1>3, <1>4
<1>20. on # "none"
  OBVIOUS
<1> HIDE DEF on
<1>21. /\ job' \in [Jobs -> JobType] /\ HandlersInv' /\ Others(j)
       /\ \A k \in Jobs \ {j} : Shown(job[k], job'[k], cs)
       /\ Moved(j, p, job'[j], on) /\ OnTo(j, on)
  BY <1>1, <1>9, <1>10, <1>12, <1>14, <1>18, <1>19, <1>20, TouchMoves
<1>22. /\ job'[j].op = "integrate" /\ job'[j].cal = c /\ job'[j].touched = {c}
       /\ job'[j].shared = Both(j, {c}) /\ job'[j].left = {}
       /\ job'[j].fresh = {c} \X page /\ job'[j].obsolete = {}
       /\ job'[j].first = job[j].first
       /\ job'[j].outdated = IF page = events[c] THEN {} ELSE {c}
  BY <1>7, <1>16, <1>21 DEF Moved
<1>23. job'[j].cal \in Fetched(j) /\ page \in SUBSET events[job'[j].cal]
  BY <1>5, <1>22
<1> QED  BY <1>1, <1>3, <1>4, <1>9, <1>21, <1>22, <1>23 DEF on

LEMMA LookForOutboundGoes ==
    ASSUME CoreInv, NEW j \in Jobs, LookForOutbound(j)
    PROVE  /\ job' \in [Jobs -> JobType] /\ HandlersInv' /\ Unmoved(j)
           /\ Doing(j, "outbound") /\ job[j].op = "integrate" /\ V(j) = "google"
           /\ OnTo(j, "set") /\ Agree(job[j], job'[j]) /\ job'[j].listed = job[j].listed
           /\ job'[j].fresh = job[j].fresh /\ job'[j].obsolete = job[j].obsolete
           /\ job'[j].outdated = job[j].outdated
           /\ job'[j].first = \A c \in Calendars : ~calendars[c].outbound
<1>1. job[j].todo # <<>> /\ Now(job[j]) = "outbound" /\ calls' = calls /\ Doing(j, "outbound")
  BY DoingIs DEF LookForOutbound
<1>2. /\ job[j] \in JobType
      /\ Placed(j, job[j], Call(j), "outbound") /\ Kept(job[j], "outbound")
  BY <1>1, WorksFacts, StepFacts
<1>3. PICK op \in Ops, v \in Vendors, n \in Steps \cup {"none"} :
        op = job[j].op /\ v = V(j) /\ <<"outbound", n>> \in Follows[op][v]
  BY <1>1, NextIs
<1>4. op = "integrate" /\ v = "google"
      /\ \A m : <<"outbound", m>> \in Follows[op][v] => m = "set"
  BY <1>3, Table
<1>5. PICK f \in BOOLEAN : f = \A c \in Calendars : ~calendars[c].outbound
  OBVIOUS
<1>6. PICK o, q : o = job[j] /\ q = [o EXCEPT !.first = f]
  OBVIOUS
<1>7. After(j, q)
  BY <1>5, <1>6 DEF LookForOutbound
<1>8. /\ q \in JobType /\ q.todo = o.todo /\ Agree(o, q) /\ q.listed = o.listed
      /\ q.fresh = o.fresh /\ q.obsolete = o.obsolete /\ q.outdated = o.outdated
      /\ q.first = f /\ q.op = o.op
  BY <1>2, <1>6 DEF JobType, Agree
<1>9. Doer(j, q)
  BY <1>1, <1>6, <1>8 DEF Doer
<1>10. Placed(j, q, Call(j), "set") /\ Kept(q, "set")
  BY <1>2, <1>3, <1>4, <1>6, <1>8 DEF Placed, Kept, Agree, Early, Working, Untouched
<1>11. \A m : <<Now(job[j]), m>> \in Follows[job[j].op][V(j)] => m = "set"
  BY <1>1, <1>3, <1>4
<1>12. /\ job' \in [Jobs -> JobType] /\ HandlersInv' /\ Unmoved(j)
       /\ Moved(j, q, job'[j], "set") /\ OnTo(j, "set")
  BY <1>1, <1>7, <1>9, <1>10, <1>11, AfterMoves
<1>13. /\ Agree(job[j], job'[j]) /\ job'[j].listed = job[j].listed
       /\ job'[j].fresh = job[j].fresh /\ job'[j].obsolete = job[j].obsolete
       /\ job'[j].outdated = job[j].outdated /\ job'[j].first = f
  BY <1>6, <1>8, <1>12 DEF Moved, Agree
<1> QED  BY <1>1, <1>3, <1>4, <1>5, <1>12, <1>13

LEMMA LoadDetailsGoes ==
    ASSUME CoreInv, NEW j \in Jobs, LoadDetails(j)
    PROVE  /\ job' \in [Jobs -> JobType] /\ HandlersInv' /\ Unmoved(j)
           /\ Doing(j, "details") /\ job[j].op = "remove" /\ V(j) = "google"
           /\ OnTo(j, "next") /\ job'[j].left = detail \cap CalendarsOf(Call(j).on)
           /\ job'[j].op = "remove" /\ job'[j].cal = job[j].cal
           /\ job'[j].touched = job[j].touched /\ job'[j].shared = job[j].shared
           /\ job'[j].fresh = job[j].fresh /\ job'[j].obsolete = job[j].obsolete
           /\ job'[j].outdated = job[j].outdated /\ job'[j].first = job[j].first
<1>1. job[j].todo # <<>> /\ Now(job[j]) = "details" /\ calls' = calls /\ Doing(j, "details")
  BY DoingIs DEF LoadDetails
<1>2. /\ job[j] \in JobType
      /\ Placed(j, job[j], Call(j), "details") /\ Kept(job[j], "details")
  BY <1>1, WorksFacts, StepFacts
<1>3. PICK op \in Ops, v \in Vendors, n \in Steps \cup {"none"} :
        op = job[j].op /\ v = V(j) /\ <<"details", n>> \in Follows[op][v]
  BY <1>1, NextIs
<1>4. op = "remove" /\ v = "google"
      /\ \A m : <<"details", m>> \in Follows[op][v] => m = "next"
  BY <1>3, Table
<1>5. PICK l : l = detail \cap CalendarsOf(Call(j).on)
  OBVIOUS
<1>6. PICK o, q : o = job[j] /\ q = [o EXCEPT !.left = l]
  OBVIOUS
<1>7. After(j, q)
  BY <1>5, <1>6 DEF LoadDetails
<1>8. l \subseteq Calendars /\ l \subseteq CalendarsOf(Call(j).on)
  BY <1>5 DEF CalendarsOf
<1>9. /\ q \in JobType /\ q.todo = o.todo /\ q.cal = o.cal /\ q.left = l
      /\ q.touched = o.touched /\ q.shared = o.shared
      /\ q.fresh = o.fresh /\ q.obsolete = o.obsolete /\ q.outdated = o.outdated
      /\ q.first = o.first /\ q.op = o.op
  BY <1>2, <1>6, <1>8 DEF JobType
<1>10. Doer(j, q)
  BY <1>1, <1>6, <1>9 DEF Doer
<1>11. /\ o.touched = CalendarsOf(Call(j).on)
  BY <1>2, <1>3, <1>4, <1>6 DEF Placed, Early
<1>12. Placed(j, q, Call(j), "next")
  BY <1>2, <1>3, <1>4, <1>6, <1>9, <1>11 DEF Placed, Early, Working
<1>13. Kept(q, "next")
  BY <1>2, <1>3, <1>4, <1>6, <1>8, <1>9, <1>11 DEF Kept, Untouched
<1>14. \A m : <<Now(job[j]), m>> \in Follows[job[j].op][V(j)] => m = "next"
  BY <1>1, <1>3, <1>4
<1>15. /\ job' \in [Jobs -> JobType] /\ HandlersInv' /\ Unmoved(j)
       /\ Moved(j, q, job'[j], "next") /\ OnTo(j, "next")
  BY <1>1, <1>7, <1>10, <1>12, <1>13, <1>14, AfterMoves
<1>16. /\ job'[j].op = "remove" /\ job'[j].cal = job[j].cal /\ job'[j].left = l
       /\ job'[j].touched = job[j].touched /\ job'[j].shared = job[j].shared
       /\ job'[j].fresh = job[j].fresh /\ job'[j].obsolete = job[j].obsolete
       /\ job'[j].outdated = job[j].outdated /\ job'[j].first = job[j].first
  BY <1>3, <1>4, <1>6, <1>9, <1>15 DEF Moved
<1> QED  BY <1>1, <1>3, <1>4, <1>5, <1>15, <1>16

LEMMA LoadIntegrationGoes ==
    ASSUME CoreInv, NEW j \in Jobs, LoadIntegration(j)
    PROVE  /\ job' \in [Jobs -> JobType] /\ HandlersInv' /\ Others(j)
           /\ Doing(j, "integration") /\ job[j].op = "remove" /\ V(j) = "google"
           /\ \/ /\ \E c \in CalendarsOf(Call(j).on) : IsRow(c)
                 /\ OnTo(j, "forgetAll") /\ job'[j].op = "remove" /\ job'[j].cal = job[j].cal
                 /\ job'[j].touched = CalendarsOf(Call(j).on)
                 /\ job'[j].shared = Both(j, CalendarsOf(Call(j).on))
                 /\ job'[j].left = {}
                 /\ job'[j].fresh = {} /\ job'[j].obsolete = {}
                 /\ \A k \in Jobs \ {j} : Shown(job[k], job'[k], CalendarsOf(Call(j).on))
              \/ job'[j] = Idle /\ Unmoved(j)
<1>1. /\ job[j].todo # <<>> /\ Now(job[j]) = "integration" /\ calls' = calls
      /\ Doing(j, "integration")
  BY DoingIs DEF LoadIntegration
<1>2. /\ job[j] \in JobType
      /\ Placed(j, job[j], Call(j), "integration") /\ Kept(job[j], "integration")
  BY <1>1, WorksFacts, StepFacts
<1>3. PICK op \in Ops, v \in Vendors, n \in Steps \cup {"none"} :
        op = job[j].op /\ v = V(j) /\ <<"integration", n>> \in Follows[op][v]
  BY <1>1, NextIs
<1>4. op = "remove" /\ v = "google"
      /\ \A m : <<"integration", m>> \in Follows[op][v] => m = "forgetAll"
  BY <1>3, Table
<1>5. CASE \E c \in CalendarsOf(Call(j).on) : IsRow(c)
  <2>1. PICK cs \in SUBSET Calendars : cs = CalendarsOf(Call(j).on)
    BY DEF CalendarsOf
  <2>2. Touch(j, job[j], cs)
    BY <1>5, <2>1 DEF LoadIntegration
  <2>3. Doer(j, job[j])
    BY <1>1, DoerSelf
  <2>4. PICK o, p : o = job[j] /\ p = With(o, cs, Both(j, cs))
    OBVIOUS
  <2>5. Joined(j, o, cs, p)
    BY <1>2, <2>4, WithAll
  <2>6. /\ o.touched = {} /\ o.shared = {} /\ o.outdated = {}
        /\ o.fresh = {} /\ o.obsolete = {} /\ o.left = {}
    BY <1>2, <2>4 DEF Placed, Kept, Early
  <2>7. /\ p.left = {} /\ p.touched = cs /\ p.shared = Both(j, cs) /\ p.cal = o.cal
        /\ p.fresh = {} /\ p.obsolete = {} /\ p.op = "remove" /\ p.outdated = {}
        /\ Both(j, cs) \subseteq cs
    BY <1>3, <1>4, <2>4, <2>5, <2>6 DEF Joined
  <2>8. \A c \in cs : Vendor[c] = V(j)
    BY <1>1, <1>3, <1>4, <2>1, OfIntegrations
  <2>9. Placed(j, p, Call(j), "forgetAll") /\ Kept(p, "forgetAll")
    BY <2>1, <2>7, <2>8 DEF Placed, Kept, Early, Working
  <2>10. \A m : <<Now(job[j]), m>> \in Follows[job[j].op][V(j)] => m = "forgetAll"
    BY <1>1, <1>3, <1>4
  <2>11. /\ job' \in [Jobs -> JobType] /\ HandlersInv' /\ Others(j)
         /\ \A k \in Jobs \ {j} : Shown(job[k], job'[k], cs)
         /\ Moved(j, p, job'[j], "forgetAll") /\ OnTo(j, "forgetAll")
    BY <1>1, <2>2, <2>3, <2>4, <2>9, <2>10, TouchMoves
  <2>12. /\ job'[j].op = "remove" /\ job'[j].cal = job[j].cal /\ job'[j].left = {}
         /\ job'[j].touched = CalendarsOf(Call(j).on)
         /\ job'[j].shared = Both(j, CalendarsOf(Call(j).on))
         /\ job'[j].fresh = {} /\ job'[j].obsolete = {}
    BY <2>1, <2>4, <2>7, <2>11 DEF Moved
  <2> QED  BY <1>1, <1>3, <1>4, <1>5, <2>1, <2>11, <2>12
<1>6. CASE ~(\E c \in CalendarsOf(Call(j).on) : IsRow(c))
  <2>1. End(j)
    BY <1>6 DEF LoadIntegration
  <2>2. job' \in [Jobs -> JobType] /\ HandlersInv' /\ Others(j) /\ job'[j] = Idle /\ Unmoved(j)
    BY <1>1, <2>1, EndKeeps, EndGoes, SameOthers DEF Unmoved
  <2> QED  BY <1>1, <1>3, <1>4, <2>2
<1> QED  BY <1>5, <1>6

LEMMA RollBackGoes ==
    ASSUME CoreInv, NEW j \in Jobs, RollBack(j), calls' = calls
    PROVE  /\ job' \in [Jobs -> JobType] /\ HandlersInv' /\ Unmoved(j) /\ job'[j] = Idle
BY EndKeeps, EndGoes DEF RollBack, Unmoved

LEMMA FailGoes ==
    ASSUME CoreInv, NEW j \in Jobs, Fail(j)
    PROVE  /\ job' \in [Jobs -> JobType] /\ HandlersInv' /\ Unmoved(j)
           /\ job[j].todo # <<>>
           /\ \/ /\ \E s \in {"watch", "note"} : Doing(j, s)
                 /\ broken' = broken \cup {Cal(j)}
                 /\ UNCHANGED <<store, notices, gone, overtaken, unseen, mixed, doubled,
                                unasked, split>>
                 /\ \E n : /\ OnTo(j, n) /\ Moved(j, job[j], job'[j], n)
                           /\ \/ n = "next" /\ job[j].op = "patch"
                              \/ n = "commit" /\ job[j].op = "integrate"
              \/ /\ RollBack(j) /\ job'[j] = Idle
                 /\ \A s \in {"watch", "note"} : ~Doing(j, s)
                 /\ broken' = IF \/ job[j].op = "remove"
                                 \/ \E step \in {"forget", "set"} : Doing(j, step)
                              THEN broken \cup Lost(j) ELSE broken
<1>1. calls' = calls /\ job[j].todo # <<>>
  BY DEF Fail
<1>2. CASE \E s \in {"watch", "note"} : Doing(j, s)
  <2>1. PICK s \in {"watch", "note"} : Doing(j, s)
    BY <1>2
  <2>2. /\ SkipSubscribing(j) /\ broken' = broken \cup {Cal(j)}
        /\ UNCHANGED <<store, notices, gone, overtaken, unseen, mixed, doubled,
                       unasked, split>>
    BY <1>2 DEF Fail
  <2>3. /\ job' \in [Jobs -> JobType] /\ HandlersInv' /\ Unmoved(j)
        /\ \E n : /\ OnTo(j, n) /\ Moved(j, job[j], job'[j], n)
                  /\ \/ n = "next" /\ job[j].op = "patch"
                     \/ n = "commit" /\ job[j].op = "integrate"
    BY <1>1, <2>1, <2>2, SkipSubscribingGoes
  <2> QED  BY <1>1, <1>2, <2>2, <2>3
<1>3. CASE ~(\E s \in {"watch", "note"} : Doing(j, s))
  <2>1. /\ RollBack(j)
        /\ broken' = IF \/ job[j].op = "remove"
                        \/ \E step \in {"forget", "set"} : Doing(j, step)
                     THEN broken \cup Lost(j) ELSE broken
    BY <1>3 DEF Fail
  <2> QED  BY <1>1, <1>3, <2>1, RollBackGoes
<1> QED  BY <1>2, <1>3

Begun(j, p, op, s) ==
    /\ p.op = op /\ p.touched = {} /\ p.left = {} /\ p.fresh = {} /\ p.obsolete = {}
    /\ p.shared = {} /\ p.outdated = {} /\ ~p.first /\ p.todo # <<>> /\ Now(p) = s

LEMMA BeginIs ==
    ASSUME NEW j \in Jobs, NEW op \in Ops, NEW t, NEW c \in Calendars \cup {NoCalendar},
           t \in Rests[op][V(j)], NEW p, p = Begin(op, t, c)
    PROVE  /\ p \in JobType /\ p.todo = t /\ p.cal = c /\ Begun(j, p, op, Head(t))
           /\ \A s : Kept(p, s)
<1>1. t # <<>> /\ t \in Seq(Steps)
  BY JobsAre, AllGoing DEF Going
<1>2. p \in JobType /\ p.todo = t /\ p.cal = c /\ p.op = op
  BY <1>1, IdleType DEF Begin, JobType, Ops
<1>3. /\ p.touched = {} /\ p.left = {} /\ p.fresh = {} /\ p.obsolete = {}
      /\ p.shared = {} /\ p.outdated = {} /\ ~p.first
  BY DEF Begin, Idle
<1>4. Begun(j, p, op, Head(t))
  BY <1>1, <1>2, <1>3 DEF Begun, Now, NextStep
<1> QED  BY <1>2, <1>3, <1>4 DEF Kept, Untouched

LEMMA DeliverGoes ==
    ASSUME CoreInv, NEW h \in Handlers, NEW c \in Calendars, Deliver(h, c)
    PROVE  /\ job' \in [Jobs -> JobType] /\ HandlersInv' /\ Unmoved(h) /\ h \in Jobs
           /\ job[h] = Idle /\ job'[h].cal = c /\ Begun(h, job'[h], "notice", "status")
<1>1. h \in Jobs /\ V(h) = "google" /\ "google" \in Vendors /\ "notice" \in Ops
  BY DEF Jobs, V, Vendors, Ops
<1>2. NoticeSteps \in Rests["notice"]["google"] /\ Head(NoticeSteps) = "status"
  BY TodoOfNotice DEF Rests, NoticeGoogleRests
<1>3. job[h].todo = <<>> /\ job' = [job EXCEPT ![h] = Begin("notice", NoticeSteps, c)]
  BY DEF Deliver
<1>4. job \in [Jobs -> JobType] /\ job[h] = Idle
  BY <1>1, <1>3 DEF CoreInv, TypeOK, HandlersInv
<1>5. PICK p : p = Begin("notice", NoticeSteps, c)
  OBVIOUS
<1>6. job'[h] = p /\ AreJobs /\ Unmoved(h)
  BY <1>1, <1>3, <1>4, <1>5 DEF AreJobs, Unmoved
<1>7. /\ p \in JobType /\ p.todo = NoticeSteps /\ p.cal = c
      /\ Begun(h, p, "notice", "status") /\ Kept(p, "status")
  BY <1>1, <1>2, <1>5, BeginIs
<1>8. Works(h, p, Call(h))
  <2>1. Owned(h, p, Call(h)) /\ Placed(h, p, Call(h), "status")
    BY <1>7 DEF Begun, Owned, Placed, Early, Working
  <2> QED  BY <1>1, <1>2, <1>7, <2>1 DEF Begun, Works
<1>9. Others(h)
  BY <1>1, <1>6, SameOthers DEF Unmoved
<1>10. job' \in [Jobs -> JobType] /\ HandlersInv'
  BY <1>1, <1>6, <1>7, <1>8, <1>9, Assemble DEF Deliver
<1> QED  BY <1>1, <1>4, <1>6, <1>7, <1>10

FirstStep(op, v) ==
    IF op = "patch" THEN "owner"
    ELSE IF op = "integrate" /\ v = "google" THEN "fetch"
    ELSE IF op = "integrate" THEN "exists"
    ELSE IF v = "google" THEN "integration" ELSE "commit"
LEMMA StartGoes ==
    ASSUME CoreInv, NEW r \in Requests, NEW call \in Calls, Start(r, call)
    PROVE  /\ job' \in [Jobs -> JobType] /\ HandlersInv'
           /\ calls' = [calls EXCEPT ![r] = call] /\ calls' \in [Requests -> Calls \cup {NoCall}]
           /\ \A v \in Vendors : <<r, v>> \in Jobs /\ job[<<r, v>>] = Idle
           /\ \A v \in Branches(call) : v \in Vendors
           /\ \A v \in Vendors :
                 IF v \in Branches(call)
                 THEN /\ Begun(<<r, v>>, job'[<<r, v>>], call.op, FirstStep(call.op, v))
                      /\ job'[<<r, v>>].cal = NoCalendar
                 ELSE job'[<<r, v>>] = Idle
           /\ \A j \in Jobs : j \in Handlers \/ j[1] # r =>
                 job'[j] = job[j] /\ (j \notin Handlers => Call(j)' = Call(j))
           /\ \A v \in Vendors : Call(<<r, v>>)' = call
<1>1. /\ calls[r] = NoCall /\ calls' = [calls EXCEPT ![r] = call]
      /\ job' = [j \in Jobs |->
          IF j \in {<<r, v>> : v \in Branches(call)}
          THEN Begin(call.op, StepsOf(call, j[2]), NoCalendar) ELSE job[j]]
  BY DEF Start
<1>2. calls \in [Requests -> Calls \cup {NoCall}] /\ job \in [Jobs -> JobType]
  BY DEF CoreInv, TypeOK
<1>3. /\ calls' \in [Requests -> Calls \cup {NoCall}] /\ calls'[r] = call
      /\ \A o \in Requests \ {r} : calls'[o] = calls[o]
  BY <1>1, <1>2
<1>4. Branches(call) \subseteq Vendors
  <2>1. call.op = "patch" => call.vendors \subseteq Vendors
    BY CallsAre
  <2>2. \A c \in Calendars : Vendor[c] \in Vendors
    BY CalendarSyncAssumption
  <2> QED  BY <2>1, <2>2 DEF Branches, CalendarsOf
<1>5. \A v \in Vendors : <<r, v>> \in Jobs /\ <<r, v>> \notin Handlers
  BY CalendarSyncAssumption DEF Jobs
<1>6. ASSUME NEW v \in Vendors PROVE job[<<r, v>>] = Idle
  <2>1. Call(<<r, v>>) = NoCall
    BY <1>1 DEF Call
  <2>2. job[<<r, v>>].todo = <<>>
    BY <1>5, <2>1, WorksFacts, CalendarSyncAssumption DEF Works, Owned
  <2> QED  BY <1>5, <2>2 DEF CoreInv, HandlersInv
<1>7. ASSUME NEW v \in Branches(call)
      PROVE  /\ job'[<<r, v>>] \in JobType /\ job'[<<r, v>>].cal = NoCalendar
             /\ Begun(<<r, v>>, job'[<<r, v>>], call.op, FirstStep(call.op, v))
             /\ Works(<<r, v>>, job'[<<r, v>>], call)
  <2>1. PICK j \in Jobs : j = <<r, v>> /\ j \notin Handlers /\ j[2] = v /\ V(j) = v
                         /\ VendorOf(j) = v
    BY <1>4, <1>5 DEF V, VendorOf
  <2>2. v \in Vendors /\ call.op \in {"patch", "integrate", "remove"} /\ call.op \in Ops
    BY <1>4, CallsAre DEF Ops
  <2>3. PICK t : t = StepsOf(call, v)
    OBVIOUS
  <2>4. t \in Rests[call.op][v] /\ t # <<>> /\ Head(t) = FirstStep(call.op, v)
    BY <2>2, <2>3, TodoOfCall DEF FirstStep
  <2>5. PICK p : p = Begin(call.op, t, NoCalendar)
    OBVIOUS
  <2>6. job'[j] = p
    BY <1>1, <2>1, <2>3, <2>5
  <2>7. /\ p \in JobType /\ p.todo = t /\ p.cal = NoCalendar
        /\ Begun(j, p, call.op, FirstStep(call.op, v)) /\ Kept(p, FirstStep(call.op, v))
    BY <2>1, <2>2, <2>4, <2>5, BeginIs
  <2>8. Owned(j, p, call)
    BY <2>1, <2>2, <2>7 DEF Owned, Begun
  <2>9. Placed(j, p, call, FirstStep(call.op, v))
    BY <2>1, <2>2, <2>7 DEF Placed, Begun, FirstStep, Early, Working, Vendors
  <2>10. Works(j, p, call)
    BY <2>1, <2>2, <2>4, <2>7, <2>8, <2>9 DEF Works, Begun
  <2> QED  BY <2>1, <2>6, <2>7, <2>10
<1>8. ASSUME NEW v \in Vendors, v \notin Branches(call) PROVE job'[<<r, v>>] = Idle
  <2>1. <<r, v>> \notin {<<r, w>> : w \in Branches(call)}
    BY <1>8
  <2> QED  BY <1>1, <1>5, <1>6, <2>1
<1>9. ASSUME NEW j \in Jobs, j \in Handlers \/ j[1] # r
      PROVE  job'[j] = job[j] /\ (j \notin Handlers => Call(j)' = Call(j))
  <2>1. j \notin {<<r, v>> : v \in Branches(call)}
    BY <1>4, <1>5, <1>9
  <2> QED  BY <1>1, <1>3, <1>9, <2>1, JobsAre DEF Call
<1>10. \A v \in Vendors : Call(<<r, v>>)' = call
  BY <1>3 DEF Call
<1>11. ASSUME NEW j \in Jobs
       PROVE  /\ job'[j] \in JobType
              /\ IF job'[j].todo = <<>> THEN job'[j] = Idle ELSE Works(j, job'[j], Call(j)')
  <2>1. CASE j \in Handlers
    <3>1. job'[j] = job[j]
      BY <1>9, <2>1
    <3>2. job[j] = Idle \/ Works(j, job[j], Call(j))
      BY DEF CoreInv, HandlersInv
    <3>3. CASE job[j] = Idle
      BY <3>1, <3>3, IdleType
    <3>4. CASE Works(j, job[j], Call(j))
      <4>1. job[j].op = "notice"
        BY <2>1, <3>4 DEF Works, Owned
      <4>2. Works(j, job[j], Call(j)')
        BY <2>1, <3>4, <4>1 DEF Works, Owned, Placed
      <4> QED  BY <1>2, <3>1, <4>2 DEF Works
    <3> QED  BY <3>2, <3>3, <3>4
  <2>2. CASE j \notin Handlers /\ j[1] # r
    BY <1>2, <1>9, <2>2 DEF CoreInv, HandlersInv
  <2>3. CASE j \notin Handlers /\ j[1] = r
    <3>1. PICK v \in Vendors : j = <<r, v>>
      BY <2>3 DEF Jobs
    <3>2. CASE v \in Branches(call)
      BY <1>7, <1>10, <3>1, <3>2 DEF Begun
    <3>3. CASE v \notin Branches(call)
      BY <1>8, <3>1, <3>3, IdleType
    <3> QED  BY <3>2, <3>3
  <2> QED  BY <2>1, <2>2, <2>3
<1>12. job' \in [Jobs -> JobType] /\ HandlersInv'
  BY <1>1, <1>11 DEF HandlersInv
<1> QED  BY <1>1, <1>3, <1>4, <1>5, <1>6, <1>7, <1>8, <1>9, <1>10, <1>12

LEMMA AnnouncedGoes ==
    ASSUME CoreInv, NEW c \in Calendars, Announced(c), calls' = calls
    PROVE  /\ job' \in [Jobs -> JobType] /\ HandlersInv'
           /\ \A k \in Jobs : Kin(job[k], job'[k]) /\ job'[k].shared = job[k].shared
           /\ \/ c \in channels /\ notices' = notices \cup {c} /\ UNCHANGED <<job, unseen>>
              \/ /\ c \notin channels /\ unseen' = unseen \cup {c} /\ notices' = notices
                 /\ \A k \in Jobs : c \in job[k].touched => c \in job'[k].outdated
<1>1. job \in [Jobs -> JobType] /\ HandlersInv
  BY DEF CoreInv, TypeOK
<1>2. \A k \in Jobs : Call(k)' = Call(k)
  BY DEF Call
<1>3. CASE c \in channels
  <2>1. notices' = notices \cup {c} /\ UNCHANGED <<job, unseen>>
    BY <1>3 DEF Announced
  <2>2. \A k \in Jobs : Kin(job[k], job'[k]) /\ job'[k].shared = job[k].shared
    BY <1>1, <2>1, KinSelf
  <2>3. job' \in [Jobs -> JobType] /\ HandlersInv'
    BY <1>1, <1>2, <2>1 DEF HandlersInv
  <2> QED  BY <1>3, <2>1, <2>2, <2>3
<1>4. CASE c \notin channels
  <2>1. unseen' = unseen \cup {c} /\ notices' = notices /\ job' = Outdated(c)
    BY <1>4 DEF Announced
  <2>2. \A k \in Jobs : /\ Kin(job[k], job'[k]) /\ job'[k].shared = job[k].shared
                        /\ c \in job[k].touched => c \in job'[k].outdated
    BY <2>1, OutdatedKin
  <2>3. AreJobs /\ \A k \in Jobs : job'[k] \in JobType
    BY <2>1, <2>2 DEF AreJobs, Outdated, Kin
  <2>4. ASSUME NEW k \in Jobs
        PROVE  IF job'[k].todo = <<>> THEN job'[k] = Idle ELSE Works(k, job'[k], Call(k)')
    <3>1. CASE job[k].todo = <<>>
      <4>1. job[k] = Idle
        BY <1>1, <3>1 DEF HandlersInv
      <4> QED  BY <2>2, <4>1, KinIdle, IdleType
    <3>2. CASE job[k].todo # <<>>
      <4>1. Works(k, job[k], Call(k))
        BY <1>1, <3>2 DEF HandlersInv
      <4>2. Works(k, job'[k], Call(k))
        BY <2>2, <4>1, KinWorks
      <4> QED  BY <1>2, <4>2 DEF Works
    <3> QED  BY <3>1, <3>2
  <2> QED  BY <1>4, <2>1, <2>2, <2>3, <2>4 DEF AreJobs, HandlersInv
<1> QED  BY <1>3, <1>4

-----------------------------------------------------------------------------
(* Type correctness.                                                         *)
DataOK ==
    /\ calendars \in [Calendars -> [check : BOOLEAN, outbound : BOOLEAN, row : BOOLEAN]]
    /\ rows \in [Calendars -> [Events -> 0..2]]
    /\ booked \in [Events -> {"no", "live", "canceled"}]
    /\ status \subseteq Calendars /\ detail \subseteq Calendars
    /\ channels \subseteq Calendars /\ notices \subseteq Calendars
    /\ events \in [Calendars -> SUBSET Events]
    /\ failures \in 0..MaxFailures
    /\ gone \in [Calendars -> SUBSET Events] /\ overtaken \subseteq Events
    /\ \A s \in {unseen, mixed, doubled, broken, unasked} : s \subseteq Calendars
    /\ split \in BOOLEAN

LEMMA SynchronizedType ==
    ASSUME NEW j, NEW before \in [Calendars -> [Events -> 0..2]]
    PROVE  Synchronized(j, before) \in [Calendars -> [Events -> 0..2]]
BY DEF Synchronized

LEMMA CanceledType ==
    ASSUME booked \in [Events -> {"no", "live", "canceled"}], NEW j
    PROVE  Canceled(j) \in [Events -> {"no", "live", "canceled"}]
BY DEF Canceled

LEMMA SetUnchanged ==
    ASSUME \A s \in {unseen, mixed, doubled, broken, unasked} : s \subseteq Calendars,
           unseen' \subseteq Calendars, mixed' \subseteq Calendars,
           doubled' \subseteq Calendars, broken' \subseteq Calendars,
           unasked' \subseteq Calendars
    PROVE  \A s \in {unseen', mixed', doubled', broken', unasked'} : s \subseteq Calendars
OBVIOUS

LEMMA ObserveType ==
    ASSUME CoreInv, NEW j \in Jobs, Observe(j)
    PROVE  /\ unseen' \subseteq Calendars /\ mixed' \subseteq Calendars
           /\ doubled' \subseteq Calendars /\ gone' = gone /\ overtaken' = overtaken
<1>1. job[j] \in JobType /\ unseen \subseteq Calendars /\ mixed \subseteq Calendars
      /\ doubled \subseteq Calendars
  BY DEF CoreInv, TypeOK
<1>2. job[j].touched \subseteq Calendars /\ job[j].shared \subseteq Calendars
  BY <1>1 DEF JobType
<1> QED  BY <1>1, <1>2 DEF Observe

LEMMA SkipType ==
    ASSUME CoreInv, NEW j \in Jobs, Cal(j) \in Calendars, Skip(j),
           UNCHANGED <<store, google, outside, failures>>
    PROVE  DataOK'
<1>1. unseen' \subseteq Calendars
  BY DEF Skip, CoreInv, TypeOK
<1> QED  BY <1>1 DEF Skip, CoreInv, TypeOK, DataOK, store, google, outside

LEMMA RollBackType ==
    ASSUME CoreInv, NEW j \in Jobs, job[j].todo # <<>>, RollBack(j),
           UNCHANGED <<google, events>>, failures' \in 0..MaxFailures,
           broken' \subseteq Calendars
    PROVE  DataOK'
<1>1. notices' \subseteq Calendars
  <2>1. j \in Handlers => Cal(j) \in Calendars
    <3>1. j \in Handlers => job[j].op = "notice"
      BY StepFacts DEF Owned
    <3> QED  BY <3>1, StepFacts DEF Cal, Placed
  <2> QED  BY <2>1 DEF RollBack, Retry, CoreInv, TypeOK
<1>2. split' \in BOOLEAN
  BY DEF RollBack, CoreInv, TypeOK
<1> QED  BY <1>1, <1>2 DEF RollBack, CoreInv, TypeOK, DataOK, store, google

LEMMA QuietType ==
    ASSUME CoreInv, UNCHANGED <<store, google, outside, failures, seen>>
    PROVE  DataOK'
BY DEF CoreInv, TypeOK, DataOK, store, google, outside, seen

LEMMA PutType ==
    ASSUME CoreInv, NEW c \in Calendars, NEW e \in Events, Put(c, e),
           booked' \in [Events -> {"no", "live", "canceled"}]
    PROVE  DataOK'
<1>1. notices' \subseteq Calendars /\ unseen' \subseteq Calendars
  BY DEF Put, Announced, CoreInv, TypeOK
<1>2. events' \in [Calendars -> SUBSET Events] /\ overtaken' \subseteq Events
  BY DEF Put, CoreInv, TypeOK
<1> QED  BY <1>1, <1>2 DEF Put, CoreInv, TypeOK, DataOK, google

LEMMA DataKept == ASSUME CoreInv, Next PROVE DataOK'
<1>1. ASSUME NEW c \in Calendars, NEW e \in Events, AddEvent(c, e) PROVE DataOK'
  BY <1>1, PutType DEF AddEvent, CoreInv, TypeOK
<1>2. ASSUME NEW c \in Calendars, NEW e \in Events, Book(e, c) PROVE DataOK'
  <2>1. booked' \in [Events -> {"no", "live", "canceled"}]
    BY <1>2 DEF Book, CoreInv, TypeOK
  <2> QED  BY <1>2, <2>1, PutType DEF Book
<1>3. ASSUME NEW c \in Calendars, NEW e \in Events, RemoveEvent(c, e) PROVE DataOK'
  <2>1. notices' \subseteq Calendars /\ unseen' \subseteq Calendars
    BY <1>3 DEF RemoveEvent, Announced, CoreInv, TypeOK
  <2>2. events' \in [Calendars -> SUBSET Events] /\ gone' \in [Calendars -> SUBSET Events]
    BY <1>3 DEF RemoveEvent, CoreInv, TypeOK
  <2> QED  BY <1>3, <2>1, <2>2 DEF RemoveEvent, CoreInv, TypeOK, DataOK, store, google
<1>4. ASSUME NEW h \in Handlers, NEW c \in Calendars, Deliver(h, c) PROVE DataOK'
  BY <1>4 DEF Deliver, CoreInv, TypeOK, DataOK, store, google, seen
<1>5. ASSUME NEW r \in Requests, NEW call \in Calls, Start(r, call) PROVE DataOK'
  <2>1. split' \in BOOLEAN
    BY <1>5 DEF Start, CoreInv, TypeOK
  <2> QED  BY <1>5, <2>1 DEF Start, CoreInv, TypeOK, DataOK, store, google, outside
<1>6. ASSUME NEW j \in Jobs, Fail(j) PROVE DataOK'
  <2>1. failures' \in 0..MaxFailures
    BY <1>6, CalendarSyncAssumption DEF Fail, CoreInv, TypeOK
  <2>2. job[j].todo # <<>> /\ job[j] \in JobType /\ broken \subseteq Calendars
    BY <1>6 DEF Fail, CoreInv, TypeOK
  <2>3. /\ UNCHANGED <<google, events>>
    BY <1>6 DEF Fail
  <2>4. CASE \E s \in {"watch", "note"} : Doing(j, s)
    <3>1. Cal(j) \in Calendars
      <4>1. Now(job[j]) \in Working
        BY <2>4, DoingIs DEF Working
      <4> QED  BY <2>2, <4>1, StepFacts DEF Placed, Cal, JobType
    <3>2. /\ broken' = broken \cup {Cal(j)}
          /\ UNCHANGED <<store, notices, gone, overtaken, unseen, mixed, doubled,
                         unasked, split>>
      BY <1>6, <2>4 DEF Fail
    <3>3. broken' \subseteq Calendars
      BY <2>2, <3>1, <3>2
    <3> QED  BY <2>1, <2>3, <3>2, <3>3 DEF CoreInv, TypeOK, DataOK, store, google
  <2>5. CASE ~(\E s \in {"watch", "note"} : Doing(j, s))
    <3>1. /\ RollBack(j)
          /\ broken' = IF \/ job[j].op = "remove"
                          \/ \E step \in {"forget", "set"} : Doing(j, step)
                       THEN broken \cup Lost(j) ELSE broken
      BY <1>6, <2>5 DEF Fail
    <3>2. job[j].op = "remove" \/ (\E step \in {"forget", "set"} : Doing(j, step))
            => Lost(j) \subseteq Calendars
      <4>1. job[j].touched \subseteq Calendars
        BY <2>2 DEF JobType
      <4>2. (\E step \in {"forget", "set"} : Doing(j, step)) => Now(job[j]) \in Working
        BY DoingIs DEF Working
      <4>3. Now(job[j]) \in Working => Cal(j) \in Calendars
        BY <2>2, <4>1, StepFacts DEF Placed, Cal
      <4> QED  BY <4>1, <4>2, <4>3 DEF Lost
    <3>3. broken' \subseteq Calendars
      BY <2>2, <3>1, <3>2
    <3> QED  BY <2>1, <2>2, <2>3, <3>1, <3>3, RollBackType
  <2> QED  BY <2>4, <2>5
<1>7. ASSUME NEW j \in Jobs, Step(j) PROVE DataOK'
  <2>1. CASE List(j)
    <3>1. job[j].todo # <<>> /\ Now(job[j]) \in Working /\ job[j] \in JobType
      BY <2>1, DoingIs, WorksFacts DEF List, Working
    <3>2. Cal(j) \in Calendars
      BY <3>1, StepFacts DEF Placed, Cal, JobType
    <3>3. events[Cal(j)] \subseteq Events
      BY <3>2 DEF CoreInv, TypeOK
    <3>4. overtaken' \subseteq Events
      BY <2>1, <3>3 DEF List, CoreInv, TypeOK
    <3> QED  BY <2>1, <3>4 DEF List, CoreInv, TypeOK, DataOK, store, google, outside
  <2>2. CASE Compare(j) \/ Known(j) \/ NextCalendar(j) \/ Exists(j) \/ Fetch(j)
             \/ LookForOutbound(j) \/ LoadIntegration(j) \/ LoadDetails(j)
    <3>1. UNCHANGED <<store, google, outside, failures, seen>>
      BY <2>2 DEF Compare, Known, NextCalendar, Exists, Fetch, LookForOutbound,
                  LoadIntegration, LoadDetails
    <3> QED  BY <3>1, QuietType
  <2>3. CASE CheckStatus(j)
    <3>1. Cal(j) \in Calendars
      BY <2>3, CheckStatusGoes
    <3>2. CASE Cal(j) \in status
      BY <2>3, <3>2, QuietType DEF CheckStatus
    <3>3. CASE Cal(j) \notin status
      BY <2>3, <3>1, <3>3, SkipType DEF CheckStatus
    <3> QED  BY <3>2, <3>3
  <2>4. CASE LoadCalendar(j)
    <3>1. Cal(j) \in Calendars
      BY <2>4, LoadCalendarGoes
    <3>2. CASE IsRow(Cal(j)) /\ calendars[Cal(j)].check
      BY <2>4, <3>2, QuietType DEF LoadCalendar
    <3>3. CASE ~(IsRow(Cal(j)) /\ calendars[Cal(j)].check)
      BY <2>4, <3>1, <3>3, SkipType DEF LoadCalendar
    <3> QED  BY <3>2, <3>3
  <2>5. CASE CommitNotice(j)
    <3>1. job[j].todo # <<>>
      BY <2>5 DEF CommitNotice, Doing
    <3>2. UNCHANGED <<google, events, failures, broken>>
      BY <2>5 DEF CommitNotice
    <3>3. CASE IsRow(Cal(j))
      <4>1. /\ rows' = Synchronized(j, rows) /\ booked' = Canceled(j) /\ Observe(j)
            /\ UNCHANGED <<calendars, notices, unasked, split>>
        BY <2>5, <3>3 DEF CommitNotice
      <4>2. /\ rows' \in [Calendars -> [Events -> 0..2]]
            /\ booked' \in [Events -> {"no", "live", "canceled"}]
        BY <4>1, SynchronizedType, CanceledType DEF CoreInv, TypeOK
      <4>3. /\ unseen' \subseteq Calendars /\ mixed' \subseteq Calendars
            /\ doubled' \subseteq Calendars /\ gone' = gone /\ overtaken' = overtaken
        BY <4>1, ObserveType
      <4> QED  BY <3>2, <4>1, <4>2, <4>3 DEF CoreInv, TypeOK, DataOK, google
    <3>4. CASE ~IsRow(Cal(j))
      <4>1. RollBack(j)
        BY <2>5, <3>4 DEF CommitNotice
      <4> QED  BY <3>1, <3>2, <4>1, RollBackType DEF CoreInv, TypeOK
    <3> QED  BY <3>3, <3>4
  <2>6. CASE Owner(j)
    <3>1. job[j].todo # <<>>
      BY <2>6 DEF Owner, Doing
    <3>2. UNCHANGED <<google, events, failures>>
      BY <2>6 DEF Owner
    <3>3. CASE Named(j) \subseteq Mine(j)
      BY <2>6, <3>3, QuietType DEF Owner, outside
    <3>4. CASE ~(Named(j) \subseteq Mine(j))
      <4>1. RollBack(j) /\ broken' = broken
        BY <2>6, <3>4 DEF Owner
      <4> QED  BY <3>1, <3>2, <4>1, RollBackType DEF CoreInv, TypeOK
    <3> QED  BY <3>3, <3>4
  <2>7. CASE CommitPatch(j)
    <3>1. job[j].todo # <<>> /\ job[j].op = "patch"
      BY <2>7 DEF CommitPatch, Doing
    <3>2. UNCHANGED <<google, events, failures, broken>>
      BY <2>7 DEF CommitPatch
    <3>3. CASE \A c \in job[j].touched : IsRow(c)
      <4>1. /\ calendars' = Settings(j) /\ rows' = Synchronized(j, RowsLeft(j))
            /\ booked' = Canceled(j) /\ Observe(j) /\ unasked' = unasked \ Named(j)
            /\ UNCHANGED <<notices, split>>
        BY <2>7, <3>3 DEF CommitPatch
      <4>2. RowsLeft(j) \in [Calendars -> [Events -> 0..2]]
        <5>1. [e \in Events |-> 0] \in [Events -> 0..2]
          OBVIOUS
        <5>2. \A c \in Calendars : rows[c] \in [Events -> 0..2]
          BY DEF CoreInv, TypeOK
        <5> QED  BY <5>1, <5>2 DEF RowsLeft
      <4>3. /\ rows' \in [Calendars -> [Events -> 0..2]]
            /\ booked' \in [Events -> {"no", "live", "canceled"}]
        BY <4>1, <4>2, SynchronizedType, CanceledType DEF CoreInv, TypeOK
      <4>4. /\ unseen' \subseteq Calendars /\ mixed' \subseteq Calendars
            /\ doubled' \subseteq Calendars /\ gone' = gone /\ overtaken' = overtaken
        BY <4>1, ObserveType
      <4>5. calendars' \in [Calendars -> [check : BOOLEAN, outbound : BOOLEAN, row : BOOLEAN]]
        <5>1. \A c \in Named(j) : Call(j).want[c] \in Setting
          BY <3>1, OfPatches
        <5>2. \A c \in Calendars :
                 calendars[c] \in [check : BOOLEAN, outbound : BOOLEAN, row : BOOLEAN]
          BY DEF CoreInv, TypeOK
        <5> QED  BY <4>1, <5>1, <5>2 DEF Settings, Row, Setting
      <4>6. unasked' \subseteq Calendars
        BY <4>1 DEF CoreInv, TypeOK
      <4> QED  BY <3>2, <4>1, <4>3, <4>4, <4>5, <4>6 DEF CoreInv, TypeOK, DataOK, google
    <3>4. CASE ~(\A c \in job[j].touched : IsRow(c))
      <4>1. RollBack(j)
        BY <2>7, <3>4 DEF CommitPatch
      <4> QED  BY <3>1, <3>2, <4>1, RollBackType DEF CoreInv, TypeOK
    <3> QED  BY <3>3, <3>4
  <2>8. CASE Stop(j) \/ Forget(j) \/ SetStatus(j) \/ Watch(j) \/ Note(j)
    <3>1. job[j].todo # <<>> /\ Now(job[j]) \in Working /\ job[j] \in JobType
      BY <2>8, DoingIs, WorksFacts DEF Stop, Forget, SetStatus, Watch, Note, Working
    <3>2. Cal(j) \in Calendars /\ job[j].touched \subseteq Calendars
      BY <3>1, StepFacts DEF Placed, Cal, JobType
    <3>3. CASE Stop(j)
      <4>1. channels' \subseteq Calendars
        BY <3>3 DEF Stop, CoreInv, TypeOK
      <4>2. CASE Cal(j) \in channels
        BY <3>3, <4>1, <4>2 DEF Stop, CoreInv, TypeOK, DataOK, store, seen
      <4>3. CASE Cal(j) \notin channels
        <5>1. RollBack(j) /\ broken' = broken \cup Lost(j) /\ channels' = channels
          BY <3>3, <4>3 DEF Stop, CoreInv, TypeOK
        <5>2. broken' \subseteq Calendars
          BY <3>2, <5>1 DEF Lost, CoreInv, TypeOK
        <5>3. UNCHANGED <<google, events, failures>>
          BY <3>3, <5>1 DEF Stop, google
        <5> QED  BY <3>1, <5>1, <5>2, <5>3, RollBackType DEF CoreInv, TypeOK
      <4> QED  BY <4>2, <4>3
    <3>4. CASE Forget(j)
      BY <3>4 DEF Forget, CoreInv, TypeOK, DataOK, store, outside, seen
    <3>5. CASE SetStatus(j)
      BY <3>2, <3>5 DEF SetStatus, CoreInv, TypeOK, DataOK, store, outside, seen
    <3>6. CASE Watch(j)
      <4>1. broken' \subseteq Calendars /\ channels' \subseteq Calendars
        BY <3>2, <3>6 DEF Watch, CoreInv, TypeOK
      <4> QED  BY <3>6, <4>1 DEF Watch, CoreInv, TypeOK, DataOK, store, outside
    <3>7. CASE Note(j)
      <4>1. broken' \subseteq Calendars /\ detail' \subseteq Calendars /\ status' \subseteq Calendars
        BY <3>2, <3>7 DEF Note, CoreInv, TypeOK
      <4> QED  BY <3>7, <4>1 DEF Note, CoreInv, TypeOK, DataOK, store, outside
    <3> QED  BY <2>8, <3>3, <3>4, <3>5, <3>6, <3>7
  <2>9. CASE CommitIntegrate(j)
    <3>1. /\ calendars' \in [Calendars -> [check : BOOLEAN, outbound : BOOLEAN, row : BOOLEAN]]
      <4>1. \A c \in Calendars :
               /\ calendars[c] \in [check : BOOLEAN, outbound : BOOLEAN, row : BOOLEAN]
               /\ NewSetting(j, c) \in [check : BOOLEAN, outbound : BOOLEAN, row : BOOLEAN]
        <5>1. job[j].first \in BOOLEAN
          BY DEF CoreInv, TypeOK, JobType
        <5> QED  BY <5>1 DEF NewSetting, Row, CoreInv, TypeOK
      <4> QED  BY <2>9, <4>1 DEF CommitIntegrate
    <3>2. rows' \in [Calendars -> [Events -> 0..2]]
      BY <2>9, SynchronizedType DEF CommitIntegrate, CoreInv, TypeOK
    <3>3. /\ unseen' \subseteq Calendars /\ mixed' \subseteq Calendars
          /\ doubled' \subseteq Calendars /\ gone' = gone /\ overtaken' = overtaken
      BY <2>9, ObserveType DEF CommitIntegrate
    <3>4. unasked' \subseteq Calendars
      BY <2>9 DEF CommitIntegrate, Fetched, CalendarsOf, CoreInv, TypeOK
    <3> QED  BY <2>9, <3>1, <3>2, <3>3, <3>4 DEF CommitIntegrate, CoreInv, TypeOK, DataOK,
                                                   google, outside
  <2>10. CASE ForgetAll(j)
    BY <2>10 DEF ForgetAll, CoreInv, TypeOK, DataOK, store, outside, seen
  <2>11. CASE CommitRemove(j)
    <3>1. /\ calendars' \in [Calendars -> [check : BOOLEAN, outbound : BOOLEAN, row : BOOLEAN]]
          /\ rows' \in [Calendars -> [Events -> 0..2]]
      BY <2>11 DEF CommitRemove, NoRow, CoreInv, TypeOK
    <3>2. /\ unseen' \subseteq Calendars /\ mixed' \subseteq Calendars
          /\ doubled' \subseteq Calendars /\ gone' = gone /\ overtaken' = overtaken
      BY <2>11, ObserveType DEF CommitRemove
    <3> QED  BY <2>11, <3>1, <3>2 DEF CommitRemove, CoreInv, TypeOK, DataOK, google, outside
  <2> QED  BY <1>7, <2>1, <2>2, <2>3, <2>4, <2>5, <2>6, <2>7, <2>8, <2>9, <2>10, <2>11 DEF Step
<1> QED  BY <1>1, <1>2, <1>3, <1>4, <1>5, <1>6, <1>7 DEF Next

(* The local states stay in order, whatever is done.                         *)
LEMMA HandlersKept ==
    ASSUME CoreInv, Next
    PROVE  job' \in [Jobs -> JobType] /\ HandlersInv' /\ calls' \in [Requests -> Calls \cup {NoCall}]
<1>0. calls \in [Requests -> Calls \cup {NoCall}]
  BY DEF CoreInv, TypeOK
<1>1. ASSUME NEW c \in Calendars, NEW e \in Events, AddEvent(c, e) \/ Book(e, c) \/ RemoveEvent(c, e)
      PROVE  job' \in [Jobs -> JobType] /\ HandlersInv' /\ calls' = calls
  <2>1. Announced(c) /\ calls' = calls
    BY <1>1 DEF AddEvent, Book, RemoveEvent, Put
  <2> QED  BY <2>1, AnnouncedGoes
<1>2. ASSUME NEW h \in Handlers, NEW c \in Calendars, Deliver(h, c)
      PROVE  job' \in [Jobs -> JobType] /\ HandlersInv' /\ calls' = calls
  BY <1>2, DeliverGoes DEF Deliver
<1>3. ASSUME NEW r \in Requests, NEW call \in Calls, Start(r, call)
      PROVE  job' \in [Jobs -> JobType] /\ HandlersInv' /\ calls' \in [Requests -> Calls \cup {NoCall}]
  BY <1>3, StartGoes
<1>4. ASSUME NEW j \in Jobs, Fail(j)
      PROVE  job' \in [Jobs -> JobType] /\ HandlersInv' /\ calls' = calls
  BY <1>4, FailGoes DEF Fail
<1>5. ASSUME NEW j \in Jobs, Step(j)
      PROVE  job' \in [Jobs -> JobType] /\ HandlersInv' /\ calls' = calls
  <2>1. calls' = calls
    BY <1>5 DEF Step, List, Compare, CheckStatus, LoadCalendar, CommitNotice, Owner,
                NextCalendar, CommitPatch, Known, Stop, Forget, SetStatus, Watch, Note,
                Exists, Fetch, LookForOutbound, CommitIntegrate, LoadIntegration,
                ForgetAll, LoadDetails, CommitRemove
  <2>2. CASE List(j) \/ Compare(j) \/ CheckStatus(j) \/ LoadCalendar(j) \/ Owner(j)
    BY <2>1, <2>2, ListGoes, CompareGoes, CheckStatusGoes, LoadCalendarGoes, OwnerGoes
  <2>3. CASE NextCalendar(j) \/ Known(j) \/ Fetch(j) \/ LookForOutbound(j)
             \/ LoadIntegration(j) \/ LoadDetails(j)
    BY <2>1, <2>3, NextCalendarGoes, KnownGoes, FetchGoes, LookForOutboundGoes,
       LoadIntegrationGoes, LoadDetailsGoes
  <2>4. CASE \E s \in Plain : Doing(j, s) /\ Advance(j)
    BY <2>1, <2>4, PlainGoes
  <2>5. CASE End(j)
    BY <2>1, <2>5, EndKeeps
  <2>6. CASE CommitNotice(j) \/ CommitPatch(j) \/ CommitIntegrate(j) \/ CommitRemove(j)
    <3>1. Doing(j, "commit") /\ (Advance(j) \/ End(j))
      BY <2>6 DEF CommitNotice, CommitPatch, CommitIntegrate, CommitRemove, RollBack
    <3> QED  BY <2>4, <2>5, <3>1 DEF Plain
  <2>7. CASE Stop(j) \/ Forget(j) \/ SetStatus(j) \/ Note(j) \/ ForgetAll(j) \/ Exists(j)
    <3>1. /\ \E s \in {"stop", "forget", "set", "note", "forgetAll", "exists"} : Doing(j, s)
          /\ Advance(j) \/ End(j)
      BY <2>7 DEF Stop, Forget, SetStatus, Note, ForgetAll, Exists, RollBack
    <3> QED  BY <2>4, <2>5, <3>1 DEF Plain
  <2>8. CASE Watch(j)
    <3>1. Doing(j, "watch") /\ (SkipSubscribing(j) \/ Advance(j))
      BY <2>8 DEF Watch
    <3> QED  BY <2>1, <2>4, <3>1, SkipSubscribingGoes DEF Plain
  <2> QED  BY <1>5, <2>2, <2>3, <2>6, <2>7, <2>8 DEF Step
<1> QED  BY <1>0, <1>1, <1>2, <1>3, <1>4, <1>5 DEF Next

LEMMA CoreInit == Init => CoreInv
<1> SUFFICES ASSUME Init PROVE CoreInv
  OBVIOUS
<1>1. job \in [Jobs -> JobType] /\ HandlersInv
  BY IdleType DEF Init, HandlersInv
<1>2. calendars \in [Calendars -> [check : BOOLEAN, outbound : BOOLEAN, row : BOOLEAN]]
  BY DEF Init, InitSettings, NoRow, Row
<1>3. rows \in [Calendars -> [Events -> 0..2]] /\ booked \in [Events -> {"no", "live", "canceled"}]
  BY DEF Init
<1>4. /\ status \subseteq Calendars /\ detail \subseteq Calendars
      /\ channels \subseteq Calendars /\ notices \subseteq Calendars
  BY DEF Init
<1>5. /\ events \in [Calendars -> SUBSET Events] /\ gone \in [Calendars -> SUBSET Events]
      /\ calls \in [Requests -> Calls \cup {NoCall}] /\ failures \in 0..MaxFailures
  BY CalendarSyncAssumption DEF Init
<1>6. /\ \A s \in {unseen, mixed, doubled, broken, unasked} : s \subseteq Calendars
      /\ split \in BOOLEAN /\ overtaken \subseteq Events
  BY DEF Init
<1> QED  BY <1>1, <1>2, <1>3, <1>4, <1>5, <1>6 DEF CoreInv, TypeOK

LEMMA CoreStep == CoreInv /\ [Next]_vars => CoreInv'
<1> SUFFICES ASSUME CoreInv, [Next]_vars PROVE CoreInv'
  OBVIOUS
<1>1. CASE Next
  BY <1>1, DataKept, HandlersKept DEF CoreInv, TypeOK, DataOK
<1>2. CASE UNCHANGED vars
  <2>1. \A k \in Jobs : Call(k)' = Call(k)
    BY <1>2 DEF Call, vars
  <2> QED  BY <1>2, <2>1 DEF CoreInv, TypeOK, HandlersInv, vars, store, google, outside, seen
<1> QED  BY <1>1, <1>2

(* Each handler has done what its next step needs.                            *)
THEOREM Core == Spec => []CoreInv
BY CoreInit, CoreStep, PTL DEF Spec

(* The state is what it is meant to be: the settings, the rows, what Redis    *)
(* and Google keep, and the local state of each handler.                      *)
THEOREM TypeCorrect == Spec => []TypeOK
<1>1. CoreInv => TypeOK
  BY DEF CoreInv
<1> QED  BY <1>1, Core, PTL

-----------------------------------------------------------------------------
(* What a step does to what the handlers have read.                          *)
Blank(p) == p.fresh = {} /\ p.obsolete = {} /\ Now(p) # "rows"
Same(q, p) ==
    /\ p.op = q.op /\ p.fresh = q.fresh /\ p.obsolete = q.obsolete /\ p.touched = q.touched
    /\ q.shared \subseteq p.shared
    /\ Now(p) = "rows" => Now(q) = "rows" /\ p.cal = q.cal /\ p.listed = q.listed
Reads(k) == Blank(job'[k]) \/ Same(job[k], job'[k])

LEMMA KinReads == ASSUME NEW k, Kin(job[k], job'[k]) PROVE Reads(k)
BY DEF Kin, Reads, Same, Now

LEMMA MovedReads ==
    ASSUME NEW k, NEW n, n # "rows", Moved(k, job[k], job'[k], n) PROVE Reads(k)
BY DEF Moved, Reads, Same

LEMMA IdleReads == ASSUME NEW k, job'[k] = Idle PROVE Reads(k)
BY DEF Idle, Reads, Blank, Now, NextStep

LEMMA UnmovedReads ==
    ASSUME CoreInv, NEW j \in Jobs, Unmoved(j), Reads(j) PROVE \A k \in Jobs : Reads(k)
<1>1. \A k \in Jobs : job[k] \in JobType
  BY DEF CoreInv, TypeOK
<1>2. \A k \in Jobs \ {j} : Reads(k)
  BY <1>1, KinSelf, KinReads DEF Unmoved
<1> QED  BY <1>2

LEMMA OthersRead ==
    ASSUME CoreInv, NEW j \in Jobs, Others(j), Reads(j) PROVE \A k \in Jobs : Reads(k)
BY KinReads DEF Others

LEMMA StepReads ==
    ASSUME CoreInv, NEW j \in Jobs, Step(j), ~List(j), ~Compare(j), ~Fetch(j)
    PROVE  \A k \in Jobs : Reads(k)
<1>1. CASE CheckStatus(j)
  <2>1. Others(j) /\ (job'[j] = Idle \/ Moved(j, job[j], job'[j], "load"))
    BY <1>1, CheckStatusGoes
  <2> QED  BY <2>1, IdleReads, MovedReads, OthersRead
<1>2. CASE LoadCalendar(j)
  <2>1. /\ Others(j)
        /\ \/ job'[j] = Idle
           \/ job'[j].fresh = {} /\ job'[j].obsolete = {} /\ OnTo(j, "list")
    BY <1>2, LoadCalendarGoes
  <2>2. Reads(j)
    BY <2>1, IdleReads DEF Reads, Blank, OnTo
  <2> QED  BY <2>1, <2>2, OthersRead
<1>3. CASE Owner(j)
  <2>1. /\ Others(j)
        /\ \/ job'[j] = Idle
           \/ job'[j].fresh = {} /\ job'[j].obsolete = {} /\ OnTo(j, "next")
    BY <1>3, OwnerGoes
  <2>2. Reads(j)
    BY <2>1, IdleReads DEF Reads, Blank, OnTo
  <2> QED  BY <2>1, <2>2, OthersRead
<1>4. CASE LoadIntegration(j)
  <2>1. /\ Others(j)
        /\ \/ job'[j] = Idle
           \/ job'[j].fresh = {} /\ job'[j].obsolete = {} /\ OnTo(j, "forgetAll")
    BY <1>4, LoadIntegrationGoes
  <2>2. Reads(j)
    BY <2>1, IdleReads DEF Reads, Blank, OnTo
  <2> QED  BY <2>1, <2>2, OthersRead
<1>5. CASE NextCalendar(j)
  <2>1. PICK n \in {"commit", "list", "stop"} :
          /\ Unmoved(j) /\ OnTo(j, n)
          /\ \/ Moved(j, job[j], job'[j], "commit")
             \/ /\ job'[j].op = job[j].op /\ job'[j].touched = job[j].touched
                /\ job'[j].shared = job[j].shared
                /\ job'[j].fresh = job[j].fresh /\ job'[j].obsolete = job[j].obsolete
    BY <1>5, NextCalendarGoes
  <2>2. Reads(j)
    BY <2>1, MovedReads DEF Reads, Same, OnTo
  <2> QED  BY <2>1, <2>2, UnmovedReads
<1>6. CASE Known(j)
  <2>1. Unmoved(j) /\ \E n \in {"stop", "set"} : Moved(j, job[j], job'[j], n)
    BY <1>6, KnownGoes
  <2> QED  BY <2>1, MovedReads, UnmovedReads
<1>7. CASE LookForOutbound(j)
  <2>1. Unmoved(j) /\ OnTo(j, "set") /\ Agree(job[j], job'[j])
        /\ job'[j].fresh = job[j].fresh /\ job'[j].obsolete = job[j].obsolete
    BY <1>7, LookForOutboundGoes
  <2>2. Reads(j)
    BY <2>1 DEF Reads, Same, OnTo, Agree
  <2> QED  BY <2>1, <2>2, UnmovedReads
<1>8. CASE LoadDetails(j)
  <2>1. Unmoved(j) /\ OnTo(j, "next") /\ job'[j].op = job[j].op
        /\ job'[j].touched = job[j].touched /\ job'[j].shared = job[j].shared
        /\ job'[j].fresh = job[j].fresh /\ job'[j].obsolete = job[j].obsolete
    BY <1>8, LoadDetailsGoes
  <2>2. Reads(j)
    BY <2>1 DEF Reads, Same, OnTo
  <2> QED  BY <2>1, <2>2, UnmovedReads
<1>9. CASE (\E s \in Plain : Doing(j, s) /\ Advance(j)) /\ calls' = calls
  <2>1. PICK s \in Plain : Doing(j, s) /\ Advance(j)
    BY <1>9
  <2>2. s # "commit" => \E n :
              /\ Moved(j, job[j], job'[j], n)
              /\ s = "status" => n = "load"
              /\ s = "known" => n = "stop"
              /\ s = "stop" => n = "forget"
              /\ s = "forget" => n = "set" \/ n = "next"
              /\ s = "set" => n = "watch"
              /\ s = "watch" => n = "note"
              /\ s = "note" => n = "next" \/ n = "commit"
              /\ s = "exists" => n = "fetch"
              /\ s = "forgetAll" => n = "details"
    BY <1>9, <2>1, PlainGoes
  <2>3. Unmoved(j) /\ (s = "commit" => job'[j] = Idle)
    BY <2>1, <1>9, PlainGoes
  <2>4. s # "commit" => \E n : Moved(j, job[j], job'[j], n) /\ n # "rows"
    BY <2>1, <2>2 DEF Plain
  <2> QED  BY <2>3, <2>4, IdleReads, MovedReads, UnmovedReads
<1>10. CASE End(j)
  <2>1. job'[j] = Idle /\ Unmoved(j)
    BY <1>10, EndGoes DEF Unmoved
  <2> QED  BY <2>1, IdleReads, UnmovedReads
<1>11. CASE CommitNotice(j) \/ CommitPatch(j) \/ CommitIntegrate(j) \/ CommitRemove(j)
  <2>1. Doing(j, "commit") /\ (Advance(j) \/ End(j)) /\ calls' = calls
    BY <1>11 DEF CommitNotice, CommitPatch, CommitIntegrate, CommitRemove, RollBack
  <2> QED  BY <1>9, <1>10, <2>1 DEF Plain
<1>12. CASE Stop(j) \/ Forget(j) \/ SetStatus(j) \/ Note(j) \/ ForgetAll(j) \/ Exists(j)
  <2>1. /\ \E s \in {"stop", "forget", "set", "note", "forgetAll", "exists"} : Doing(j, s)
        /\ Advance(j) \/ End(j)
        /\ calls' = calls
    BY <1>12 DEF Stop, Forget, SetStatus, Note, ForgetAll, Exists, RollBack
  <2> QED  BY <1>9, <1>10, <2>1 DEF Plain
<1>13. CASE Watch(j)
  <2>1. Doing(j, "watch") /\ (SkipSubscribing(j) \/ Advance(j)) /\ calls' = calls
    BY <1>13 DEF Watch
  <2>2. CASE SkipSubscribing(j)
    <3>1. Unmoved(j) /\ \E n \in {"next", "commit"} : Moved(j, job[j], job'[j], n)
      BY <2>1, <2>2, SkipSubscribingGoes
    <3> QED  BY <3>1, MovedReads, UnmovedReads
  <2> QED  BY <1>9, <2>1, <2>2 DEF Plain
<1> QED  BY <1>1, <1>2, <1>3, <1>4, <1>5, <1>6, <1>7, <1>8, <1>11, <1>12, <1>13 DEF Step

LEMMA OtherReads ==
    ASSUME CoreInv, Next, \A j \in Jobs : ~Step(j)
    PROVE  \A k \in Jobs : Reads(k)
<1>1. ASSUME NEW c \in Calendars, NEW e \in Events, AddEvent(c, e) \/ Book(e, c) \/ RemoveEvent(c, e)
      PROVE  \A k \in Jobs : Reads(k)
  <2>1. Announced(c) /\ calls' = calls
    BY <1>1 DEF AddEvent, Book, RemoveEvent, Put
  <2> QED  BY <2>1, AnnouncedGoes, KinReads
<1>2. ASSUME NEW h \in Handlers, NEW c \in Calendars, Deliver(h, c)
      PROVE  \A k \in Jobs : Reads(k)
  <2>1. Unmoved(h) /\ h \in Jobs /\ Begun(h, job'[h], "notice", "status")
    BY <1>2, DeliverGoes
  <2>2. Reads(h)
    BY <2>1 DEF Reads, Blank, Begun
  <2> QED  BY <2>1, <2>2, UnmovedReads
<1>3. ASSUME NEW r \in Requests, NEW call \in Calls, Start(r, call), NEW k \in Jobs
      PROVE  Reads(k)
  <2>1. CASE k \in Handlers \/ k[1] # r
    <3>1. job'[k] = job[k] /\ job[k] \in JobType
      BY <1>3, <2>1, StartGoes DEF CoreInv, TypeOK
    <3> QED  BY <3>1, KinSelf, KinReads
  <2>2. CASE k \notin Handlers /\ k[1] = r
    <3>1. PICK v \in Vendors : k = <<r, v>>
      BY <2>2 DEF Jobs
    <3>2. \/ Begun(<<r, v>>, job'[<<r, v>>], call.op, FirstStep(call.op, v))
          \/ job'[<<r, v>>] = Idle
      BY <1>3, StartGoes
    <3>3. FirstStep(call.op, v) # "rows"
      BY DEF FirstStep
    <3> QED  BY <3>1, <3>2, <3>3, IdleReads DEF Begun, Reads, Blank
  <2> QED  BY <2>1, <2>2
<1>4. ASSUME NEW j \in Jobs, Fail(j) PROVE \A k \in Jobs : Reads(k)
  <2>1. /\ Unmoved(j)
        /\ job'[j] = Idle \/ \E n \in {"next", "commit"} : Moved(j, job[j], job'[j], n)
    BY <1>4, FailGoes
  <2> QED  BY <2>1, IdleReads, MovedReads, UnmovedReads
<1> QED  BY <1>1, <1>2, <1>3, <1>4 DEF Next

LEMMA StepsRead ==
    ASSUME CoreInv, Next
    PROVE  \/ \A k \in Jobs : Reads(k)
           \/ \E j \in Jobs : List(j) \/ Compare(j) \/ Fetch(j)
<1>1. ASSUME NEW j \in Jobs, Step(j), ~List(j), ~Compare(j), ~Fetch(j)
      PROVE  \A k \in Jobs : Reads(k)
  BY <1>1, StepReads
<1> QED  BY <1>1, OtherReads

-----------------------------------------------------------------------------
(* Bookings.  Whatever a handler has read of a calendar was once there: what  *)
(* it saves, and what it takes for obsolete is no longer there, or not seen.  *)
Was(c) == events[c] \cup gone[c]
ReadInv(k) ==
    /\ \A c \in Calendars, e \in Events :
          /\ <<c, e>> \in job[k].fresh => e \in Was(c)
          /\ <<c, e>> \in job[k].obsolete => e \in overtaken \cup gone[c]
    /\ Now(job[k]) = "rows" =>
          /\ job[k].listed \subseteq Was(Cal(k))
          /\ events[Cal(k)] \ job[k].listed \subseteq overtaken
StoredInv == \A c \in Calendars : Stored(c) \subseteq Was(c)
BookInv == StoredInv /\ (\A k \in Jobs : ReadInv(k)) /\ BookingsStay
Grows ==
    /\ overtaken \subseteq overtaken'
    /\ \A c \in Calendars :
          /\ gone[c] \subseteq gone'[c] /\ Was(c) \subseteq Was(c)'
          /\ HaveListed(c) # {} => events'[c] \ events[c] \subseteq overtaken'

LEMMA CalWorking ==
    ASSUME CoreInv, NEW j \in Jobs, Now(job[j]) \in Working
    PROVE  Cal(j) \in Calendars /\ Cal(j) \in job[j].touched
<1>1. job[j].todo # <<>>
  BY DEF Now, NextStep, Working
<1>2. job[j] \in JobType /\ Placed(j, job[j], Call(j), Now(job[j]))
  BY <1>1, WorksFacts, StepFacts
<1> QED  BY <1>2 DEF Placed, Cal, JobType

LEMMA SeenGrows == ASSUME CoreInv, Next PROVE Grows
<1>1. CASE UNCHANGED <<events, gone>> /\ overtaken \subseteq overtaken'
  BY <1>1 DEF Grows, Was
<1>2. ASSUME NEW c \in Calendars, NEW e \in Events, Put(c, e) PROVE Grows
  <2>1. /\ events' = [events EXCEPT ![c] = @ \cup {e}] /\ gone' = gone
        /\ overtaken' = IF HaveListed(c) = {} THEN overtaken ELSE overtaken \cup {e}
    BY <1>2 DEF Put
  <2>2. events \in [Calendars -> SUBSET Events]
    BY DEF CoreInv, TypeOK
  <2>3. ASSUME NEW d \in Calendars
        PROVE  Was(d) \subseteq Was(d)' /\ (HaveListed(d) # {} => events'[d] \ events[d] \subseteq overtaken')
    BY <2>1, <2>2 DEF Was
  <2> QED  BY <2>1, <2>3 DEF Grows
<1>3. ASSUME NEW c \in Calendars, NEW e \in Events, RemoveEvent(c, e) PROVE Grows
  <2>1. /\ events' = [events EXCEPT ![c] = @ \ {e}] /\ overtaken' = overtaken
        /\ gone' = [gone EXCEPT ![c] = @ \cup {e}]
    BY <1>3 DEF RemoveEvent
  <2>2. events \in [Calendars -> SUBSET Events] /\ gone \in [Calendars -> SUBSET Events]
    BY DEF CoreInv, TypeOK
  <2> QED  BY <2>1, <2>2 DEF Grows, Was
<1>4. ASSUME NEW h \in Handlers, NEW c \in Calendars, Deliver(h, c) PROVE Grows
  BY <1>1, <1>4 DEF Deliver, seen
<1>5. ASSUME NEW r \in Requests, NEW call \in Calls, Start(r, call) PROVE Grows
  BY <1>1, <1>5 DEF Start, outside
<1>6. ASSUME NEW j \in Jobs, Fail(j) PROVE Grows
  BY <1>1, <1>6 DEF Fail, RollBack
<1>7. ASSUME NEW j \in Jobs, Step(j) PROVE Grows
  <2>1. UNCHANGED <<events, gone>> /\ overtaken \subseteq overtaken'
    BY <1>7 DEF Step, List, Compare, CheckStatus, LoadCalendar, CommitNotice, Owner,
                NextCalendar, CommitPatch, Known, Stop, Forget, SetStatus, Watch, Note,
                Exists, Fetch, LookForOutbound, CommitIntegrate, LoadIntegration,
                ForgetAll, LoadDetails, CommitRemove, Skip, RollBack, Observe, outside, seen
  <2> QED  BY <1>1, <2>1
<1> QED  BY <1>2, <1>3, <1>4, <1>5, <1>6, <1>7 DEF Next, AddEvent, Book

LEMMA ReadsStay ==
    ASSUME CoreInv, NEW k \in Jobs, ReadInv(k), Reads(k), Grows
    PROVE  ReadInv(k)'
<1>1. CASE Blank(job'[k])
  BY <1>1 DEF Blank, ReadInv
<1>2. CASE Same(job[k], job'[k])
  <2>1. ASSUME NEW c \in Calendars, NEW e \in Events
        PROVE  /\ <<c, e>> \in job'[k].fresh => e \in Was(c)'
               /\ <<c, e>> \in job'[k].obsolete => e \in overtaken' \cup gone'[c]
    BY <1>2 DEF Same, ReadInv, Grows
  <2>2. ASSUME Now(job'[k]) = "rows"
        PROVE  /\ job'[k].listed \subseteq Was(Cal(k))'
               /\ events'[Cal(k)'] \ job'[k].listed \subseteq overtaken'
    <3>1. /\ Now(job[k]) = "rows" /\ Cal(k)' = Cal(k) /\ job'[k].listed = job[k].listed
      BY <1>2, <2>2 DEF Same, Cal
    <3>2. Cal(k) \in Calendars
      BY <3>1, CalWorking DEF Working
    <3>3. k \in HaveListed(Cal(k))
      BY <3>1 DEF HaveListed, Doing, Now, NextStep, Cal
    <3>4. PICK c \in Calendars : c = Cal(k)
      BY <3>2
    <3>5. events'[c] \ events[c] \subseteq overtaken' /\ Was(c) \subseteq Was(c)'
          /\ overtaken \subseteq overtaken'
      BY <3>3, <3>4 DEF Grows
    <3>6. job[k].listed \subseteq Was(c) /\ events[c] \ job[k].listed \subseteq overtaken
      BY <3>1, <3>4 DEF ReadInv
    <3>7. Was(Cal(k))' = Was(c)' /\ events'[Cal(k)'] = events'[c]
      BY <3>1, <3>4 DEF Was
    <3> QED  BY <3>1, <3>5, <3>6, <3>7
  <2> QED  BY <2>1, <2>2 DEF ReadInv
<1> QED  BY <1>1, <1>2 DEF Reads

LEMMA ReadsKept ==
    ASSUME CoreInv, Next, BookInv PROVE \A k \in Jobs : ReadInv(k)'
<1>1. Grows /\ \A k \in Jobs : ReadInv(k)
  BY SeenGrows DEF BookInv
<1>2. CASE \A k \in Jobs : Reads(k)
  BY <1>1, <1>2, ReadsStay
<1>3. ASSUME NEW j \in Jobs, List(j) PROVE \A k \in Jobs : ReadInv(k)'
  <2>1. Unmoved(j) /\ OnTo(j, "rows") /\ Agree(job[j], job'[j])
        /\ job'[j].fresh = job[j].fresh /\ job'[j].obsolete = job[j].obsolete
    BY <1>3, ListGoes
  <2>2. PICK page \in SUBSET events[Cal(j)] :
          job'[j].listed = page /\ overtaken' = overtaken \cup (events[Cal(j)] \ page)
    BY <1>3, ListGoes
  <2>3. events' = events /\ gone' = gone
    BY <1>3 DEF List, outside
  <2>4. Cal(j)' = Cal(j)
    BY <2>1 DEF Agree, Cal
  <2>5. ASSUME NEW c \in Calendars, NEW e \in Events
        PROVE  /\ <<c, e>> \in job'[j].fresh => e \in Was(c)'
               /\ <<c, e>> \in job'[j].obsolete => e \in overtaken' \cup gone'[c]
    BY <1>1, <2>1 DEF ReadInv, Grows
  <2>6. /\ job'[j].listed \subseteq Was(Cal(j))'
        /\ events'[Cal(j)'] \ job'[j].listed \subseteq overtaken'
    BY <2>2, <2>3, <2>4 DEF Was
  <2>7. ReadInv(j)'
    BY <2>5, <2>6 DEF ReadInv
  <2>8. \A k \in Jobs \ {j} : Reads(k)
    BY <2>1, KinSelf, KinReads DEF Unmoved, CoreInv, TypeOK
  <2>9. \A k \in Jobs \ {j} : ReadInv(k)'
    BY <1>1, <2>8, ReadsStay
  <2> QED  BY <2>7, <2>9
<1>4. ASSUME NEW j \in Jobs, Compare(j) PROVE \A k \in Jobs : ReadInv(k)'
  <2>1. /\ Unmoved(j) /\ Doing(j, "rows") /\ \E n \in {"commit", "known", "next"} : OnTo(j, n)
        /\ job'[j].fresh = job[j].fresh \cup ({Cal(j)} \X Fresh(j))
        /\ job'[j].obsolete = job[j].obsolete \cup ({Cal(j)} \X Obsolete(j))
    BY <1>4, CompareGoes
  <2>2. events' = events /\ gone' = gone /\ overtaken' = overtaken
    BY <1>4 DEF Compare, outside, seen
  <2>3. Now(job[j]) = "rows" /\ Now(job'[j]) # "rows"
    BY <2>1, DoingIs DEF OnTo
  <2>4. PICK c \in Calendars : c = Cal(j)
    BY <2>3, CalWorking DEF Working
  <2>5. job[j].listed \subseteq Was(c) /\ events[c] \ job[j].listed \subseteq overtaken
    BY <1>1, <2>3, <2>4 DEF ReadInv
  <2>6. Fresh(j) \subseteq Was(c)
    BY <2>5 DEF Fresh
  <2>7. Obsolete(j) \subseteq overtaken \cup gone[c]
    <3>1. Stored(c) \subseteq Was(c)
      BY DEF BookInv, StoredInv
    <3> QED  BY <2>4, <2>5, <3>1 DEF Obsolete, Was
  <2>8. ASSUME NEW d \in Calendars, NEW e \in Events
        PROVE  /\ <<d, e>> \in job'[j].fresh => e \in Was(d)'
               /\ <<d, e>> \in job'[j].obsolete => e \in overtaken' \cup gone'[d]
    <3>1. /\ <<d, e>> \in job[j].fresh => e \in Was(d)
          /\ <<d, e>> \in job[j].obsolete => e \in overtaken \cup gone[d]
      BY <1>1 DEF ReadInv
    <3>2. Was(d)' = Was(d)
      BY <2>2 DEF Was
    <3> QED  BY <2>1, <2>2, <2>4, <2>6, <2>7, <3>1, <3>2
  <2>9. ReadInv(j)'
    BY <2>3, <2>8 DEF ReadInv
  <2>10. \A k \in Jobs \ {j} : Reads(k)
    BY <2>1, KinSelf, KinReads DEF Unmoved, CoreInv, TypeOK
  <2>11. \A k \in Jobs \ {j} : ReadInv(k)'
    BY <1>1, <2>10, ReadsStay
  <2> QED  BY <2>9, <2>11
<1>5. ASSUME NEW j \in Jobs, Fetch(j) PROVE \A k \in Jobs : ReadInv(k)'
  <2>1. /\ Others(j) /\ OnTo(j, IF V(j) = "google" THEN "outbound" ELSE "commit")
        /\ job'[j].obsolete = {}
    BY <1>5, FetchGoes
  <2>2. PICK page \in SUBSET events[job'[j].cal] : job'[j].fresh = {job'[j].cal} \X page
    BY <1>5, FetchGoes
  <2>3. events' = events /\ gone' = gone
    BY <1>5 DEF Fetch, outside, seen
  <2>4. ASSUME NEW d \in Calendars, NEW e \in Events, <<d, e>> \in job'[j].fresh
        PROVE  e \in Was(d)'
    BY <2>2, <2>3, <2>4 DEF Was
  <2>5. ReadInv(j)'
    BY <2>1, <2>4 DEF ReadInv, OnTo
  <2>6. \A k \in Jobs \ {j} : Reads(k)
    BY <2>1, KinReads DEF Others
  <2>7. \A k \in Jobs \ {j} : ReadInv(k)'
    BY <1>1, <2>6, ReadsStay
  <2> QED  BY <2>5, <2>7
<1> QED  BY <1>2, <1>3, <1>4, <1>5, StepsRead

(* What the commit of a handler does to the rows and the bookings.            *)
LEMMA SynchronizedIs ==
    ASSUME NEW j, NEW before \in [Calendars -> [Events -> 0..2]], NEW c \in Calendars,
           NEW e \in Events
    PROVE  /\ <<c, e>> \in job[j].obsolete => Synchronized(j, before)[c][e] = 0
           /\ Synchronized(j, before)[c][e] > 0 =>
                before[c][e] > 0 \/ <<c, e>> \in job[j].fresh
           /\ <<c, e>> \notin job[j].fresh \cup job[j].obsolete =>
                Synchronized(j, before)[c][e] = before[c][e]
           /\ <<c, e>> \in job[j].fresh /\ <<c, e>> \notin job[j].obsolete =>
                /\ Synchronized(j, before)[c][e] > 0
                /\ before[c][e] = 0 => Synchronized(j, before)[c][e] = 1
<1>1. before[c][e] \in 0..2
  OBVIOUS
<1>2. Synchronized(j, before)[c][e] =
        IF <<c, e>> \in job[j].obsolete THEN 0
        ELSE IF <<c, e>> \in job[j].fresh /\ before[c][e] < 2 THEN before[c][e] + 1
        ELSE before[c][e]
  BY DEF Synchronized
<1> QED  BY <1>1, <1>2

(* The ways the rows change.                                                  *)
RowsKept == UNCHANGED <<rows, booked>>
NoticeCommits(j) ==
    /\ CommitNotice(j) /\ rows' = Synchronized(j, rows) /\ booked' = Canceled(j)
    /\ IsRow(Cal(j)) /\ Observe(j) /\ calendars' = calendars /\ unasked' = unasked
PatchCommits(j) ==
    /\ CommitPatch(j) /\ rows' = Synchronized(j, RowsLeft(j)) /\ booked' = Canceled(j)
    /\ \A c \in job[j].touched : IsRow(c)
    /\ calendars' = Settings(j) /\ Observe(j) /\ unasked' = unasked \ Named(j)
RowsChanged(j) ==
    NoticeCommits(j) \/ PatchCommits(j) \/ CommitIntegrate(j) \/ CommitRemove(j)
Booked == \E e \in Events, c \in Calendars : Book(e, c)

LEMMA RowsChange ==
    ASSUME CoreInv, Next
    PROVE  \/ UNCHANGED <<calendars, rows, booked, mixed, doubled, unasked>>
           \/ UNCHANGED <<calendars, rows, mixed, doubled, unasked>> /\ Booked
           \/ \E j \in Jobs : RowsChanged(j)
<1> DEFINE Kept0 == UNCHANGED <<calendars, rows, booked, mixed, doubled, unasked>>
<1>1. ASSUME NEW j \in Jobs, Step(j), ~CommitNotice(j), ~CommitPatch(j), ~CommitIntegrate(j),
             ~CommitRemove(j)
      PROVE  Kept0
  BY <1>1 DEF Step, List, Compare, CheckStatus, LoadCalendar, Owner,
         NextCalendar, Known, Stop, Forget, SetStatus, Watch, Note,
         Exists, Fetch, LookForOutbound, LoadIntegration,
         ForgetAll, LoadDetails, Skip, RollBack, store, seen
<1>2. ASSUME NEW j \in Jobs, CommitNotice(j) PROVE Kept0 \/ NoticeCommits(j)
  BY <1>2 DEF CommitNotice, RollBack, store, NoticeCommits
<1>3. ASSUME NEW j \in Jobs, CommitPatch(j) PROVE Kept0 \/ PatchCommits(j)
  BY <1>3 DEF CommitPatch, RollBack, store, PatchCommits
<1>4. ASSUME NEW j \in Jobs, Fail(j) PROVE Kept0
  BY <1>4 DEF Fail, RollBack, store
<1>5. ASSUME NEW c \in Calendars, NEW e \in Events, AddEvent(c, e) \/ RemoveEvent(c, e)
      PROVE  Kept0
  BY <1>5 DEF AddEvent, RemoveEvent, Put, store
<1>6. ASSUME NEW c \in Calendars, NEW e \in Events, Book(e, c)
      PROVE  UNCHANGED <<calendars, rows, mixed, doubled, unasked>> /\ Booked
  BY <1>6 DEF Book, Put, Booked
<1>7. ASSUME NEW h \in Handlers, NEW c \in Calendars, Deliver(h, c) PROVE Kept0
  BY <1>7 DEF Deliver, store, seen
<1>8. ASSUME NEW r \in Requests, NEW call \in Calls, Start(r, call) PROVE Kept0
  BY <1>8 DEF Start, store
<1> QED  BY <1>1, <1>2, <1>3, <1>4, <1>5, <1>6, <1>7, <1>8 DEF Next, RowsChanged

LEMMA RowsLeftIs ==
    ASSUME CoreInv, NEW j, NEW c \in Calendars, NEW e \in Events
    PROVE  /\ RowsLeft(j) \in [Calendars -> [Events -> 0..2]]
           /\ c \in Asked(j, FALSE) => RowsLeft(j)[c][e] = 0
           /\ c \notin Asked(j, FALSE) => RowsLeft(j)[c][e] = rows[c][e]
<1>1. [d \in Events |-> 0] \in [Events -> 0..2]
  OBVIOUS
<1>2. \A d \in Calendars : rows[d] \in [Events -> 0..2]
  BY DEF CoreInv, TypeOK
<1> QED  BY <1>1, <1>2 DEF RowsLeft

LEMMA StoredKept == ASSUME CoreInv, Next, BookInv PROVE StoredInv'
<1>1. Grows /\ StoredInv /\ \A k \in Jobs : ReadInv(k)
  BY SeenGrows DEF BookInv
<1>2. rows \in [Calendars -> [Events -> 0..2]]
  BY DEF CoreInv, TypeOK
<1>3. SUFFICES ASSUME NEW c \in Calendars, NEW e \in Events, rows'[c][e] > 0 PROVE e \in Was(c)'
  BY DEF StoredInv, Stored
<1>4. /\ rows[c][e] > 0 => e \in Was(c)'
      /\ \A k \in Jobs : <<c, e>> \in job[k].fresh => e \in Was(c)'
  BY <1>1 DEF StoredInv, Stored, ReadInv, Grows
<1>5. CASE rows' = rows
  BY <1>3, <1>4, <1>5
<1>6. ASSUME NEW j \in Jobs, RowsChanged(j) PROVE e \in Was(c)'
  <2>1. CASE NoticeCommits(j) \/ CommitIntegrate(j)
    <3>1. rows' = Synchronized(j, rows)
      BY <2>1 DEF NoticeCommits, CommitIntegrate
    <3>2. rows[c][e] > 0 \/ <<c, e>> \in job[j].fresh
      BY <1>2, <1>3, <3>1, SynchronizedIs
    <3> QED  BY <1>4, <3>2
  <2>2. CASE PatchCommits(j)
    <3>1. rows' = Synchronized(j, RowsLeft(j)) /\ RowsLeft(j) \in [Calendars -> [Events -> 0..2]]
      BY <2>2, RowsLeftIs DEF PatchCommits
    <3>2. RowsLeft(j)[c][e] > 0 \/ <<c, e>> \in job[j].fresh
      BY <1>3, <3>1, SynchronizedIs
    <3>3. RowsLeft(j)[c][e] = 0 \/ RowsLeft(j)[c][e] = rows[c][e]
      BY RowsLeftIs
    <3>4. rows[c][e] > 0 \/ <<c, e>> \in job[j].fresh
      BY <3>2, <3>3
    <3> QED  BY <1>4, <3>4
  <2>3. CASE CommitRemove(j)
    <3>1. rows'[c] = IF c \in CalendarsOf(Call(j).on) THEN [d \in Events |-> 0] ELSE rows[c]
      BY <2>3 DEF CommitRemove
    <3> QED  BY <1>3, <1>4, <3>1
  <2> QED  BY <1>6, <2>1, <2>2, <2>3 DEF RowsChanged
<1> QED  BY <1>5, <1>6, RowsChange

LEMMA BookingsKept == ASSUME CoreInv, Next, BookInv PROVE BookingsStay'
<1>1. Grows /\ BookingsStay /\ \A k \in Jobs : ReadInv(k)
  BY SeenGrows DEF BookInv
<1>2. SUFFICES ASSUME NEW e \in Events, booked'[e] = "canceled"
               PROVE  e \in overtaken' \/ \E c \in Calendars : e \in gone'[c]
  BY DEF BookingsStay
<1>3. /\ booked[e] = "canceled" => e \in overtaken' \/ \E c \in Calendars : e \in gone'[c]
      /\ \A k \in Jobs, c \in Calendars : <<c, e>> \in job[k].obsolete =>
            e \in overtaken' \/ e \in gone'[c]
  BY <1>1 DEF BookingsStay, ReadInv, Grows
<1>4. CASE booked' = booked
  BY <1>2, <1>3, <1>4
<1>5. CASE Booked
  <2>1. PICK b \in Events : booked' = [booked EXCEPT ![b] = "live"]
    BY <1>5 DEF Booked, Book
  <2>2. booked[e] = "canceled"
    BY <1>2, <2>1 DEF CoreInv, TypeOK
  <2> QED  BY <1>3, <2>2
<1>6. ASSUME NEW j \in Jobs, RowsChanged(j)
      PROVE  e \in overtaken' \/ \E c \in Calendars : e \in gone'[c]
  <2>1. CASE NoticeCommits(j) \/ PatchCommits(j)
    <3>1. booked' = Canceled(j)
      BY <2>1 DEF NoticeCommits, PatchCommits
    <3>2. booked[e] = "canceled" \/ \E c \in Calendars : <<c, e>> \in job[j].obsolete
      BY <1>2, <3>1 DEF Canceled
    <3> QED  BY <1>3, <3>2
  <2>2. CASE CommitIntegrate(j) \/ CommitRemove(j)
    <3>1. booked' = booked
      BY <2>2 DEF CommitIntegrate, CommitRemove
    <3> QED  BY <1>4, <3>1
  <2> QED  BY <1>6, <2>1, <2>2 DEF RowsChanged
<1> QED  BY <1>4, <1>5, <1>6, RowsChange

(* A booking is canceled only after its event was removed from a calendar, or *)
(* when a listing in use did not show it: for any number of handlers, events  *)
(* and calendars, whatever crosses and whatever fails.                         *)
THEOREM BookingsSafe == Spec => []BookingsStay
<1>1. Init => BookInv
  <2> SUFFICES ASSUME Init PROVE BookInv
    OBVIOUS
  <2>1. StoredInv
    BY DEF Init, StoredInv, Stored, Was
  <2>2. \A k \in Jobs : ReadInv(k)
    BY DEF Init, ReadInv, Idle, Now, NextStep
  <2>3. BookingsStay
    BY DEF Init, BookingsStay
  <2> QED  BY <2>1, <2>2, <2>3 DEF BookInv
<1>2. CoreInv /\ BookInv /\ [Next]_vars => BookInv'
  <2> SUFFICES ASSUME CoreInv, BookInv, [Next]_vars PROVE BookInv'
    OBVIOUS
  <2>1. CASE Next
    BY <2>1, ReadsKept, StoredKept, BookingsKept DEF BookInv
  <2>2. CASE UNCHANGED vars
    BY <2>2 DEF BookInv, StoredInv, Stored, Was, ReadInv, Cal, BookingsStay, vars, store,
                google, outside, seen
  <2> QED  BY <2>1, <2>2
<1>3. Spec => []BookInv
  BY <1>1, <1>2, Core, PTL DEF Spec
<1>4. BookInv => BookingsStay
  BY DEF BookInv
<1> QED  BY <1>3, <1>4, PTL

-----------------------------------------------------------------------------
(* Two handlers that work on a calendar know of each other.                   *)
PairsInv ==
    \A j \in Jobs, k \in Jobs : j # k => job[j].touched \cap job[k].touched \subseteq job[j].shared
Tame(k) ==
    \/ job'[k].touched = {}
    \/ job'[k].touched = job[k].touched /\ job[k].shared \subseteq job'[k].shared
Touching(j, cs) ==
    /\ job'[j].touched = cs /\ job'[j].shared = Both(j, cs)
    /\ \A k \in Jobs \ {j} : Shown(job[k], job'[k], cs)

LEMMA KinTame == ASSUME NEW k, Kin(job[k], job'[k]) PROVE Tame(k)
BY DEF Kin, Tame

LEMMA MovedTame ==
    ASSUME NEW k, NEW n, Moved(k, job[k], job'[k], n) PROVE Tame(k)
BY DEF Moved, Tame

LEMMA IdleTame == ASSUME NEW k, job'[k] = Idle PROVE Tame(k)
BY DEF Idle, Tame

LEMMA UnmovedTame ==
    ASSUME CoreInv, NEW j \in Jobs, Unmoved(j), Tame(j) PROVE \A k \in Jobs : Tame(k)
<1>1. \A k \in Jobs : job[k] \in JobType
  BY DEF CoreInv, TypeOK
<1>2. \A k \in Jobs \ {j} : Tame(k)
  BY <1>1, KinSelf, KinTame DEF Unmoved
<1> QED  BY <1>2

LEMMA OthersTame ==
    ASSUME CoreInv, NEW j \in Jobs, Others(j), Tame(j) PROVE \A k \in Jobs : Tame(k)
BY KinTame DEF Others

TouchStep(j) == LoadCalendar(j) \/ Owner(j) \/ LoadIntegration(j) \/ Fetch(j)
LEMMA TouchSteps ==
    ASSUME CoreInv, NEW j \in Jobs, TouchStep(j)
    PROVE  (\A k \in Jobs : Tame(k)) \/ \E cs \in SUBSET Calendars : Touching(j, cs)
<1>1. CASE LoadCalendar(j)
  <2>1. \/ job'[j] = Idle /\ Others(j)
        \/ /\ job'[j].touched = {Cal(j)} /\ job'[j].shared = Both(j, {Cal(j)})
           /\ \A k \in Jobs \ {j} : Shown(job[k], job'[k], {Cal(j)})
    BY <1>1, LoadCalendarGoes
  <2>2. Cal(j) \in Calendars
    BY <1>1, LoadCalendarGoes
  <2>3. PICK cs \in SUBSET Calendars : cs = {Cal(j)}
    BY <2>2
  <2>4. (job'[j] = Idle /\ Others(j)) \/ Touching(j, cs)
    BY <2>1, <2>3 DEF Touching
  <2> QED  BY <2>4, IdleTame, OthersTame
<1>2. CASE Owner(j)
  <2>1. \/ job'[j] = Idle /\ Others(j)
        \/ /\ job'[j].touched = Checked(j) \cup Named(j)
           /\ job'[j].shared = Both(j, Checked(j) \cup Named(j))
           /\ \A k \in Jobs \ {j} : Shown(job[k], job'[k], Checked(j) \cup Named(j))
    BY <1>2, OwnerGoes
  <2>2. Checked(j) \subseteq Calendars /\ Named(j) \subseteq Calendars
    <3>1. job[j].todo # <<>> /\ job[j].op = "patch"
      BY <1>2, OwnerGoes DEF Doing
    <3> QED  BY <3>1, OfPatches
  <2>3. PICK cs \in SUBSET Calendars : cs = Checked(j) \cup Named(j)
    BY <2>2
  <2>4. (job'[j] = Idle /\ Others(j)) \/ Touching(j, cs)
    BY <2>1, <2>3 DEF Touching
  <2> QED  BY <2>4, IdleTame, OthersTame
<1>3. CASE LoadIntegration(j)
  <2>1. \/ job'[j] = Idle /\ Others(j)
        \/ /\ job'[j].touched = CalendarsOf(Call(j).on)
           /\ job'[j].shared = Both(j, CalendarsOf(Call(j).on))
           /\ \A k \in Jobs \ {j} : Shown(job[k], job'[k], CalendarsOf(Call(j).on))
    BY <1>3, LoadIntegrationGoes
  <2>2. PICK cs \in SUBSET Calendars : cs = CalendarsOf(Call(j).on)
    BY DEF CalendarsOf
  <2>3. (job'[j] = Idle /\ Others(j)) \/ Touching(j, cs)
    BY <2>1, <2>2 DEF Touching
  <2> QED  BY <2>3, IdleTame, OthersTame
<1>4. CASE Fetch(j)
  <2>1. /\ job'[j].touched = {job'[j].cal} /\ job'[j].shared = Both(j, {job'[j].cal})
        /\ \A k \in Jobs \ {j} : Shown(job[k], job'[k], {job'[j].cal})
        /\ job'[j].cal \in Fetched(j)
    BY <1>4, FetchGoes
  <2>2. PICK cs \in SUBSET Calendars : cs = {job'[j].cal}
    BY <2>1 DEF Fetched, CalendarsOf
  <2>3. Touching(j, cs)
    BY <2>1, <2>2 DEF Touching
  <2> QED  BY <2>3
<1> QED  BY <1>1, <1>2, <1>3, <1>4 DEF TouchStep

LEMMA StepTame ==
    ASSUME CoreInv, NEW j \in Jobs, Step(j), ~TouchStep(j)
    PROVE  \A k \in Jobs : Tame(k)
<1>1. CASE CheckStatus(j)
  <2>1. Others(j) /\ (job'[j] = Idle \/ Moved(j, job[j], job'[j], "load"))
    BY <1>1, CheckStatusGoes
  <2> QED  BY <2>1, IdleTame, MovedTame, OthersTame
<1>2. CASE NextCalendar(j)
  <2>1. /\ Unmoved(j)
        /\ \/ Moved(j, job[j], job'[j], "commit")
           \/ job'[j].touched = job[j].touched /\ job'[j].shared = job[j].shared
    BY <1>2, NextCalendarGoes
  <2> QED  BY <2>1, MovedTame, UnmovedTame DEF Tame
<1>3. CASE List(j) \/ Compare(j) \/ LookForOutbound(j)
  <2>1. Unmoved(j) /\ Agree(job[j], job'[j])
    BY <1>3, ListGoes, CompareGoes, LookForOutboundGoes
  <2>2. Tame(j)
    BY <2>1 DEF Agree, Tame
  <2> QED  BY <2>1, <2>2, UnmovedTame
<1>4. CASE LoadDetails(j)
  <2>1. Unmoved(j) /\ job'[j].touched = job[j].touched /\ job'[j].shared = job[j].shared
    BY <1>4, LoadDetailsGoes
  <2> QED  BY <2>1, UnmovedTame DEF Tame
<1>5. CASE Known(j)
  <2>1. Unmoved(j) /\ \E n \in {"stop", "set"} : Moved(j, job[j], job'[j], n)
    BY <1>5, KnownGoes
  <2> QED  BY <2>1, MovedTame, UnmovedTame
<1>6. CASE (\E s \in Plain : Doing(j, s) /\ Advance(j)) /\ calls' = calls
  <2>1. Unmoved(j) /\ (job'[j] = Idle \/ \E n : Moved(j, job[j], job'[j], n))
    BY <1>6, PlainGoes
  <2> QED  BY <2>1, IdleTame, MovedTame, UnmovedTame
<1>7. CASE End(j)
  <2>1. job'[j] = Idle /\ Unmoved(j)
    BY <1>7, EndGoes DEF Unmoved
  <2> QED  BY <2>1, IdleTame, UnmovedTame
<1>8. CASE CommitNotice(j) \/ CommitPatch(j) \/ CommitIntegrate(j) \/ CommitRemove(j)
  <2>1. Doing(j, "commit") /\ (Advance(j) \/ End(j)) /\ calls' = calls
    BY <1>8 DEF CommitNotice, CommitPatch, CommitIntegrate, CommitRemove, RollBack
  <2> QED  BY <1>6, <1>7, <2>1 DEF Plain
<1>9. CASE Stop(j) \/ Forget(j) \/ SetStatus(j) \/ Note(j) \/ ForgetAll(j) \/ Exists(j)
  <2>1. /\ \E s \in {"stop", "forget", "set", "note", "forgetAll", "exists"} : Doing(j, s)
        /\ Advance(j) \/ End(j)
        /\ calls' = calls
    BY <1>9 DEF Stop, Forget, SetStatus, Note, ForgetAll, Exists, RollBack
  <2> QED  BY <1>6, <1>7, <2>1 DEF Plain
<1>10. CASE Watch(j)
  <2>1. Doing(j, "watch") /\ (SkipSubscribing(j) \/ Advance(j)) /\ calls' = calls
    BY <1>10 DEF Watch
  <2>2. CASE SkipSubscribing(j)
    <3>1. Unmoved(j) /\ \E n \in {"next", "commit"} : Moved(j, job[j], job'[j], n)
      BY <2>1, <2>2, SkipSubscribingGoes
    <3> QED  BY <3>1, MovedTame, UnmovedTame
  <2> QED  BY <1>6, <2>1, <2>2 DEF Plain
<1> QED  BY <1>1, <1>2, <1>3, <1>4, <1>5, <1>8, <1>9, <1>10 DEF Step, TouchStep

LEMMA OtherTame ==
    ASSUME CoreInv, Next, \A j \in Jobs : ~Step(j)
    PROVE  \A k \in Jobs : Tame(k)
<1>1. ASSUME NEW c \in Calendars, NEW e \in Events, AddEvent(c, e) \/ Book(e, c) \/ RemoveEvent(c, e)
      PROVE  \A k \in Jobs : Tame(k)
  <2>1. Announced(c) /\ calls' = calls
    BY <1>1 DEF AddEvent, Book, RemoveEvent, Put
  <2> QED  BY <2>1, AnnouncedGoes, KinTame
<1>2. ASSUME NEW h \in Handlers, NEW c \in Calendars, Deliver(h, c)
      PROVE  \A k \in Jobs : Tame(k)
  <2>1. Unmoved(h) /\ h \in Jobs /\ Begun(h, job'[h], "notice", "status")
    BY <1>2, DeliverGoes
  <2> QED  BY <2>1, UnmovedTame DEF Tame, Begun
<1>3. ASSUME NEW r \in Requests, NEW call \in Calls, Start(r, call), NEW k \in Jobs
      PROVE  Tame(k)
  <2>1. CASE k \in Handlers \/ k[1] # r
    BY <1>3, <2>1, StartGoes DEF Tame
  <2>2. CASE k \notin Handlers /\ k[1] = r
    <3>1. PICK v \in Vendors : k = <<r, v>>
      BY <2>2 DEF Jobs
    <3>2. \/ Begun(<<r, v>>, job'[<<r, v>>], call.op, FirstStep(call.op, v))
          \/ job'[<<r, v>>] = Idle
      BY <1>3, StartGoes
    <3> QED  BY <3>1, <3>2, IdleTame DEF Begun, Tame
  <2> QED  BY <2>1, <2>2
<1>4. ASSUME NEW j \in Jobs, Fail(j) PROVE \A k \in Jobs : Tame(k)
  <2>1. /\ Unmoved(j)
        /\ job'[j] = Idle \/ \E n \in {"next", "commit"} : Moved(j, job[j], job'[j], n)
    BY <1>4, FailGoes
  <2> QED  BY <2>1, IdleTame, MovedTame, UnmovedTame
<1> QED  BY <1>1, <1>2, <1>3, <1>4 DEF Next

LEMMA PairsKept == ASSUME CoreInv, PairsInv, Next PROVE PairsInv'
<1>1. CASE \A k \in Jobs : Tame(k)
  <2> SUFFICES ASSUME NEW j \in Jobs, NEW k \in Jobs, j # k, NEW c,
                      c \in job'[j].touched, c \in job'[k].touched
               PROVE  c \in job'[j].shared
    BY DEF PairsInv
  <2>1. c \in job[j].touched /\ c \in job[k].touched /\ job[j].shared \subseteq job'[j].shared
    BY <1>1 DEF Tame
  <2> QED  BY <2>1 DEF PairsInv
<1>2. ASSUME NEW j \in Jobs, NEW cs \in SUBSET Calendars, Touching(j, cs) PROVE PairsInv'
  <2> SUFFICES ASSUME NEW k \in Jobs, NEW l \in Jobs, k # l, NEW c,
                      c \in job'[k].touched, c \in job'[l].touched
               PROVE  c \in job'[k].shared
    BY DEF PairsInv
  <2>1. \A i \in Jobs \ {j} : /\ job'[i].touched = job[i].touched
                              /\ job[i].shared \subseteq job'[i].shared
                              /\ i \in InFlight => cs \cap job[i].touched \subseteq job'[i].shared
    BY <1>2 DEF Touching, Shown, Kin, InFlight
  <2>2. \A i \in Jobs : job[i].touched # {} => i \in InFlight
    BY IdleType DEF InFlight, CoreInv, HandlersInv
  <2>3. CASE k = j
    <3>1. l \in InFlight \ {j} /\ c \in job[l].touched /\ c \in cs
      BY <1>2, <2>1, <2>2, <2>3 DEF Touching
    <3> QED  BY <1>2, <2>3, <3>1 DEF Touching, Both
  <2>4. CASE k # j /\ l = j
    BY <1>2, <2>1, <2>2, <2>4 DEF Touching
  <2>5. CASE k # j /\ l # j
    BY <2>1, <2>5 DEF PairsInv
  <2> QED  BY <2>3, <2>4, <2>5
<1>3. ASSUME NEW j \in Jobs, Step(j) PROVE PairsInv'
  BY <1>1, <1>2, <1>3, TouchSteps, StepTame
<1> QED  BY <1>1, <1>3, OtherTame

-----------------------------------------------------------------------------
(* Who acts: a handler goes on by itself; what others do only shows in it.    *)
KeepsJob(k) == Kin(job[k], job'[k]) /\ (k \notin Handlers => Call(k)' = Call(k))
Acts(k) ==
    \/ Step(k) \/ Fail(k)
    \/ k \in Handlers /\ \E c \in Calendars : Deliver(k, c)
    \/ k \notin Handlers /\ \E call \in Calls : Start(k[1], call)

LEMMA StepCalls ==
    ASSUME NEW j, Step(j) \/ Fail(j) PROVE calls' = calls
BY DEF Step, List, Compare, CheckStatus, LoadCalendar, CommitNotice, Owner, NextCalendar,
       CommitPatch, Known, Stop, Forget, SetStatus, Watch, Note, Exists, Fetch,
       LookForOutbound, CommitIntegrate, LoadIntegration, ForgetAll, LoadDetails,
       CommitRemove, Fail

(* What a step leaves of the handler that takes it.                           *)
Leaves(j) ==
    /\ Others(j)
    /\ job'[j] = Idle \/ (job'[j].todo # <<>> /\ job'[j].op = job[j].op /\ job[j].todo # <<>>)

LEMMA StepLeaves == ASSUME CoreInv, NEW j \in Jobs, Step(j) \/ Fail(j) PROVE Leaves(j)
<1>0. job[j] \in JobType /\ calls' = calls
  BY StepCalls DEF CoreInv, TypeOK
<1>1. ASSUME NEW n, Unmoved(j), Moved(j, job[j], job'[j], n), job[j].todo # <<>> PROVE Leaves(j)
  BY <1>1, SameOthers DEF Leaves, Unmoved, Moved
<1>2. ASSUME Unmoved(j), job'[j] = Idle PROVE Leaves(j)
  BY <1>2, SameOthers DEF Leaves, Unmoved
<1>3. CASE CheckStatus(j)
  BY <1>3, CheckStatusGoes DEF Leaves, Moved, Doing
<1>4. CASE LoadCalendar(j)
  <2>1. PICK p : p = With(job[j], {Cal(j)}, Both(j, {Cal(j)}))
    OBVIOUS
  <2>2. /\ Others(j) /\ job[j].todo # <<>> /\ Cal(j) \in Calendars
        /\ job'[j] = Idle \/ Moved(j, p, job'[j], "list")
    BY <1>4, <2>1, LoadCalendarGoes DEF Doing
  <2>3. p.op = job[j].op
    <3>1. PICK cs \in SUBSET Calendars : cs = {Cal(j)}
      BY <2>2
    <3>2. Joined(j, job[j], cs, p)
      BY <1>0, <2>1, <3>1, WithAll
    <3> QED  BY <3>2 DEF Joined
  <2> QED  BY <2>2, <2>3 DEF Leaves, Moved
<1>5. CASE Owner(j)
  BY <1>5, OwnerGoes DEF Leaves, OnTo, Doing
<1>6. CASE LoadIntegration(j)
  BY <1>6, LoadIntegrationGoes DEF Leaves, OnTo, Doing
<1>7. CASE Fetch(j)
  BY <1>7, FetchGoes DEF Leaves, OnTo, Doing
<1>8. CASE List(j) \/ Compare(j) \/ LookForOutbound(j)
  <2>1. Unmoved(j) /\ Agree(job[j], job'[j]) /\ \E n : OnTo(j, n)
    BY <1>8, ListGoes, CompareGoes, LookForOutboundGoes
  <2>2. job[j].todo # <<>>
    BY <1>8 DEF List, Compare, LookForOutbound, Doing
  <2> QED  BY <2>1, <2>2, SameOthers DEF Leaves, Unmoved, Agree, OnTo
<1>9. CASE NextCalendar(j) \/ LoadDetails(j)
  <2>1. Unmoved(j) /\ (\E n : OnTo(j, n)) /\ job[j].todo # <<>> /\ job'[j].op = job[j].op
    BY <1>9, NextCalendarGoes, LoadDetailsGoes DEF Doing, Moved
  <2> QED  BY <2>1, SameOthers DEF Leaves, Unmoved, OnTo
<1>10. CASE Known(j)
  <2>1. Unmoved(j) /\ job[j].todo # <<>> /\ \E n \in {"stop", "set"} : Moved(j, job[j], job'[j], n)
    BY <1>10, KnownGoes DEF Doing
  <2> QED  BY <2>1, <1>1
<1>11. CASE \E s \in Plain : Doing(j, s) /\ Advance(j)
  <2>1. Unmoved(j) /\ job[j].todo # <<>> /\ (job'[j] = Idle \/ \E n : Moved(j, job[j], job'[j], n))
    BY <1>0, <1>11, PlainGoes DEF Doing
  <2> QED  BY <2>1, <1>1, <1>2
<1>12. CASE End(j)
  <2>1. job'[j] = Idle /\ Unmoved(j)
    BY <1>12, EndGoes DEF Unmoved
  <2> QED  BY <2>1, <1>2
<1>13. CASE CommitNotice(j) \/ CommitPatch(j) \/ CommitIntegrate(j) \/ CommitRemove(j)
  <2>1. Doing(j, "commit") /\ (Advance(j) \/ End(j))
    BY <1>13 DEF CommitNotice, CommitPatch, CommitIntegrate, CommitRemove, RollBack
  <2> QED  BY <1>11, <1>12, <2>1 DEF Plain
<1>14. CASE Stop(j) \/ Forget(j) \/ SetStatus(j) \/ Note(j) \/ ForgetAll(j) \/ Exists(j)
  <2>1. /\ \E s \in {"stop", "forget", "set", "note", "forgetAll", "exists"} : Doing(j, s)
        /\ Advance(j) \/ End(j)
    BY <1>14 DEF Stop, Forget, SetStatus, Note, ForgetAll, Exists, RollBack
  <2> QED  BY <1>11, <1>12, <2>1 DEF Plain
<1>15. CASE Watch(j)
  <2>1. Doing(j, "watch") /\ (SkipSubscribing(j) \/ Advance(j))
    BY <1>15 DEF Watch
  <2>2. CASE SkipSubscribing(j)
    <3>1. Unmoved(j) /\ \E n \in {"next", "commit"} : Moved(j, job[j], job'[j], n)
      BY <1>0, <2>1, <2>2, SkipSubscribingGoes
    <3> QED  BY <2>1, <3>1, <1>1 DEF Doing
  <2> QED  BY <1>11, <2>1, <2>2 DEF Plain
<1>16. CASE Fail(j)
  <2>1. /\ Unmoved(j) /\ job[j].todo # <<>>
        /\ job'[j] = Idle \/ \E n \in {"next", "commit"} : Moved(j, job[j], job'[j], n)
    BY <1>16, FailGoes
  <2> QED  BY <2>1, <1>1, <1>2
<1> QED  BY <1>3, <1>4, <1>5, <1>6, <1>7, <1>8, <1>9, <1>10, <1>13, <1>14, <1>15, <1>16 DEF Step

LEMMA WhoActs == ASSUME CoreInv, Next, NEW k \in Jobs PROVE KeepsJob(k) \/ Acts(k)
<1>1. ASSUME NEW c \in Calendars, NEW e \in Events, AddEvent(c, e) \/ Book(e, c) \/ RemoveEvent(c, e)
      PROVE  KeepsJob(k)
  <2>1. Announced(c) /\ calls' = calls
    BY <1>1 DEF AddEvent, Book, RemoveEvent, Put
  <2> QED  BY <2>1, AnnouncedGoes DEF KeepsJob, Call
<1>2. ASSUME NEW h \in Handlers, NEW c \in Calendars, Deliver(h, c)
      PROVE  KeepsJob(k) \/ Acts(k)
  <2>1. Unmoved(h) /\ h \in Jobs /\ calls' = calls
    BY <1>2, DeliverGoes DEF Deliver
  <2>2. CASE k = h
    BY <1>2, <2>2 DEF Acts
  <2>3. CASE k # h
    <3>1. job'[k] = job[k] /\ job[k] \in JobType
      BY <2>1, <2>3 DEF Unmoved, CoreInv, TypeOK
    <3> QED  BY <2>1, <3>1, KinSelf DEF KeepsJob, Call
  <2> QED  BY <2>2, <2>3
<1>3. ASSUME NEW r \in Requests, NEW call \in Calls, Start(r, call)
      PROVE  KeepsJob(k) \/ Acts(k)
  <2>1. CASE k \in Handlers \/ k[1] # r
    <3>1. job'[k] = job[k] /\ job[k] \in JobType /\ (k \notin Handlers => Call(k)' = Call(k))
      BY <1>3, <2>1, StartGoes DEF CoreInv, TypeOK
    <3> QED  BY <3>1, KinSelf DEF KeepsJob
  <2>2. CASE k \notin Handlers /\ k[1] = r
    BY <1>3, <2>2 DEF Acts
  <2> QED  BY <2>1, <2>2
<1>4. ASSUME NEW j \in Jobs, Step(j) \/ Fail(j) PROVE KeepsJob(k) \/ Acts(k)
  <2>1. CASE k = j
    BY <1>4, <2>1 DEF Acts
  <2>2. CASE k # j
    <3>1. Kin(job[k], job'[k]) /\ calls' = calls
      BY <1>4, <2>2, StepLeaves, StepCalls DEF Leaves, Others
    <3> QED  BY <3>1 DEF KeepsJob, Call
  <2> QED  BY <2>1, <2>2
<1> QED  BY <1>1, <1>2, <1>3, <1>4 DEF Next

(* No integration is asked for twice.                                        *)
CallsInv ==
    \A r \in Requests, o \in Requests :
        r # o /\ calls[r] \in Calls /\ calls[o] \in Calls
              /\ calls[r].op = "integrate" /\ calls[o].op = "integrate"
        => calls[r].on # calls[o].on

LEMMA SameCall ==
    ASSUME NEW a \in Calls, NEW b \in Calls, a.op = "integrate", b.op = "integrate", a.on = b.on
    PROVE  a = b
<1>1. /\ a \in [op : {"integrate", "remove"}, on : Integrations]
      /\ b \in [op : {"integrate", "remove"}, on : Integrations]
  BY CalendarSyncAssumption
<1> QED  BY <1>1

LEMMA CallsKept == ASSUME CoreInv, CallsInv, Next PROVE CallsInv'
<1>1. CASE calls' = calls
  BY <1>1 DEF CallsInv
<1>2. ASSUME NEW r \in Requests, NEW call \in Calls, Start(r, call) PROVE CallsInv'
  <2>1. /\ calls' = [calls EXCEPT ![r] = call]
        /\ call.op = "integrate" => \A o \in Requests : calls[o] # call
    BY <1>2 DEF Start
  <2>2. calls \in [Requests -> Calls \cup {NoCall}]
    BY DEF CoreInv, TypeOK
  <2>3. calls'[r] = call /\ \A o \in Requests \ {r} : calls'[o] = calls[o]
    BY <2>1, <2>2
  <2>4. ASSUME NEW a \in Requests, NEW b \in Requests, a # b,
               calls'[a] \in Calls, calls'[b] \in Calls,
               calls'[a].op = "integrate", calls'[b].op = "integrate",
               calls'[a].on = calls'[b].on
        PROVE  FALSE
    <3>1. calls'[a] = calls'[b]
      BY <2>4, SameCall
    <3>2. CASE a = r
      BY <2>1, <2>3, <2>4, <3>1, <3>2
    <3>3. CASE b = r
      BY <2>1, <2>3, <2>4, <3>1, <3>3
    <3>4. CASE a # r /\ b # r
      BY <2>3, <2>4, <3>4 DEF CallsInv
    <3> QED  BY <3>2, <3>3, <3>4
  <2> QED  BY <2>4 DEF CallsInv
<1>3. ASSUME NEW j \in Jobs, Step(j) \/ Fail(j) PROVE calls' = calls
  BY <1>3, StepCalls
<1> QED  BY <1>1, <1>2, <1>3 DEF Next, AddEvent, Book, RemoveEvent, Put, Deliver

LEMMA OneIntegrates ==
    ASSUME CoreInv, CallsInv, NEW j \in Jobs, NEW k \in Jobs, j # k,
           job[j].todo # <<>>, job[j].op = "integrate",
           job[k].todo # <<>>, job[k].op = "integrate", NEW c,
           c \in CalendarsOf(Call(j).on), c \in CalendarsOf(Call(k).on)
    PROVE  FALSE
<1>1. /\ j \notin Handlers /\ Call(j) \in Calls /\ V(j) = VendorOf(j) /\ Vendor[c] = V(j)
      /\ k \notin Handlers /\ Call(k) \in Calls /\ V(k) = VendorOf(k) /\ Vendor[c] = V(k)
  BY OfIntegrations
<1>2. Call(j).op = "integrate" /\ Call(k).op = "integrate" /\ Call(j).on = Call(k).on
  BY OfRequests DEF CalendarsOf
<1>3. j[2] = k[2]
  BY <1>1 DEF VendorOf
<1>4. PICK r \in Requests, o \in Requests, v \in Vendors, w \in Vendors : j = <<r, v>> /\ k = <<o, w>>
  BY <1>1 DEF Jobs
<1>5. r # o
  BY <1>3, <1>4
<1> QED  BY <1>1, <1>2, <1>4, <1>5 DEF CallsInv, Call

(* Which rows of calendars come about: only an integration makes any.         *)
LEMMA NewRows ==
    ASSUME CoreInv, Next, NEW c \in Calendars, ~IsRow(c), IsRow(c)'
    PROVE  \E j \in Jobs : CommitIntegrate(j) /\ c \in CalendarsOf(Call(j).on)
<1>1. ~(calendars' = calendars)
  BY DEF IsRow
<1>2. PICK j \in Jobs : RowsChanged(j)
  BY <1>1, RowsChange
<1>3. ~NoticeCommits(j)
  BY <1>1 DEF NoticeCommits
<1>4. ASSUME PatchCommits(j) PROVE FALSE
  <2>1. /\ calendars' = Settings(j) /\ \A d \in job[j].touched : IsRow(d)
        /\ Doing(j, "commit") /\ job[j].op = "patch"
    BY <1>4 DEF PatchCommits, CommitPatch
  <2>2. Named(j) \subseteq job[j].touched
    <3>1. job[j].todo # <<>> /\ Now(job[j]) = "commit"
      BY <2>1, DoingIs
    <3>2. Placed(j, job[j], Call(j), "commit") /\ Named(j) = NamedBy(j, Call(j))
      BY <2>1, <3>1, StepFacts, OfPatches
    <3> QED  BY <2>1, <3>2 DEF Placed, Early
  <2>3. c \notin Named(j) /\ c \notin Mine(j)
    BY <2>1, <2>2 DEF Mine
  <2>4. calendars'[c] = calendars[c]
    BY <2>1, <2>3 DEF Settings
  <2> QED  BY <2>4 DEF IsRow
<1>5. ASSUME CommitRemove(j) PROVE FALSE
  BY <1>5 DEF CommitRemove, IsRow, NoRow
<1>6. ASSUME CommitIntegrate(j), c \notin CalendarsOf(Call(j).on) PROVE FALSE
  BY <1>6 DEF CommitIntegrate, IsRow
<1> QED  BY <1>2, <1>3, <1>4, <1>5, <1>6 DEF RowsChanged

IntegrationInv(k) ==
    job[k].todo # <<>> /\ job[k].op = "integrate" /\ Now(job[k]) # "exists" =>
        \A c \in CalendarsOf(Call(k).on) : ~IsRow(c)

LEMMA IntegrationKept ==
    ASSUME CoreInv, CallsInv, NEW k \in Jobs, IntegrationInv(k), Next
    PROVE  IntegrationInv(k)'
<1> SUFFICES ASSUME job'[k].todo # <<>>, job'[k].op = "integrate", Now(job'[k]) # "exists",
                    NEW c, c \in CalendarsOf(Call(k)'.on)
             PROVE  ~IsRow(c)'
  BY DEF IntegrationInv, CalendarsOf
<1>1. c \in Calendars /\ job'[k] # Idle
  BY IdleType DEF CalendarsOf
<1>2. ASSUME job[k].todo # <<>>, job[k].op = "integrate", ~IsRow(c), Call(k)' = Call(k)
      PROVE  ~IsRow(c)'
  <2>1. SUFFICES ASSUME IsRow(c)' PROVE FALSE
    OBVIOUS
  <2>2. PICK j \in Jobs : CommitIntegrate(j) /\ c \in CalendarsOf(Call(j).on)
    BY <1>1, <1>2, <2>1, NewRows
  <2>3. job[j].todo # <<>> /\ job[j].op = "integrate"
    BY <2>2 DEF CommitIntegrate, Doing
  <2>4. c \in CalendarsOf(Call(k).on)
    BY <1>2
  <2>5. k = j
    BY <1>2, <2>2, <2>3, <2>4, OneIntegrates
  <2>6. Doing(j, "commit") /\ Advance(j) /\ calls' = calls
    BY <2>2 DEF CommitIntegrate
  <2>7. job'[j] = Idle
    BY <2>6, PlainGoes DEF Plain
  <2> QED  BY <1>1, <2>5, <2>7
<1>3. CASE KeepsJob(k)
  <2>1. job[k].todo # <<>> /\ job[k].op = "integrate" /\ Now(job[k]) # "exists"
    BY <1>3 DEF KeepsJob, Kin, Now
  <2>2. Call(k)' = Call(k)
    BY <1>3, <2>1, OfRequests DEF KeepsJob
  <2> QED  BY <1>2, <2>1, <2>2 DEF IntegrationInv
<1>4. CASE Step(k) \/ Fail(k)
  <2>1. job[k].todo # <<>> /\ job[k].op = "integrate"
    BY <1>1, <1>4, StepLeaves DEF Leaves
  <2>2. Call(k)' = Call(k)
    BY <1>4, StepCalls DEF Call
  <2>3. CASE Now(job[k]) # "exists"
    BY <1>2, <2>1, <2>2, <2>3 DEF IntegrationInv
  <2>4. CASE Now(job[k]) = "exists"
    <3>1. \A s : Doing(k, s) => s = "exists"
      BY <2>4, DoingIs
    <3>2. CASE Fail(k)
      BY <1>1, <3>1, <3>2, FailGoes
    <3>3. CASE Step(k)
      <4>1. Exists(k)
        BY <3>1, <3>3 DEF Step, List, Compare, CheckStatus, LoadCalendar, CommitNotice, Owner,
           NextCalendar, CommitPatch, Known, Stop, Forget, SetStatus, Watch, Note, Fetch,
           LookForOutbound, CommitIntegrate, LoadIntegration, ForgetAll, LoadDetails,
           CommitRemove
      <4>2. ~\E d \in CalendarsOf(Call(k).on) : IsRow(d)
        BY <1>1, <4>1, EndGoes DEF Exists
      <4> QED  BY <1>2, <2>1, <2>2, <4>2
    <3> QED  BY <1>4, <3>2, <3>3
  <2> QED  BY <2>3, <2>4
<1>5. ASSUME k \in Handlers, NEW d \in Calendars, Deliver(k, d) PROVE FALSE
  <2>1. job'[k].op = "notice"
    BY <1>5, DeliverGoes DEF Begun
  <2> QED  BY <2>1
<1>6. ASSUME k \notin Handlers, NEW call \in Calls, Start(k[1], call) PROVE ~IsRow(c)'
  <2>1. PICK r \in Requests, v \in Vendors : k = <<r, v>>
    BY <1>6 DEF Jobs
  <2>2. Start(r, call)
    BY <1>6, <2>1
  <2>3. /\ v \in Branches(call) /\ job'[k].op = call.op /\ Call(k)' = call
        /\ Now(job'[k]) = FirstStep(call.op, v)
    BY <1>1, <2>1, <2>2, StartGoes DEF Begun
  <2>4. call.op = "integrate" /\ v = "google"
    BY <2>3 DEF FirstStep, Vendors
  <2>5. Vendor[c] = "google"
    <3>1. PICK d \in CalendarsOf(call.on) : Vendor[d] = "google"
      BY <2>3, <2>4 DEF Branches
    <3> QED  BY <2>3, <3>1, CalendarSyncAssumption DEF CalendarsOf
  <2>6. ~IsRow(c) /\ calendars' = calendars
    BY <2>2, <2>3, <2>4, <2>5 DEF Start, store
  <2> QED  BY <2>6 DEF IsRow
<1> QED  BY <1>3, <1>4, <1>5, <1>6, WhoActs DEF Acts

(* A calendar without a row has no rows of events.                            *)
NoRowInv == \A c \in Calendars, e \in Events : ~IsRow(c) => rows[c][e] = 0

LEMMA NoRowKept == ASSUME CoreInv, NoRowInv, Next PROVE NoRowInv'
<1>0. rows \in [Calendars -> [Events -> 0..2]]
  BY DEF CoreInv, TypeOK
<1>1. CASE UNCHANGED <<calendars, rows>>
  BY <1>1 DEF NoRowInv, IsRow
<1>2. ASSUME NEW j \in Jobs, RowsChanged(j), NEW c \in Calendars, NEW e \in Events, ~IsRow(c)'
      PROVE  rows'[c][e] = 0
  <2>1. job[j].todo # <<>>
    BY <1>2 DEF RowsChanged, NoticeCommits, PatchCommits, CommitNotice, CommitPatch,
                CommitIntegrate, CommitRemove, Doing
  <2>2. Doing(j, "commit") /\ Now(job[j]) = "commit"
    BY <1>2, DoingIs DEF RowsChanged, NoticeCommits, PatchCommits, CommitNotice, CommitPatch,
                CommitIntegrate, CommitRemove
  <2>3. Placed(j, job[j], Call(j), "commit") /\ Kept(job[j], "commit")
    BY <2>1, <2>2, StepFacts
  <2>4. c \notin job[j].touched => <<c, e>> \notin job[j].fresh
    BY <2>3 DEF Kept
  <2>5. CASE NoticeCommits(j)
    <3>1. job[j].op = "notice" /\ IsRow(Cal(j)) /\ calendars' = calendars /\ rows' = Synchronized(j, rows)
      BY <2>5 DEF NoticeCommits, CommitNotice
    <3>2. ~IsRow(c) /\ c # Cal(j)
      BY <1>2, <3>1 DEF IsRow
    <3>3. <<c, e>> \notin job[j].fresh
      BY <2>3, <2>4, <3>1, <3>2 DEF Placed, Early, Cal
    <3>4. rows[c][e] = 0
      BY <3>2 DEF NoRowInv
    <3>5. ~(rows'[c][e] > 0)
      BY <1>0, <3>1, <3>3, <3>4, SynchronizedIs
    <3>6. rows'[c][e] \in 0..2
      BY <1>0, <3>1, SynchronizedType
    <3> QED  BY <3>5, <3>6
  <2>6. CASE PatchCommits(j)
    <3>1. /\ rows' = Synchronized(j, RowsLeft(j)) /\ \A d \in job[j].touched : IsRow(d)
          /\ RowsLeft(j) \in [Calendars -> [Events -> 0..2]]
          /\ calendars' = Settings(j)
      BY <2>6, RowsLeftIs DEF PatchCommits
    <3>2. ~IsRow(c)
      BY <1>2, <3>1 DEF IsRow, Settings, Row, Mine
    <3>3. <<c, e>> \notin job[j].fresh
      BY <2>4, <3>1, <3>2
    <3>4. RowsLeft(j)[c][e] = 0
      <4>1. rows[c][e] = 0
        BY <3>2 DEF NoRowInv
      <4> QED  BY <4>1, RowsLeftIs
    <3>5. ~(rows'[c][e] > 0)
      BY <3>1, <3>3, <3>4, SynchronizedIs
    <3>6. rows'[c][e] \in 0..2
      BY <3>1, SynchronizedType
    <3> QED  BY <3>5, <3>6
  <2>7. CASE CommitIntegrate(j)
    <3>1. /\ rows' = Synchronized(j, rows) /\ job[j].op = "integrate"
          /\ calendars' = [d \in Calendars |->
                IF d \in CalendarsOf(Call(j).on) THEN NewSetting(j, d) ELSE calendars[d]]
      BY <2>7 DEF CommitIntegrate
    <3>2. ~IsRow(c) /\ c \notin CalendarsOf(Call(j).on)
      <4>1. NewSetting(j, c).row = TRUE
        BY DEF NewSetting, Row
      <4> QED  BY <1>2, <3>1, <4>1 DEF IsRow
    <3>3. <<c, e>> \notin job[j].fresh
      BY <2>3, <2>4, <3>1, <3>2 DEF Placed, Early
    <3>4. rows[c][e] = 0
      BY <3>2 DEF NoRowInv
    <3>5. ~(rows'[c][e] > 0)
      BY <1>0, <3>1, <3>3, <3>4, SynchronizedIs
    <3>6. rows'[c][e] \in 0..2
      BY <1>0, <3>1, SynchronizedType
    <3> QED  BY <3>5, <3>6
  <2>8. CASE CommitRemove(j)
    <3>1. /\ rows'[c] = IF c \in CalendarsOf(Call(j).on) THEN [d \in Events |-> 0] ELSE rows[c]
          /\ calendars'[c] = IF c \in CalendarsOf(Call(j).on) THEN NoRow ELSE calendars[c]
      BY <2>8 DEF CommitRemove
    <3>2. CASE c \in CalendarsOf(Call(j).on)
      BY <3>1, <3>2
    <3>3. CASE c \notin CalendarsOf(Call(j).on)
      BY <1>2, <3>1, <3>3 DEF IsRow, NoRowInv
    <3> QED  BY <3>2, <3>3
  <2> QED  BY <1>2, <2>5, <2>6, <2>7, <2>8 DEF RowsChanged
<1> QED  BY <1>1, <1>2, RowsChange DEF NoRowInv

(* What a handler saves has no row yet, unless another one works on the       *)
(* calendar too, or the rows are deleted in the same transaction.             *)
FreshInv(k) ==
    \A c \in Calendars, e \in Events : <<c, e>> \in job[k].fresh =>
        c \in job[k].shared \/ rows[c][e] = 0 \/ (job[k].op = "patch" /\ c \in Asked(k, FALSE))
RowInv ==
    /\ PairsInv /\ CallsInv /\ NoRowInv
    /\ \A k \in Jobs : IntegrationInv(k) /\ FreshInv(k)
    /\ OneRowPerEvent

LEMMA Committing ==
    ASSUME CoreInv, NEW j \in Jobs, RowsChanged(j)
    PROVE  /\ Doing(j, "commit") /\ job[j].todo # <<>> /\ Now(job[j]) = "commit"
           /\ Kept(job[j], "commit") /\ Placed(j, job[j], Call(j), "commit")
           /\ job'[j] = Idle /\ Unmoved(j) /\ calls' = calls /\ Observe(j)
<1>1. Doing(j, "commit") /\ calls' = calls /\ Advance(j) /\ Observe(j)
  BY DEF RowsChanged, NoticeCommits, PatchCommits, CommitNotice, CommitPatch,
         CommitIntegrate, CommitRemove, RollBack, Advance, End, After
<1>2. job[j].todo # <<>> /\ Now(job[j]) = "commit"
  BY <1>1, DoingIs
<1>3. job'[j] = Idle /\ Unmoved(j)
  BY <1>1, PlainGoes DEF Plain
<1> QED  BY <1>1, <1>2, <1>3, StepFacts

LEMMA RowsAfter ==
    ASSUME CoreInv, NEW j \in Jobs, RowsChanged(j), NEW c \in Calendars, NEW e \in Events
    PROVE  \/ rows'[c][e] = 0
           \/ rows'[c][e] = rows[c][e]
           \/ /\ <<c, e>> \in job[j].fresh /\ c \in job[j].touched
              /\ rows[c][e] = 0 \/ (job[j].op = "patch" /\ c \in Asked(j, FALSE))
                    => rows'[c][e] = 1
<1>1. c \notin job[j].touched => <<c, e>> \notin job[j].fresh
  BY Committing DEF Kept
<1>2. ASSUME NEW before \in [Calendars -> [Events -> 0..2]], rows' = Synchronized(j, before),
             before[c][e] = 0 \/ before[c][e] = rows[c][e],
             rows[c][e] = 0 \/ (job[j].op = "patch" /\ c \in Asked(j, FALSE)) => before[c][e] = 0
      PROVE  \/ rows'[c][e] = 0
             \/ rows'[c][e] = rows[c][e]
             \/ /\ <<c, e>> \in job[j].fresh /\ c \in job[j].touched
                /\ rows[c][e] = 0 \/ (job[j].op = "patch" /\ c \in Asked(j, FALSE))
                      => rows'[c][e] = 1
  <2>1. CASE <<c, e>> \in job[j].obsolete
    BY <1>2, <2>1, SynchronizedIs
  <2>2. CASE <<c, e>> \notin job[j].obsolete /\ <<c, e>> \in job[j].fresh
    <3>1. before[c][e] = 0 => rows'[c][e] = 1
      BY <1>2, <2>2, SynchronizedIs
    <3> QED  BY <1>1, <1>2, <2>2, <3>1
  <2>3. CASE <<c, e>> \notin job[j].fresh \cup job[j].obsolete
    <3>1. rows'[c][e] = before[c][e]
      BY <1>2, <2>3, SynchronizedIs
    <3> QED  BY <1>2, <3>1
  <2> QED  BY <2>1, <2>2, <2>3
<1>3. CASE NoticeCommits(j) \/ CommitIntegrate(j)
  <2>1. rows' = Synchronized(j, rows) /\ rows \in [Calendars -> [Events -> 0..2]] /\ job[j].op # "patch"
    BY <1>3 DEF NoticeCommits, CommitNotice, CommitIntegrate, CoreInv, TypeOK
  <2> QED  BY <1>2, <2>1
<1>4. CASE PatchCommits(j)
  <2>1. rows' = Synchronized(j, RowsLeft(j)) /\ RowsLeft(j) \in [Calendars -> [Events -> 0..2]]
    BY <1>4, RowsLeftIs DEF PatchCommits
  <2>2. /\ c \in Asked(j, FALSE) => RowsLeft(j)[c][e] = 0
        /\ c \notin Asked(j, FALSE) => RowsLeft(j)[c][e] = rows[c][e]
    BY RowsLeftIs
  <2> QED  BY <1>2, <2>1, <2>2
<1>5. CASE CommitRemove(j)
  <2>1. rows'[c] = IF c \in CalendarsOf(Call(j).on) THEN [d \in Events |-> 0] ELSE rows[c]
    BY <1>5 DEF CommitRemove
  <2> QED  BY <2>1
<1> QED  BY <1>3, <1>4, <1>5 DEF RowsChanged

LEMMA FreshKept ==
    ASSUME CoreInv, PairsInv, NoRowInv, NEW k \in Jobs, IntegrationInv(k), FreshInv(k), Next
    PROVE  FreshInv(k)'
<1> SUFFICES ASSUME NEW c \in Calendars, NEW e \in Events, <<c, e>> \in job'[k].fresh,
                    c \notin job'[k].shared, rows'[c][e] # 0
             PROVE  job'[k].op = "patch" /\ c \in Asked(k, FALSE)'
  BY DEF FreshInv
<1>1. ASSUME job[k].touched = job'[k].touched, job[k].shared \subseteq job'[k].shared,
             <<c, e>> \in job[k].fresh
      PROVE  rows'[c][e] = rows[c][e]
  <2>1. job[k].todo # <<>> /\ c \in job[k].touched
    <3>1. job[k].todo # <<>>
      BY <1>1 DEF CoreInv, HandlersInv, Idle
    <3> QED  BY <1>1, <3>1, StepFacts DEF Kept
  <2>2. CASE rows' = rows
    BY <2>2
  <2>3. ASSUME NEW j \in Jobs, RowsChanged(j) PROVE rows'[c][e] = rows[c][e]
    <3>1. j # k
      BY <2>1, <2>3, <1>1, Committing DEF Idle
    <3>2. c \notin job[j].touched
      BY <1>1, <2>1, <3>1 DEF PairsInv
    <3> QED  BY <2>3, <3>2, RowsAfter
  <2> QED  BY <2>2, <2>3, RowsChange
<1>2. ASSUME Same(job[k], job'[k]), job'[k].op = "patch" => Asked(k, FALSE)' = Asked(k, FALSE)
      PROVE  job'[k].op = "patch" /\ c \in Asked(k, FALSE)'
  <2>1. /\ <<c, e>> \in job[k].fresh /\ job[k].touched = job'[k].touched
        /\ job[k].shared \subseteq job'[k].shared /\ job[k].op = job'[k].op
    BY <1>2 DEF Same
  <2>2. rows[c][e] # 0 /\ c \notin job[k].shared
    BY <1>1, <2>1
  <2> QED  BY <1>2, <2>1, <2>2 DEF FreshInv
<1>3. ASSUME Call(k)' = Call(k) PROVE Asked(k, FALSE)' = Asked(k, FALSE)
  BY <1>3 DEF Asked, Named, VendorOf
<1>4. Step(k) \/ Fail(k) => Call(k)' = Call(k)
  BY StepCalls DEF Call
<1>5. ASSUME Reads(k) PROVE job'[k].op = "patch" /\ c \in Asked(k, FALSE)'
  <2>1. Same(job[k], job'[k])
    BY <1>5 DEF Reads, Blank
  <2>2. <<c, e>> \in job[k].fresh /\ job[k].op = job'[k].op
    BY <2>1 DEF Same
  <2>3. job[k].todo # <<>>
    BY <2>2 DEF CoreInv, HandlersInv, Idle
  <2>4. job'[k].op = "patch" => k \notin Handlers
    BY <2>2, <2>3, OfRequests
  <2>5. job'[k].op = "patch" => Call(k)' = Call(k)
    <3>1. CASE KeepsJob(k)
      BY <2>4, <3>1 DEF KeepsJob
    <3>2. CASE Step(k) \/ Fail(k)
      BY <1>4, <3>2
    <3>3. ASSUME k \in Handlers, NEW d \in Calendars, Deliver(k, d) PROVE FALSE
      <4>1. job'[k].fresh = {}
        BY <3>3, DeliverGoes DEF Begun
      <4> QED  BY <4>1
    <3>4. ASSUME k \notin Handlers, NEW call \in Calls, Start(k[1], call) PROVE FALSE
      <4>1. PICK r \in Requests, v \in Vendors : k = <<r, v>>
        BY <3>4 DEF Jobs
      <4>2. Start(r, call)
        BY <3>4, <4>1
      <4>3. job[k] = Idle
        BY <4>1, <4>2, StartGoes
      <4> QED  BY <2>3, <4>3, IdleType
    <3> QED  BY <3>1, <3>2, <3>3, <3>4, WhoActs DEF Acts
  <2> QED  BY <1>2, <1>3, <2>1, <2>5
<1>6. CASE \A i \in Jobs : Reads(i)
  BY <1>5, <1>6
<1>7. ASSUME NEW j \in Jobs, List(j) \/ Compare(j) \/ Fetch(j)
      PROVE  job'[k].op = "patch" /\ c \in Asked(k, FALSE)'
  <2>1. rows' = rows /\ calls' = calls
    BY <1>7 DEF List, Compare, Fetch, store
  <2>2. Asked(k, FALSE)' = Asked(k, FALSE)
    BY <1>3, <2>1 DEF Call
  <2>3. CASE k # j
    <3>1. Leaves(j)
      BY <1>7, StepLeaves DEF Step
    <3>2. Reads(k)
      BY <2>3, <3>1, KinReads DEF Leaves, Others
    <3> QED  BY <1>5, <3>2
  <2>4. CASE k = j /\ List(j)
    <3>1. job'[k].fresh = job[k].fresh /\ Agree(job[k], job'[k])
      BY <2>4, ListGoes
    <3> QED  BY <2>1, <2>2, <3>1 DEF FreshInv, Agree
  <2>5. CASE k = j /\ Compare(j)
    <3>1. /\ job'[k].fresh = job[k].fresh \cup ({Cal(k)} \X Fresh(k))
          /\ Agree(job[k], job'[k])
      BY <2>5, CompareGoes
    <3>2. CASE <<c, e>> \in job[k].fresh
      BY <2>1, <2>2, <3>1, <3>2 DEF FreshInv, Agree
    <3>3. CASE c = Cal(k) /\ e \in Fresh(k)
      BY <2>1, <2>2, <3>1, <3>3 DEF Fresh, Agree
    <3> QED  BY <3>1, <3>2, <3>3
  <2>6. CASE k = j /\ Fetch(j)
    <3>1. /\ job'[k].cal \in Fetched(k) /\ Doing(k, "fetch") /\ job[k].op = "integrate"
          /\ \E page : job'[k].fresh = {job'[k].cal} \X page
      BY <2>6, FetchGoes
    <3>2. c \in CalendarsOf(Call(k).on)
      BY <3>1 DEF Fetched
    <3>3. Now(job[k]) = "fetch" /\ job[k].todo # <<>>
      BY <3>1, DoingIs
    <3>4. ~IsRow(c)
      BY <3>1, <3>2, <3>3 DEF IntegrationInv
    <3> QED  BY <2>1, <3>4 DEF NoRowInv
  <2> QED  BY <1>7, <2>3, <2>4, <2>5, <2>6
<1> QED  BY <1>6, <1>7, StepsRead

LEMMA OneRowKept == ASSUME CoreInv, RowInv, Next PROVE OneRowPerEvent'
<1> SUFFICES ASSUME NEW c \in Calendars, c \notin doubled', NEW e \in Events PROVE rows'[c][e] <= 1
  BY DEF OneRowPerEvent
<1>1. rows \in [Calendars -> [Events -> 0..2]]
  BY DEF CoreInv, TypeOK
<1>2. CASE UNCHANGED <<rows, doubled>>
  BY <1>2 DEF RowInv, OneRowPerEvent
<1>3. ASSUME NEW j \in Jobs, RowsChanged(j) PROVE rows'[c][e] <= 1
  <2>1. c \notin doubled /\ c \notin job[j].shared
    BY <1>3, Committing DEF Observe
  <2>2. rows[c][e] <= 1
    BY <2>1 DEF RowInv, OneRowPerEvent
  <2>3. <<c, e>> \in job[j].fresh =>
          rows[c][e] = 0 \/ (job[j].op = "patch" /\ c \in Asked(j, FALSE))
    BY <2>1 DEF RowInv, FreshInv
  <2>4. rows'[c][e] = 0 \/ rows'[c][e] = rows[c][e] \/ rows'[c][e] = 1
    BY <1>3, <2>3, RowsAfter
  <2> QED  BY <2>2, <2>4
<1> QED  BY <1>2, <1>3, RowsChange

(* Handlers that work on a calendar know of each other, and what they have to  *)
(* save is not saved yet.                                                     *)
THEOREM Rows == Spec => []RowInv
<1>1. Init => RowInv
  <2> SUFFICES ASSUME Init PROVE RowInv
    OBVIOUS
  <2>1. \A c \in Calendars, e \in Events :
          /\ rows[c][e] = IF calendars[c].check /\ e \in There[c] THEN 1 ELSE 0
          /\ calendars[c].check => IsRow(c)
    BY DEF Init, InitSettings, IsRow, NoRow, Row
  <2>2. \A k \in Jobs : job[k] = Idle
    BY DEF Init
  <2>6. \A k \in Jobs : /\ job[k].todo = <<>> /\ job[k].op = "none"
                        /\ job[k].touched = {} /\ job[k].fresh = {}
    BY <2>2 DEF Idle
  <2>7. PairsInv
    BY <2>6 DEF PairsInv
  <2>8. \A k \in Jobs : IntegrationInv(k)
    BY <2>6 DEF IntegrationInv
  <2>9. \A k \in Jobs : FreshInv(k)
    BY <2>6 DEF FreshInv
  <2>3. PairsInv /\ \A k \in Jobs : IntegrationInv(k) /\ FreshInv(k)
    BY <2>7, <2>8, <2>9
  <2>4. CallsInv
    BY CalendarSyncAssumption DEF Init, CallsInv
  <2>5. NoRowInv /\ OneRowPerEvent
    BY <2>1 DEF NoRowInv, OneRowPerEvent
  <2> QED  BY <2>3, <2>4, <2>5 DEF RowInv
<1>2. CoreInv /\ RowInv /\ [Next]_vars => RowInv'
  <2> SUFFICES ASSUME CoreInv, RowInv, [Next]_vars PROVE RowInv'
    OBVIOUS
  <2>1. CASE Next
    BY <2>1, PairsKept, CallsKept, NoRowKept, IntegrationKept, FreshKept, OneRowKept DEF RowInv
  <2>2. CASE UNCHANGED vars
    BY <2>2 DEF RowInv, PairsInv, CallsInv, NoRowInv, IntegrationInv, FreshInv, OneRowPerEvent,
                IsRow, Asked, Named, Call, CalendarsOf, vars, store, google, outside, seen
  <2> QED  BY <2>1, <2>2
<1> QED  BY <1>1, <1>2, Core, PTL DEF Spec

(* Notices that come twice, late or again, and requests that cross, leave one  *)
(* row of an event, unless two handlers worked on the calendar at once.        *)
THEOREM OneRow == Spec => []OneRowPerEvent
<1>1. RowInv => OneRowPerEvent
  BY DEF RowInv
<1> QED  BY <1>1, Rows, PTL

-----------------------------------------------------------------------------
(* One outbound calendar.                                                     *)
AloneOut ==
    \A c, d \in Calendars : calendars[c].outbound /\ calendars[d].outbound => c = d
Requesting(k) == k \notin Handlers /\ job[k].todo # <<>>
NoOutbound == \A c \in Calendars : ~calendars[c].outbound

(* While a request saves its settings, a calendar that is outbound is the one  *)
(* it asks for, or of a vendor it has still to save.                          *)
Settled(r, call) ==
    /\ \A c, d \in Outbound(call) : c = d
    /\ Outbound(call) = {} => AloneOut
    /\ Outbound(call) # {} => \A c \in Calendars : calendars[c].outbound =>
          c \in Outbound(call) \/ job[<<r, Vendor[c]>>].todo # <<>>
NoRowOut == \A c \in Calendars : ~IsRow(c) => ~calendars[c].outbound
OneRequest == \A j, k \in Jobs : Requesting(j) /\ Requesting(k) => j[1] = k[1]
NoPatch == \A k \in Jobs : Requesting(k) => job[k].op # "patch"
OutInv ==
    /\ OneRequest
    /\ NoPatch => AloneOut
    /\ \A k \in Jobs : Requesting(k) /\ job[k].op = "patch" => Settled(k[1], Call(k))
    /\ \A k \in Jobs : Requesting(k) /\ job[k].op = "integrate" /\ job[k].first => NoOutbound

(* A patch that ends without a failure has saved its settings.                *)
LEMMA PatchEnds ==
    ASSUME CoreInv, NEW j \in Jobs, Step(j) \/ Fail(j), job[j].op = "patch", ~split',
           job[j].todo # <<>>, job'[j].todo = <<>>
    PROVE  PatchCommits(j)
<1>1. ~RollBack(j)
  BY DEF RollBack
<1>2. PICK op \in Ops, v \in Vendors, n \in Steps \cup {"none"} :
         op = job[j].op /\ v = V(j) /\ <<Now(job[j]), n>> \in Follows[op][v]
  BY NextIs
<1>3. CASE List(j) \/ Compare(j) \/ NextCalendar(j) \/ Known(j)
  BY <1>3, ListGoes, CompareGoes, NextCalendarGoes, KnownGoes DEF OnTo
<1>4. CASE Owner(j)
  BY <1>1, <1>4, OwnerGoes DEF OnTo
<1>5. CASE Fail(j)
  BY <1>1, <1>5, FailGoes DEF OnTo
<1>6. CASE CheckStatus(j) \/ LoadCalendar(j) \/ Exists(j) \/ Fetch(j) \/ LookForOutbound(j)
           \/ LoadIntegration(j) \/ ForgetAll(j) \/ LoadDetails(j)
  <2>1. \E s \in {"status", "load", "exists", "fetch", "outbound", "integration",
                  "forgetAll", "details"} : Doing(j, s)
    BY <1>6 DEF CheckStatus, LoadCalendar, Exists, Fetch, LookForOutbound, LoadIntegration,
                ForgetAll, LoadDetails
  <2>2. Now(job[j]) \in {"status", "load", "exists", "fetch", "outbound", "integration",
                  "forgetAll", "details"}
    BY <2>1, DoingIs
  <2> QED  BY <1>2, <2>2, Table
<1>7. CASE Stop(j) \/ Forget(j) \/ SetStatus(j) \/ Note(j)
  <2>1. /\ \E s \in {"stop", "forget", "set", "note"} : Doing(j, s)
        /\ Advance(j) \/ RollBack(j)
        /\ calls' = calls
    BY <1>7 DEF Stop, Forget, SetStatus, Note
  <2> QED  BY <1>1, <2>1, PlainGoes DEF Plain, OnTo
<1>8. CASE Watch(j)
  <2>1. Doing(j, "watch") /\ (Advance(j) \/ SkipSubscribing(j)) /\ calls' = calls
    BY <1>8 DEF Watch
  <2> QED  BY <2>1, PlainGoes, SkipSubscribingGoes DEF Plain, OnTo
<1>9. CASE CommitPatch(j)
  BY <1>1, <1>9 DEF CommitPatch, PatchCommits
<1> QED  BY <1>3, <1>4, <1>5, <1>6, <1>7, <1>8, <1>9
         DEF Step, CommitNotice, CommitIntegrate, CommitRemove

(* A calendar is the first outbound one when no other is as it is looked up.   *)
LEMMA FirstIs ==
    ASSUME CoreInv, NEW j \in Jobs, Step(j) \/ Fail(j), job[j].op = "integrate",
           job[j].todo # <<>>, job'[j].todo # <<>>, job'[j].first
    PROVE  job[j].first \/ NoOutbound
<1>1. PICK op \in Ops, v \in Vendors, n \in Steps \cup {"none"} :
         op = job[j].op /\ v = V(j) /\ <<Now(job[j]), n>> \in Follows[op][v]
  BY NextIs
<1>2. job'[j] # Idle
  BY IdleType
<1>3. CASE List(j) \/ Compare(j)
  BY <1>3, ListGoes, CompareGoes
<1>4. CASE Exists(j) \/ SetStatus(j) \/ Note(j)
  <2>1. /\ \E s \in {"exists", "set", "note"} : Doing(j, s)
        /\ Advance(j) \/ job'[j] = Idle
        /\ calls' = calls
    BY <1>4, EndGoes DEF Exists, SetStatus, Note
  <2>2. \E m : Moved(j, job[j], job'[j], m)
    BY <1>2, <2>1, PlainGoes DEF Plain
  <2> QED  BY <2>2 DEF Moved
<1>5. CASE Watch(j)
  <2>1. Doing(j, "watch") /\ (Advance(j) \/ SkipSubscribing(j)) /\ calls' = calls
    BY <1>5 DEF Watch
  <2>2. \E m : Moved(j, job[j], job'[j], m)
    BY <2>1, PlainGoes, SkipSubscribingGoes DEF Plain
  <2> QED  BY <2>2 DEF Moved
<1>6. CASE Fail(j)
  BY <1>2, <1>6, FailGoes DEF Moved
<1>7. CASE Fetch(j)
  BY <1>7, FetchGoes
<1>8. CASE LookForOutbound(j)
  BY <1>8, LookForOutboundGoes DEF NoOutbound
<1>9. CASE CommitIntegrate(j)
  <2>1. Doing(j, "commit") /\ Advance(j) /\ calls' = calls
    BY <1>9 DEF CommitIntegrate
  <2> QED  BY <1>2, <2>1, PlainGoes DEF Plain
<1>10. CASE CheckStatus(j) \/ LoadCalendar(j) \/ Owner(j) \/ NextCalendar(j) \/ Known(j)
            \/ Stop(j) \/ Forget(j) \/ LoadIntegration(j) \/ ForgetAll(j) \/ LoadDetails(j)
  <2>1. \E s \in {"status", "load", "owner", "next", "known", "stop", "forget",
                  "integration", "forgetAll", "details"} : Doing(j, s)
    BY <1>10 DEF CheckStatus, LoadCalendar, Owner, NextCalendar, Known, Stop, Forget,
                 LoadIntegration, ForgetAll, LoadDetails
  <2>2. Now(job[j]) \in {"status", "load", "owner", "next", "known", "stop", "forget",
                  "integration", "forgetAll", "details"}
    BY <2>1, DoingIs
  <2> QED  BY <1>1, <2>2, Table
<1> QED  BY <1>3, <1>4, <1>5, <1>6, <1>7, <1>8, <1>9, <1>10
         DEF Step, CommitNotice, CommitPatch, CommitRemove

LEMMA SplitStays == ASSUME Next, split PROVE split'
<1>1. ASSUME NEW j \in Jobs, Step(j) PROVE split'
  BY <1>1 DEF Step, List, Compare, CheckStatus, LoadCalendar, CommitNotice, Owner, NextCalendar,
       CommitPatch, Known, Stop, Forget, SetStatus, Watch, Note, Exists, Fetch,
       LookForOutbound, CommitIntegrate, LoadIntegration, ForgetAll, LoadDetails,
       CommitRemove, Skip, RollBack, Observe, seen
<1>2. ASSUME NEW j \in Jobs, Fail(j) PROVE split'
  BY <1>2 DEF Fail, RollBack
<1>3. ASSUME NEW c \in Calendars, NEW e \in Events, AddEvent(c, e) \/ Book(e, c) \/ RemoveEvent(c, e)
      PROVE  split'
  BY <1>3 DEF AddEvent, Book, RemoveEvent, Put
<1>4. ASSUME NEW h \in Handlers, NEW c \in Calendars, Deliver(h, c) PROVE split'
  BY <1>4 DEF Deliver, seen
<1>5. ASSUME NEW r \in Requests, NEW call \in Calls, Start(r, call) PROVE split'
  BY <1>5 DEF Start
<1> QED  BY <1>1, <1>2, <1>3, <1>4, <1>5 DEF Next

(* Requests go on, or end.                                                   *)
Continues(k) ==
    /\ Requesting(k)' =>
          /\ Requesting(k) /\ job'[k].op = job[k].op /\ Call(k)' = Call(k)
          /\ job[k].op = "integrate" /\ job'[k].first => job[k].first \/ NoOutbound
    /\ Requesting(k) /\ ~Requesting(k)' /\ job[k].op = "patch" => split' \/ PatchCommits(k)
Starts == \E r \in Requests, call \in Calls : Start(r, call)

LEMMA Continue == ASSUME CoreInv, Next, ~Starts, NEW k \in Jobs PROVE Continues(k)
<1>1. CASE KeepsJob(k)
  BY <1>1 DEF KeepsJob, Kin, Continues, Requesting
<1>2. CASE Step(k) \/ Fail(k)
  <2>1. /\ job'[k] = Idle \/ (job'[k].todo # <<>> /\ job'[k].op = job[k].op /\ job[k].todo # <<>>)
        /\ Call(k)' = Call(k)
    BY <1>2, StepLeaves, StepCalls DEF Leaves, Call
  <2>2. Requesting(k)' => Requesting(k) /\ job'[k].op = job[k].op
    BY <2>1, IdleType DEF Requesting
  <2>3. ASSUME Requesting(k)', job[k].op = "integrate", job'[k].first
        PROVE  job[k].first \/ NoOutbound
    BY <1>2, <2>2, <2>3, FirstIs DEF Requesting
  <2>4. ASSUME Requesting(k), ~Requesting(k)', job[k].op = "patch", ~split'
        PROVE  PatchCommits(k)
    BY <1>2, <2>4, PatchEnds DEF Requesting
  <2> QED  BY <2>1, <2>2, <2>3, <2>4 DEF Continues
<1>3. CASE k \in Handlers
  BY <1>3 DEF Continues, Requesting
<1>4. ASSUME k \notin Handlers, NEW call \in Calls, Start(k[1], call) PROVE FALSE
  BY <1>4 DEF Starts, Jobs
<1> QED  BY <1>1, <1>2, <1>3, <1>4, WhoActs DEF Acts

(* All that is being done is asked by one call.                               *)
LEMMA OneAsks ==
    ASSUME CoreInv, OneRequest, NEW j \in Jobs, NEW k \in Jobs, Requesting(j), Requesting(k)
    PROVE  /\ job[j].op = job[k].op /\ j[1] = k[1] /\ Call(j) = Call(k)
           /\ Call(j) \in Calls /\ Call(j).op = job[j].op
<1>1. j[1] = k[1] /\ Call(j) = Call(k)
  BY DEF OneRequest, Call
<1>2. /\ Call(j) \in Calls /\ Call(j).op = job[j].op
      /\ Call(k) \in Calls /\ Call(k).op = job[k].op
  BY WorksFacts DEF Works, Owned, Requesting
<1> QED  BY <1>1, <1>2

LEMMA NoRowOutKept == ASSUME CoreInv, NoRowOut, Next PROVE NoRowOut'
<1> SUFFICES ASSUME NEW c \in Calendars, ~IsRow(c)' PROVE ~calendars'[c].outbound
  BY DEF NoRowOut
<1>1. CASE calendars' = calendars
  BY <1>1 DEF NoRowOut, IsRow
<1>2. ASSUME NEW j \in Jobs, PatchCommits(j) PROVE ~calendars'[c].outbound
  <2>1. calendars' = Settings(j)
    BY <1>2 DEF PatchCommits
  <2>2. calendars'[c] = calendars[c]
    BY <2>1 DEF IsRow, Settings, Row
  <2> QED  BY <2>2 DEF NoRowOut, IsRow
<1>3. ASSUME NEW j \in Jobs, CommitIntegrate(j) PROVE ~calendars'[c].outbound
  <2>1. calendars'[c] = IF c \in CalendarsOf(Call(j).on) THEN NewSetting(j, c) ELSE calendars[c]
    BY <1>3 DEF CommitIntegrate
  <2>2. NewSetting(j, c).row = TRUE
    BY DEF NewSetting, Row
  <2> QED  BY <2>1, <2>2 DEF NoRowOut, IsRow
<1>4. ASSUME NEW j \in Jobs, CommitRemove(j) PROVE ~calendars'[c].outbound
  <2>1. calendars'[c] = IF c \in CalendarsOf(Call(j).on) THEN NoRow ELSE calendars[c]
    BY <1>4 DEF CommitRemove
  <2> QED  BY <2>1 DEF NoRowOut, IsRow, NoRow
<1> QED  BY <1>1, <1>2, <1>3, <1>4, RowsChange DEF RowsChanged, NoticeCommits

LEMMA OneRequestKept ==
    ASSUME CoreInv, Next, ~split', ~split => OneRequest
    PROVE  OneRequest' /\ (Starts => \A k \in Jobs : ~Requesting(k))
<1>1. OneRequest
  BY SplitStays
<1>2. CASE ~Starts
  BY <1>1, <1>2, Continue DEF Continues, OneRequest
<1>3. ASSUME NEW r \in Requests, NEW call \in Calls, Start(r, call)
      PROVE  (\A k \in Jobs : ~Requesting(k)) /\ OneRequest'
  <2>1. \A k \in Jobs : ~Requesting(k)
    BY <1>3 DEF Start, Requesting, InFlight
  <2>2. ASSUME NEW k \in Jobs, Requesting(k)' PROVE k[1] = r
    <3>1. k \in Handlers \/ k[1] # r => job'[k] = job[k]
      BY <1>3, StartGoes
    <3> QED  BY <2>1, <2>2, <3>1 DEF Requesting
  <2> QED  BY <2>1, <2>2 DEF OneRequest
<1> QED  BY <1>2, <1>3 DEF Starts

(* Settings that may not have two calendars outbound.                         *)
LEMMA FewOutbound ==
    ASSUME NEW call \in Calls, call.op = "patch", Cardinality(Outbound(call)) <= 1
    PROVE  \A c, d \in Outbound(call) : c = d
<1>1. Outbound(call) \subseteq Calendars /\ IsFiniteSet(Calendars)
  BY CallsAre, CalendarSyncAssumption DEF Outbound
<1>2. IsFiniteSet(Outbound(call))
  BY <1>1, FS_Subset
<1>3. ASSUME NEW c \in Outbound(call), NEW d \in Outbound(call), c # d PROVE FALSE
  <2>1. IsFiniteSet({c, d}) /\ Cardinality({c, d}) = 2
    <3>1. IsFiniteSet({c}) /\ Cardinality({c}) = 1
      BY FS_Singleton
    <3>2. IsFiniteSet({c} \cup {d}) /\ Cardinality({c} \cup {d}) = Cardinality({c}) + 1
      BY <1>3, <3>1, FS_AddElement
    <3>3. {c} \cup {d} = {c, d}
      OBVIOUS
    <3> QED  BY <3>1, <3>2, <3>3
  <2>2. Cardinality({c, d}) <= Cardinality(Outbound(call))
    BY <1>2, FS_Subset
  <2>3. Cardinality(Outbound(call)) \in Nat
    BY <1>2, FS_CardinalityType
  <2> QED  BY <2>1, <2>2, <2>3
<1> QED  BY <1>3

LEMMA OutStarts ==
    ASSUME CoreInv, OutInv, NEW r \in Requests, NEW call \in Calls, Start(r, call), ~split',
           \A k \in Jobs : ~Requesting(k), OneRequest'
    PROVE  OutInv'
<1>1. calendars' = calendars /\ AloneOut
  BY DEF Start, store, OutInv, NoPatch
<1>2. ASSUME NEW k \in Jobs, Requesting(k)'
      PROVE  /\ k[1] = r /\ Call(k)' = call /\ job'[k].op = call.op /\ ~job'[k].first
             /\ k \notin Handlers
  <2>1. k \notin Handlers /\ k[1] = r
    <3>1. k \in Handlers \/ k[1] # r => job'[k] = job[k]
      BY StartGoes
    <3> QED  BY <1>2, <3>1 DEF Requesting
  <2>2. PICK v \in Vendors : k = <<r, v>>
    BY <2>1 DEF Jobs
  <2>3. v \in Branches(call)
    BY <1>2, <2>2, StartGoes, IdleType DEF Requesting
  <2>4. Begun(k, job'[k], call.op, FirstStep(call.op, v)) /\ Call(k)' = call
    BY <2>2, <2>3, StartGoes
  <2> QED  BY <2>1, <2>4 DEF Begun
<1>3. AloneOut'
  BY <1>1 DEF AloneOut
<1>4. ASSUME call.op = "patch" PROVE Settled(r, call)'
  <2>1. ~(call.vendors # Vendors /\ Outbound(call) # {})
    BY <1>4 DEF Start
  <2>2. call.vendors = Vendors => Cardinality(Outbound(call)) <= 1
    BY <1>4 DEF Start
  <2>3. \A c, d \in Outbound(call) : c = d
    BY <1>4, <2>1, <2>2, FewOutbound
  <2>4. CASE Outbound(call) = {}
    <3>1. AloneOut' /\ ~(Outbound(call) # {})
      BY <1>3, <2>4
    <3> QED  BY <2>3, <3>1 DEF Settled
  <2>5. CASE Outbound(call) # {}
    <3>1. call.vendors = Vendors /\ Branches(call) = Vendors
      BY <1>4, <2>1, <2>5 DEF Branches
    <3>2. ASSUME NEW c \in Calendars PROVE job'[<<r, Vendor[c]>>].todo # <<>>
      <4>1. PICK v \in Vendors : v = Vendor[c]
        BY CalendarSyncAssumption
      <4>2. Begun(<<r, v>>, job'[<<r, v>>], call.op, FirstStep(call.op, v))
        BY <3>1, <4>1, StartGoes
      <4> QED  BY <4>1, <4>2 DEF Begun
    <3> QED  BY <2>3, <2>5, <3>2 DEF Settled
  <2> QED  BY <2>4, <2>5
<1>5. ASSUME NEW k \in Jobs, Requesting(k)', job'[k].op = "patch" PROVE Settled(k[1], Call(k))'
  <2>1. k[1] = r /\ Call(k)' = call /\ call.op = "patch"
    BY <1>2, <1>5
  <2>2. Settled(r, call)'
    BY <1>4, <2>1
  <2> QED  BY <2>1, <2>2 DEF Settled
<1> QED  BY <1>2, <1>3, <1>5 DEF OutInv

(* Nothing is saved.                                                         *)
LEMMA OutStays ==
    ASSUME CoreInv, OutInv, Next, ~Starts, ~split', calendars' = calendars, OneRequest',
           \A k \in Jobs : ~PatchCommits(k)
    PROVE  OutInv'
<1>1. \A k \in Jobs : Continues(k)
  BY Continue
<1>2. AloneOut' = AloneOut /\ (NoOutbound => NoOutbound')
  BY DEF AloneOut, NoOutbound
<1>3. ASSUME NoPatch' PROVE NoPatch
  <2>1. ASSUME NEW k \in Jobs, Requesting(k), job[k].op = "patch" PROVE FALSE
    <3>1. Requesting(k)'
      BY <1>1, <2>1 DEF Continues
    <3>2. job'[k].op = "patch"
      BY <1>1, <2>1, <3>1 DEF Continues
    <3> QED  BY <1>3, <3>1, <3>2 DEF NoPatch
  <2> QED  BY <2>1 DEF NoPatch
<1>4. ASSUME NEW k \in Jobs, Requesting(k)', job'[k].op = "patch" PROVE Settled(k[1], Call(k))'
  <2>1. Requesting(k) /\ job[k].op = "patch" /\ Call(k)' = Call(k)
    BY <1>1, <1>4 DEF Continues
  <2>2. Settled(k[1], Call(k)) /\ OneRequest
    BY <2>1 DEF OutInv
  <2>3. ASSUME NEW c \in Calendars, job[<<k[1], Vendor[c]>>].todo # <<>>
        PROVE  job'[<<k[1], Vendor[c]>>].todo # <<>>
    <3>1. PICK o \in Jobs : o = <<k[1], Vendor[c]>> /\ o \notin Handlers
      <4>1. PICK v \in Vendors : v = Vendor[c]
        BY CalendarSyncAssumption
      <4>2. PICK r \in Requests : r = k[1]
        BY <2>1 DEF Jobs, Requesting
      <4>3. <<r, v>> \in Requests \X Vendors
        OBVIOUS
      <4>4. <<r, v>> \in Jobs /\ <<r, v>> \notin Handlers
        BY <4>3, CalendarSyncAssumption DEF Jobs
      <4> QED  BY <4>1, <4>2, <4>4
    <3>2. Requesting(o)
      BY <2>3, <3>1 DEF Requesting
    <3>3. job[o].op = "patch"
      BY <2>1, <2>2, <3>2, OneAsks
    <3>4. Requesting(o)'
      BY <1>1, <3>2, <3>3 DEF Continues
    <3> QED  BY <3>1, <3>4 DEF Requesting
  <2>4. PICK call \in Calls : call = Call(k)
    BY <2>1, <2>2, OneAsks
  <2>5. Settled(k[1], call)'
    BY <1>2, <2>2, <2>3, <2>4 DEF Settled
  <2> QED  BY <2>1, <2>4, <2>5 DEF Settled
<1>5. ASSUME NEW k \in Jobs, Requesting(k)', job'[k].op = "integrate", job'[k].first
      PROVE  NoOutbound'
  <2>1. Requesting(k) /\ job[k].op = "integrate" /\ (job[k].first \/ NoOutbound)
    BY <1>1, <1>5 DEF Continues
  <2> QED  BY <1>2, <2>1 DEF OutInv
<1> QED  BY <1>2, <1>3, <1>4, <1>5 DEF OutInv

(* What a patch leaves outbound: the one it asks for, and those of the other   *)
(* vendor.                                                                    *)
LEMMA PatchLeaves ==
    ASSUME CoreInv, NoRowOut, NEW j \in Jobs, PatchCommits(j), NEW c \in Calendars,
           calendars'[c].outbound
    PROVE  \/ c \in Outbound(Call(j))
           \/ calendars[c].outbound /\ Vendor[c] # V(j)
<1>1. calendars' = Settings(j) /\ job[j].todo # <<>> /\ job[j].op = "patch"
  BY DEF PatchCommits, CommitPatch, Doing
<1>2. V(j) = VendorOf(j)
  BY <1>1, OfPatches
<1>3. CASE c \in Named(j)
  <2>1. calendars'[c] = Row(Call(j).want[c].check, Call(j).want[c].outbound)
    BY <1>1, <1>3 DEF Settings
  <2> QED  BY <1>3, <2>1 DEF Row, Outbound, Named
<1>4. CASE c \notin Named(j) /\ c \in Mine(j)
  <2>1. calendars'[c] = Row(calendars[c].check, FALSE)
    BY <1>1, <1>4 DEF Settings
  <2> QED  BY <2>1 DEF Row
<1>5. CASE c \notin Named(j) /\ c \notin Mine(j)
  <2>1. calendars'[c] = calendars[c]
    BY <1>1, <1>5 DEF Settings
  <2>2. IsRow(c) /\ Vendor[c] # V(j)
    BY <1>2, <1>5, <2>1 DEF Mine, NoRowOut
  <2> QED  BY <2>1, <2>2
<1> QED  BY <1>3, <1>4, <1>5

LEMMA CommitEnds ==
    ASSUME CoreInv, NEW j \in Jobs,
           PatchCommits(j) \/ CommitIntegrate(j) \/ CommitRemove(j)
    PROVE  /\ Requesting(j) /\ ~Requesting(j)' /\ Unmoved(j) /\ calls' = calls
           /\ PatchCommits(j) => job[j].op = "patch"
           /\ CommitIntegrate(j) => job[j].op = "integrate"
           /\ CommitRemove(j) => job[j].op = "remove"
<1>1. /\ Doing(j, "commit") /\ (Advance(j) \/ RollBack(j))
      /\ calls' = calls /\ job[j].op \in {"patch", "integrate", "remove"}
      /\ PatchCommits(j) => job[j].op = "patch"
      /\ CommitIntegrate(j) => job[j].op = "integrate"
      /\ CommitRemove(j) => job[j].op = "remove"
  BY DEF PatchCommits, CommitPatch, CommitIntegrate, CommitRemove
<1>2. job[j].todo # <<>> /\ j \notin Handlers
  BY <1>1, OfRequests DEF Doing
<1>3. job'[j] = Idle /\ Unmoved(j)
  BY <1>1, PlainGoes, RollBackGoes DEF Plain
<1> QED  BY <1>1, <1>2, <1>3, IdleType DEF Requesting

LEMMA OutPatched ==
    ASSUME CoreInv, NoRowOut, OutInv, Next, ~split', OneRequest', NEW j \in Jobs, PatchCommits(j)
    PROVE  OutInv'
<1>1. /\ Requesting(j) /\ ~Requesting(j)' /\ Unmoved(j) /\ calls' = calls /\ job[j].op = "patch"
      /\ OneRequest
  BY CommitEnds DEF OutInv
<1>2. PICK call \in Calls : call = Call(j)
  BY <1>1, OneAsks
<1>3. Settled(j[1], call)
  BY <1>1, <1>2 DEF OutInv
<1>4. ASSUME NEW k \in Jobs, Requesting(k)'
      PROVE  /\ Requesting(k) /\ k # j /\ k[1] = j[1] /\ job[k].op = "patch"
             /\ job'[k] = job[k] /\ Call(k)' = call
  <2>1. k # j /\ job'[k] = job[k]
    BY <1>1, <1>4 DEF Unmoved
  <2>2. Requesting(k) /\ Call(k)' = Call(k)
    BY <1>1, <1>4, <2>1 DEF Requesting, Call
  <2> QED  BY <1>1, <1>2, <2>1, <2>2, OneAsks
<1>5. \A c \in Calendars : calendars'[c].outbound =>
         c \in Outbound(call) \/ (calendars[c].outbound /\ Vendor[c] # V(j))
  BY <1>2, PatchLeaves
<1>6. Outbound(call) = {} /\ AloneOut => AloneOut'
  BY <1>5 DEF AloneOut
<1>7. Outbound(call) = {} \/ \A c \in Calendars : calendars'[c].outbound =>
         c \in Outbound(call) \/ job'[<<j[1], Vendor[c]>>].todo # <<>>
  <2>1. SUFFICES ASSUME Outbound(call) # {}, NEW c \in Calendars, calendars'[c].outbound,
                        c \notin Outbound(call)
                 PROVE  job'[<<j[1], Vendor[c]>>].todo # <<>>
    OBVIOUS
  <2>2. calendars[c].outbound /\ Vendor[c] # V(j)
    BY <1>5, <2>1
  <2>3. job[<<j[1], Vendor[c]>>].todo # <<>>
    BY <1>3, <2>1, <2>2 DEF Settled
  <2>4. PICK v \in Vendors, r \in Requests : v = Vendor[c] /\ r = j[1] /\ j = <<r, j[2]>>
    BY <1>1, CalendarSyncAssumption DEF Jobs, Requesting
  <2>5. <<r, v>> \in Jobs
    BY DEF Jobs
  <2>6. <<r, v>> # j
    BY <1>1, <2>2, <2>4 DEF V, VendorOf, Requesting
  <2>7. job'[<<r, v>>] = job[<<r, v>>]
    BY <1>1, <2>5, <2>6 DEF Unmoved
  <2> QED  BY <2>3, <2>4, <2>7
<1>8. Settled(j[1], call)'
  <2>1. \A c, d \in Outbound(call) : c = d
    BY <1>3 DEF Settled
  <2>2. CASE Outbound(call) = {}
    <3>1. AloneOut
      BY <1>3, <2>2 DEF Settled
    <3> QED  BY <1>6, <2>1, <2>2, <3>1 DEF Settled
  <2>3. CASE Outbound(call) # {}
    BY <1>7, <2>1, <2>3 DEF Settled
  <2> QED  BY <2>2, <2>3
<1>9. ASSUME NoPatch' PROVE AloneOut'
  <2>1. CASE Outbound(call) = {}
    <3>1. AloneOut
      BY <1>3, <2>1 DEF Settled
    <3> QED  BY <1>6, <2>1, <3>1
  <2>2. CASE Outbound(call) # {}
    <3>1. ASSUME NEW c \in Calendars, calendars'[c].outbound PROVE c \in Outbound(call)
      <4>1. SUFFICES ASSUME job'[<<j[1], Vendor[c]>>].todo # <<>> PROVE FALSE
        BY <1>7, <2>2, <3>1
      <4>2. PICK v \in Vendors, r \in Requests : v = Vendor[c] /\ r = j[1]
        BY <1>1, CalendarSyncAssumption DEF Jobs, Requesting
      <4>3. <<r, v>> \in Requests \X Vendors
        OBVIOUS
      <4>4. PICK o \in Jobs : o = <<r, v>> /\ o \notin Handlers
        BY <4>3, CalendarSyncAssumption DEF Jobs
      <4>5. Requesting(o)'
        BY <4>1, <4>2, <4>4 DEF Requesting
      <4> QED  BY <1>4, <1>9, <4>5 DEF NoPatch
    <3>2. \A c, d \in Outbound(call) : c = d
      BY <1>3 DEF Settled
    <3> QED  BY <3>1, <3>2 DEF AloneOut
  <2> QED  BY <2>1, <2>2
<1> QED  BY <1>4, <1>8, <1>9 DEF OutInv

LEMMA OutIntegrated ==
    ASSUME CoreInv, CallsInv, OutInv, Next, ~split', OneRequest', NEW j \in Jobs,
           CommitIntegrate(j)
    PROVE  OutInv'
<1>1. /\ Requesting(j) /\ ~Requesting(j)' /\ Unmoved(j) /\ calls' = calls
      /\ job[j].op = "integrate" /\ OneRequest
  BY CommitEnds DEF OutInv
<1>2. ASSUME NEW k \in Jobs, Requesting(k)' PROVE FALSE
  <2>1. k # j /\ job'[k] = job[k]
    BY <1>1, <1>2 DEF Unmoved
  <2>2. Requesting(k)
    BY <1>2, <2>1 DEF Requesting
  <2>3. job[k].op = "integrate" /\ Call(k) = Call(j)
    BY <1>1, <2>2, OneAsks
  <2>4. PICK c \in CalendarsOf(Call(j).on) : TRUE
    BY <1>1, OfIntegrations DEF Requesting
  <2> QED  BY <1>1, <2>1, <2>2, <2>3, <2>4, OneIntegrates DEF Requesting
<1>3. \A k \in Jobs : Requesting(k) => job[k].op = "integrate"
  BY <1>1, OneAsks
<1>4. AloneOut
  BY <1>3 DEF OutInv, NoPatch
<1>5. \A c \in Calendars : calendars'[c] =
         IF c \in CalendarsOf(Call(j).on) THEN NewSetting(j, c) ELSE calendars[c]
  BY DEF CommitIntegrate
<1>6. CASE job[j].first
  <2>1. NoOutbound
    BY <1>1, <1>6 DEF OutInv
  <2>2. ASSUME NEW c \in Calendars, calendars'[c].outbound
        PROVE  c \in CalendarsOf(Call(j).on) \cap Primary
    <3>1. c \in CalendarsOf(Call(j).on)
      BY <1>5, <2>1, <2>2 DEF NoOutbound
    <3>2. NewSetting(j, c).outbound
      BY <1>5, <2>2, <3>1
    <3> QED  BY <3>1, <3>2 DEF NewSetting, Row
  <2>3. \A c, d \in Primary : c \in Calendars /\ d \in Calendars /\ (Of[c] = Of[d] => c = d)
    BY CalendarSyncAssumption
  <2>4. AloneOut'
    BY <2>2, <2>3 DEF AloneOut, CalendarsOf
  <2> QED  BY <1>2, <2>4 DEF OutInv
<1>7. CASE ~job[j].first
  <2>1. ASSUME NEW c \in Calendars, calendars'[c].outbound PROVE calendars[c].outbound
    <3>1. ~NewSetting(j, c).outbound
      BY <1>7 DEF NewSetting, Row
    <3> QED  BY <1>5, <2>1, <3>1
  <2>2. AloneOut'
    BY <1>4, <2>1 DEF AloneOut
  <2> QED  BY <1>2, <2>2 DEF OutInv
<1> QED  BY <1>6, <1>7

LEMMA OutRemoved ==
    ASSUME CoreInv, OutInv, Next, ~split', OneRequest', NEW j \in Jobs, CommitRemove(j)
    PROVE  OutInv'
<1>1. /\ Requesting(j) /\ ~Requesting(j)' /\ Unmoved(j) /\ calls' = calls
      /\ job[j].op = "remove" /\ OneRequest
  BY CommitEnds DEF OutInv
<1>2. \A k \in Jobs : Requesting(k) => job[k].op = "remove"
  BY <1>1, OneAsks
<1>3. ASSUME NEW k \in Jobs, Requesting(k)' PROVE job'[k].op = "remove"
  BY <1>1, <1>2, <1>3 DEF Unmoved, Requesting
<1>4. AloneOut
  BY <1>2 DEF OutInv, NoPatch
<1>5. \A c \in Calendars : calendars'[c] =
         IF c \in CalendarsOf(Call(j).on) THEN NoRow ELSE calendars[c]
  BY DEF CommitRemove
<1>6. AloneOut'
  BY <1>4, <1>5 DEF AloneOut, NoRow
<1> QED  BY <1>3, <1>6 DEF OutInv

LEMMA OutKept ==
    ASSUME CoreInv, CallsInv, NoRowOut, ~split => OutInv, Next, ~split' PROVE OutInv'
<1>1. OutInv
  BY SplitStays
<1>2. OneRequest' /\ (Starts => \A k \in Jobs : ~Requesting(k))
  BY <1>1, OneRequestKept DEF OutInv
<1>3. CASE Starts
  BY <1>1, <1>2, <1>3, OutStarts DEF Starts
<1>4. CASE \E j \in Jobs : PatchCommits(j)
  BY <1>1, <1>2, <1>4, OutPatched
<1>5. CASE \E j \in Jobs : CommitIntegrate(j)
  BY <1>1, <1>2, <1>5, OutIntegrated
<1>6. CASE \E j \in Jobs : CommitRemove(j)
  BY <1>1, <1>2, <1>6, OutRemoved
<1>7. CASE calendars' = calendars /\ ~Starts /\ \A k \in Jobs : ~PatchCommits(k)
  BY <1>1, <1>2, <1>7, OutStays
<1> QED  BY <1>3, <1>4, <1>5, <1>6, <1>7, RowsChange DEF RowsChanged, NoticeCommits

(* When no settings are being saved, one calendar of all vendors takes the    *)
(* bookings, unless requests crossed, one came about in part, or it was for   *)
(* one vendor only.                                                           *)
THEOREM OutboundAlone == Spec => []OneOutbound
<1> DEFINE I == CallsInv /\ NoRowOut /\ (~split => OutInv)
<1>1. Init => I
  <2> SUFFICES ASSUME Init PROVE I
    OBVIOUS
  <2>1. PICK given \in Given : calendars = InitSettings(given)
    BY DEF Init
  <2>2. \A c \in Calendars : calendars[c].outbound => IsRow(c) /\ c = given.outbound
    BY <2>1 DEF InitSettings, NoRow, Row, IsRow
  <2>3. NoRowOut /\ AloneOut
    BY <2>2 DEF NoRowOut, AloneOut
  <2>4. \A k \in Jobs : ~Requesting(k)
    BY IdleType DEF Init, Requesting
  <2>5. OutInv
    BY <2>3, <2>4 DEF OutInv, OneRequest
  <2>6. CallsInv
    BY CalendarSyncAssumption DEF Init, CallsInv
  <2> QED  BY <2>3, <2>5, <2>6
<1>2. CoreInv /\ I /\ [Next]_vars => I'
  <2> SUFFICES ASSUME CoreInv, I, [Next]_vars PROVE I'
    OBVIOUS
  <2>1. CASE Next
    BY <2>1, CallsKept, NoRowOutKept, OutKept
  <2>2. CASE UNCHANGED vars
    <3> USE <2>2 DEF vars, store, google, outside, seen
    <3>1. CallsInv' /\ NoRowOut'
      BY DEF CallsInv, NoRowOut, IsRow
    <3>2. split' = split
      OBVIOUS
    <3>3. OutInv' = OutInv
      BY DEF OutInv, OneRequest, NoPatch, AloneOut, Settled, Requesting, NoOutbound, Call
    <3> QED  BY <3>1, <3>2, <3>3
  <2> QED  BY <2>1, <2>2
<1>3. CoreInv /\ I => OneOutbound
  <2> SUFFICES ASSUME CoreInv, OutInv, \A j \in InFlight : job[j].op # "patch"
               PROVE  Cardinality({c \in Calendars : calendars[c].outbound}) <= 1
    BY DEF OneOutbound
  <2>1. NoPatch
    BY DEF NoPatch, Requesting, InFlight
  <2>2. PICK S : S = {c \in Calendars : calendars[c].outbound}
    OBVIOUS
  <2>3. \A c, d \in S : c = d
    BY <2>1, <2>2 DEF OutInv, AloneOut
  <2>4. CASE S = {}
    BY <2>2, <2>4, FS_EmptySet
  <2>5. ASSUME NEW c \in S PROVE Cardinality(S) = 1
    <3>1. S = {c}
      BY <2>3, <2>5
    <3> QED  BY <3>1, FS_Singleton
  <2>6. Cardinality(S) <= 1
    BY <2>4, <2>5, FS_EmptySet
  <2> QED  BY <2>2, <2>6
<1>4. Spec => []I
  BY <1>1, <1>2, Core, PTL DEF Spec
<1> QED  BY <1>3, <1>4, Core, PTL

-----------------------------------------------------------------------------
(* Channels.                                                                 *)
Opening == {"forget", "set", "watch", "note"}
Refreshing == {"forget", "set", "watch"}
AtStep(c, S) == \E j \in Jobs : job[j].cal = c /\ Now(job[j]) \in S
Removing(c) == \E j \in Jobs : job[j].op = "remove" /\ c \in job[j].touched
Live(c) == Vendor[c] = "google" /\ IsRow(c) /\ c \notin broken /\ ~Removing(c)

(* A patch that is past the calendar c, and will have it checked.             *)
Owes(k, c) ==
    /\ job[k].op = "patch" /\ c \in Named(k) /\ Call(k).want[c].check
    /\ c \in job[k].touched /\ c \notin job[k].left
    /\ ~(job[k].cal = c /\ Now(job[k]) \in {"list", "rows", "known", "stop"})
InOrder(c) ==
    /\ c \in detail \ channels => AtStep(c, Refreshing)
    /\ c \in channels \ detail => AtStep(c, Opening)
    /\ c \in channels \ status => AtStep(c, {"set", "watch", "note"})
    /\ \/ calendars[c].check
       \/ AtStep(c, {"note"})
       \/ \E k \in Jobs : Owes(k, c)
       => c \in channels \/ AtStep(c, Refreshing)
NoteInv(k) ==
    Now(job[k]) = "note" /\ job[k].cal \notin job[k].shared => job[k].cal \in channels

(* An integration has its calendars for itself.                               *)
Phase(k, c) ==
    IF c = job[k].cal /\ Now(job[k]) \in {"watch", "note", "commit"}
    THEN /\ Now(job[k]) = "note" => c \in channels
         /\ Now(job[k]) = "commit" => c \in broken \/ c \in channels \cap detail \cap status
    ELSE c \notin channels \cup detail \cup status
Alone(k, c) == \A j \in Jobs \ {k} : c \notin job[j].touched
OwnInv(k) ==
    job[k].op = "integrate" /\ V(k) = "google" =>
        \A c \in CalendarsOf(Call(k).on) : Alone(k, c) /\ Phase(k, c)

(* Who takes a step that opens a channel.                                     *)
Opens(k) == Forget(k) \/ SetStatus(k) \/ Watch(k) \/ Note(k) \/ Fail(k)
LEMMA StepIs ==
    ASSUME NEW k, NEW s \in Opening, Now(job[k]) = s, Step(k) PROVE Opens(k)
<1>1. \A t : Doing(k, t) => t = s
  BY DoingIs
<1> QED  BY <1>1 DEF Opening, Opens, Step, List, Compare, CheckStatus, LoadCalendar, CommitNotice,
         Owner, NextCalendar, CommitPatch, Known, Stop, Forget, SetStatus, Watch, Note, Exists,
         Fetch, LookForOutbound, CommitIntegrate, LoadIntegration, ForgetAll, LoadDetails,
         CommitRemove

LEMMA WhoOpens ==
    ASSUME CoreInv, Next, NEW k \in Jobs, Now(job[k]) \in Opening
    PROVE  Kin(job[k], job'[k]) \/ Opens(k)
<1>1. job[k].todo # <<>>
  BY DEF Now, NextStep, Opening
<1>2. CASE KeepsJob(k)
  BY <1>2 DEF KeepsJob
<1>3. CASE Step(k) \/ Fail(k)
  BY <1>3, StepIs DEF Opens
<1>4. ASSUME k \in Handlers, NEW d \in Calendars, Deliver(k, d) PROVE FALSE
  BY <1>1, <1>4 DEF Deliver
<1>5. ASSUME k \notin Handlers, NEW call \in Calls, Start(k[1], call) PROVE FALSE
  <2>1. PICK r \in Requests, v \in Vendors : k = <<r, v>>
    BY <1>5 DEF Jobs
  <2>2. job[k] = Idle
    BY <1>5, <2>1, StartGoes
  <2> QED  BY <1>1, <2>2, IdleType
<1> QED  BY <1>2, <1>3, <1>4, <1>5, WhoActs DEF Acts

(* What comes to note has just opened a channel.                              *)
LEMMA WhoNotes ==
    ASSUME CoreInv, Next, NEW k \in Jobs, Now(job'[k]) = "note"
    PROVE  \/ Kin(job[k], job'[k])
           \/ Watch(k) /\ Cal(k) \in channels' /\ Moved(k, job[k], job'[k], "note")
<1>0. job'[k] # Idle /\ job'[k].todo # <<>>
  BY IdleType DEF Now, NextStep
<1>1. CASE KeepsJob(k)
  BY <1>1 DEF KeepsJob
<1>2. ASSUME k \in Handlers, NEW d \in Calendars, Deliver(k, d) PROVE FALSE
  BY <1>2, DeliverGoes DEF Begun
<1>3. ASSUME k \notin Handlers, NEW call \in Calls, Start(k[1], call) PROVE FALSE
  <2>1. PICK r \in Requests, v \in Vendors : k = <<r, v>>
    BY <1>3 DEF Jobs
  <2>2. Now(job'[k]) = FirstStep(call.op, v) \/ job'[k] = Idle
    BY <1>3, <2>1, StartGoes DEF Begun
  <2> QED  BY <1>0, <2>2 DEF FirstStep
<1>4. CASE Step(k) \/ Fail(k)
  <2>0. job[k].todo # <<>> /\ calls' = calls
    BY <1>0, <1>4, StepLeaves, StepCalls DEF Leaves
  <2>1. PICK op \in Ops, v \in Vendors, n \in Steps \cup {"none"} :
           op = job[k].op /\ v = V(k) /\ <<Now(job[k]), n>> \in Follows[op][v]
    BY <2>0, NextIs
  <2>2. CASE List(k) \/ Compare(k) \/ LookForOutbound(k) \/ NextCalendar(k) \/ LoadDetails(k)
             \/ Known(k) \/ Fetch(k)
    <3>1. \E m \in {"rows", "commit", "known", "next", "set", "list", "stop", "outbound"} : OnTo(k, m)
      <4>1. CASE List(k) \/ Compare(k) \/ LookForOutbound(k)
        BY <4>1, ListGoes, CompareGoes, LookForOutboundGoes
      <4>2. CASE NextCalendar(k)
        BY <4>2, NextCalendarGoes
      <4>3. CASE LoadDetails(k) \/ Known(k)
        BY <4>3, LoadDetailsGoes, KnownGoes
      <4>4. CASE Fetch(k)
        BY <4>4, FetchGoes
      <4> QED  BY <2>2, <4>1, <4>2, <4>3, <4>4
    <3> QED  BY <3>1 DEF OnTo
  <2>3. CASE CheckStatus(k) \/ LoadCalendar(k) \/ Owner(k) \/ LoadIntegration(k)
    <3>1. \E m \in {"load", "list", "next", "forgetAll"} : OnTo(k, m)
      <4>1. CASE CheckStatus(k) \/ LoadCalendar(k)
        BY <1>0, <4>1, CheckStatusGoes, LoadCalendarGoes
      <4>2. CASE Owner(k) \/ LoadIntegration(k)
        BY <1>0, <4>2, OwnerGoes, LoadIntegrationGoes
      <4> QED  BY <2>3, <4>1, <4>2
    <3> QED  BY <3>1 DEF OnTo
  <2>4. CASE Stop(k) \/ Forget(k) \/ SetStatus(k) \/ Note(k) \/ Exists(k) \/ ForgetAll(k)
    <3>1. PICK s \in {"stop", "forget", "set", "note", "exists", "forgetAll"} : Doing(k, s)
      BY <2>4 DEF Stop, Forget, SetStatus, Note, Exists, ForgetAll
    <3>2. Advance(k) \/ job'[k] = Idle
      BY <2>4, EndGoes DEF Stop, Forget, SetStatus, Note, Exists, ForgetAll, RollBack
    <3>3. \E m : OnTo(k, m) /\ m # "note"
      BY <1>0, <2>0, <3>1, <3>2, PlainGoes DEF Plain
    <3> QED  BY <3>3 DEF OnTo
  <2>5. CASE CommitNotice(k) \/ CommitPatch(k) \/ CommitIntegrate(k) \/ CommitRemove(k)
    <3>1. Doing(k, "commit") /\ (Advance(k) \/ RollBack(k))
      BY <2>5 DEF CommitNotice, CommitPatch, CommitIntegrate, CommitRemove
    <3> QED  BY <1>0, <2>0, <3>1, PlainGoes, RollBackGoes DEF Plain
  <2>6. CASE Fail(k)
    <3>1. \E m : OnTo(k, m) /\ m # "note"
      BY <1>0, <2>6, FailGoes
    <3> QED  BY <3>1 DEF OnTo
  <2>7. CASE Watch(k)
    <3>1. Doing(k, "watch") /\ (Advance(k) \/ SkipSubscribing(k)) /\ Cal(k) \in channels'
      BY <2>7 DEF Watch
    <3>2. CASE Advance(k)
      BY <2>0, <2>7, <3>1, <3>2, PlainGoes DEF Plain
    <3>3. CASE SkipSubscribing(k)
      <4>1. \E m : OnTo(k, m) /\ m # "note"
        BY <2>0, <3>1, <3>3, SkipSubscribingGoes
      <4> QED  BY <4>1 DEF OnTo
    <3> QED  BY <3>1, <3>2, <3>3
  <2> QED  BY <1>4, <2>2, <2>3, <2>4, <2>5, <2>6, <2>7 DEF Step
<1> QED  BY <1>1, <1>2, <1>3, <1>4, WhoActs DEF Acts

LEMMA NamedStays ==
    ASSUME CoreInv, Next, NEW k \in Jobs, job[k].todo # <<>>, KeepsJob(k) \/ Step(k) \/ Fail(k),
           k \notin Handlers
    PROVE  Call(k)' = Call(k) /\ Named(k)' = Named(k)
<1>1. Call(k)' = Call(k)
  BY StepCalls DEF KeepsJob, Call
<1> QED  BY <1>1 DEF Named

(* What a patch owes, it owed before, unless it has just closed the channel.  *)
LEMMA OwesBefore ==
    ASSUME CoreInv, Next, NEW k \in Jobs, NEW c \in Calendars, Vendor[c] = "google", Owes(k, c)'
    PROVE  Owes(k, c) \/ (job'[k].cal = c /\ Now(job'[k]) \in Refreshing)
<1>0. job'[k] # Idle
  BY IdleType DEF Owes
<1>1. ASSUME k \in Handlers, NEW d \in Calendars, Deliver(k, d) PROVE FALSE
  <2>1. job'[k].touched = {}
    BY <1>1, DeliverGoes DEF Begun
  <2> QED  BY <2>1 DEF Owes
<1>2. ASSUME k \notin Handlers, NEW call \in Calls, Start(k[1], call) PROVE FALSE
  <2>1. PICK r \in Requests, v \in Vendors : k = <<r, v>>
    BY <1>2 DEF Jobs
  <2>2. job'[k].touched = {}
    BY <1>2, <2>1, StartGoes, IdleType DEF Begun
  <2> QED  BY <2>2 DEF Owes
<1>3. CASE KeepsJob(k)
  <2>1. job[k].op = "patch" /\ job[k].todo # <<>>
    <3>1. job[k] # Idle /\ job[k].op = "patch"
      BY <1>3, IdleType DEF KeepsJob, Kin, Owes
    <3> QED  BY <3>1 DEF CoreInv, HandlersInv
  <2>2. k \notin Handlers
    BY <2>1, OfPatches
  <2>3. Call(k)' = Call(k) /\ Named(k)' = Named(k)
    BY <1>3, <2>1, <2>2, NamedStays
  <2> QED  BY <1>3, <2>3 DEF KeepsJob, Kin, Owes, Now
<1>4. CASE Step(k) \/ Fail(k)
  <2>0. job[k].todo # <<>> /\ calls' = calls /\ job[k].op = "patch"
    BY <1>0, <1>4, StepLeaves, StepCalls DEF Leaves, Owes
  <2>1. PICK op \in Ops, v \in Vendors, n \in Steps \cup {"none"} :
           op = job[k].op /\ v = V(k) /\ <<Now(job[k]), n>> \in Follows[op][v]
    BY <2>0, NextIs
  <2>2. k \notin Handlers /\ V(k) = VendorOf(k) /\ Call(k)' = Call(k) /\ Named(k)' = Named(k)
    BY <1>4, <2>0, OfPatches, NamedStays
  <2>3. c \in Named(k) /\ Call(k).want[c].check /\ V(k) = "google"
        /\ c \in job'[k].touched /\ c \notin job'[k].left
        /\ ~(job'[k].cal = c /\ Now(job'[k]) \in {"list", "rows", "known", "stop"})
    BY <2>2 DEF Owes, Named
  <2>4. ASSUME NEW m, Moved(k, job[k], job'[k], m), m \notin {"list", "rows", "known", "stop"},
               Now(job[k]) \notin {"list", "rows", "known", "stop"} \/ m \in Refreshing
        PROVE  Owes(k, c) \/ (job'[k].cal = c /\ Now(job'[k]) \in Refreshing)
    BY <2>0, <2>3, <2>4 DEF Moved, Owes
  <2>5. CASE CheckStatus(k) \/ LoadCalendar(k) \/ Exists(k) \/ Fetch(k) \/ LookForOutbound(k)
             \/ LoadIntegration(k) \/ ForgetAll(k) \/ LoadDetails(k)
    <3>1. \E s \in {"status", "load", "exists", "fetch", "outbound", "integration",
                    "forgetAll", "details"} : Doing(k, s)
      BY <2>5 DEF CheckStatus, LoadCalendar, Exists, Fetch, LookForOutbound, LoadIntegration,
                  ForgetAll, LoadDetails
    <3>2. Now(job[k]) \in {"status", "load", "exists", "fetch", "outbound", "integration",
                    "forgetAll", "details"}
      BY <3>1, DoingIs
    <3> QED  BY <2>0, <2>1, <3>2, Table
  <2>6. CASE List(k) \/ Compare(k)
    <3>1. Agree(job[k], job'[k]) /\ \E m \in {"rows", "known"} : OnTo(k, m)
      BY <2>0, <2>3, <2>6, ListGoes, CompareGoes
    <3>2. job'[k].cal # c
      BY <2>3, <3>1 DEF OnTo
    <3> QED  BY <2>0, <2>3, <3>1, <3>2 DEF Agree, Owes
  <2>7. CASE Owner(k)
    <3>1. job'[k].left = Checked(k) /\ Named(k) \subseteq Mine(k)
      BY <1>0, <2>7, OwnerGoes
    <3>2. c \in Checked(k)
      BY <2>2, <2>3, <3>1 DEF Checked
    <3> QED  BY <2>3, <3>1, <3>2
  <2>8. CASE NextCalendar(k)
    <3>1. Now(job[k]) = "next"
      BY <2>8, NextCalendarGoes, DoingIs
    <3>2. CASE Moved(k, job[k], job'[k], "commit")
      BY <2>4, <3>1, <3>2
    <3>3. CASE /\ OnTo(k, "list") /\ job'[k].left = job[k].left \ {job'[k].cal}
               /\ job'[k].touched = job[k].touched
      <4>1. c # job'[k].cal
        BY <2>3, <3>3 DEF OnTo
      <4> QED  BY <2>0, <2>3, <3>1, <3>3, <4>1 DEF Owes
    <3> QED  BY <2>0, <2>8, <3>2, <3>3, NextCalendarGoes
  <2>9. CASE Known(k)
    <3>1. CASE Moved(k, job[k], job'[k], "stop")
      <4>1. job'[k].cal # c
        BY <2>3, <3>1 DEF Moved
      <4> QED  BY <2>0, <2>3, <3>1, <4>1 DEF Moved, Owes
    <3>2. CASE Moved(k, job[k], job'[k], "set")
      BY <2>4, <3>2 DEF Refreshing
    <3> QED  BY <2>9, <3>1, <3>2, KnownGoes
  <2>10. CASE Stop(k) \/ Forget(k) \/ SetStatus(k) \/ Note(k)
    <3>1. PICK s \in {"stop", "forget", "set", "note"} : Doing(k, s)
      BY <2>10 DEF Stop, Forget, SetStatus, Note
    <3>2. Advance(k) /\ s \in Plain
      BY <1>0, <2>0, <2>10, RollBackGoes DEF Stop, Forget, SetStatus, Note, Plain
    <3>3. PICK m : Moved(k, job[k], job'[k], m) /\ (s = "stop" => m = "forget")
               /\ m \in {"forget", "set", "watch", "next", "commit"}
      BY <2>0, <3>1, <3>2, PlainGoes
    <3>4. Now(job[k]) = s
      BY <3>1, DoingIs
    <3> QED  BY <2>4, <3>3, <3>4 DEF Refreshing
  <2>11. CASE Watch(k)
    <3>1. Doing(k, "watch") /\ (Advance(k) \/ SkipSubscribing(k))
      BY <2>11 DEF Watch
    <3>2. PICK m : Moved(k, job[k], job'[k], m) /\ m \in {"note", "next", "commit"}
      BY <2>0, <3>1, PlainGoes, SkipSubscribingGoes DEF Plain
    <3>3. Now(job[k]) = "watch"
      BY <3>1, DoingIs
    <3> QED  BY <2>4, <3>2, <3>3
  <2>12. CASE Fail(k)
    <3>1. PICK s \in {"watch", "note"} : Doing(k, s) /\ \E m \in {"next", "commit"} : Moved(k, job[k], job'[k], m)
      BY <1>0, <2>12, FailGoes
    <3>2. Now(job[k]) = s
      BY <3>1, DoingIs
    <3> QED  BY <2>4, <3>1, <3>2
  <2>13. CASE CommitNotice(k) \/ CommitPatch(k) \/ CommitIntegrate(k) \/ CommitRemove(k)
    <3>1. Doing(k, "commit") /\ (Advance(k) \/ RollBack(k))
      BY <2>13 DEF CommitNotice, CommitPatch, CommitIntegrate, CommitRemove
    <3> QED  BY <1>0, <2>0, <3>1, PlainGoes, RollBackGoes DEF Plain
  <2> QED  BY <1>4, <2>5, <2>6, <2>7, <2>8, <2>9, <2>10, <2>11, <2>12, <2>13 DEF Step
<1> QED  BY <1>1, <1>2, <1>3, <1>4, WhoActs DEF Acts

(* What changes the channels, and what is known of them.                      *)
LEMMA GoogleChanges ==
    ASSUME Next
    PROVE  \/ UNCHANGED <<google, broken>>
           \/ \E j \in Jobs : Stop(j) \/ Forget(j) \/ SetStatus(j) \/ Watch(j) \/ Note(j)
                              \/ ForgetAll(j) \/ Fail(j)
<1>1. ASSUME NEW j \in Jobs, Step(j), ~Stop(j), ~Forget(j), ~SetStatus(j), ~Watch(j), ~Note(j),
             ~ForgetAll(j)
      PROVE  UNCHANGED <<google, broken>>
  BY <1>1 DEF Step, List, Compare, CheckStatus, LoadCalendar, Owner, CommitNotice, CommitPatch,
         CommitIntegrate, CommitRemove, NextCalendar, Known, Exists, Fetch, LookForOutbound,
         LoadIntegration, LoadDetails, Skip, RollBack, google, seen
<1>2. ASSUME NEW c \in Calendars, NEW e \in Events, AddEvent(c, e) \/ Book(e, c) \/ RemoveEvent(c, e)
      PROVE  UNCHANGED <<google, broken>>
  BY <1>2 DEF AddEvent, Book, RemoveEvent, Put
<1>3. ASSUME NEW h \in Handlers, NEW c \in Calendars, Deliver(h, c)
      PROVE  UNCHANGED <<google, broken>>
  BY <1>3 DEF Deliver, seen
<1>4. ASSUME NEW r \in Requests, NEW call \in Calls, Start(r, call)
      PROVE  UNCHANGED <<google, broken>>
  BY <1>4 DEF Start
<1> QED  BY <1>1, <1>2, <1>3, <1>4 DEF Next

LEMMA GoogleMoves ==
    ASSUME CoreInv, NEW j \in Jobs,
           Stop(j) \/ Forget(j) \/ SetStatus(j) \/ Watch(j) \/ Note(j) \/ ForgetAll(j) \/ Fail(j)
    PROVE  Unmoved(j) /\ (job'[j] = Idle \/ \E n : Moved(j, job[j], job'[j], n))
<1>1. calls' = calls
  BY StepCalls DEF Step
<1>2. CASE Fail(j)
  BY <1>2, FailGoes
<1>3. CASE Watch(j)
  <2>1. Doing(j, "watch") /\ (Advance(j) \/ SkipSubscribing(j))
    BY <1>3 DEF Watch
  <2> QED  BY <1>1, <2>1, PlainGoes, SkipSubscribingGoes DEF Plain
<1>4. CASE Stop(j) \/ Forget(j) \/ SetStatus(j) \/ Note(j) \/ ForgetAll(j)
  <2>1. PICK s \in {"stop", "forget", "set", "note", "forgetAll"} : Doing(j, s)
    BY <1>4 DEF Stop, Forget, SetStatus, Note, ForgetAll
  <2>2. Advance(j) \/ RollBack(j)
    BY <1>4 DEF Stop, Forget, SetStatus, Note, ForgetAll
  <2> QED  BY <1>1, <2>1, <2>2, PlainGoes, RollBackGoes DEF Plain
<1> QED  BY <1>2, <1>3, <1>4

LEMMA ChannelLost ==
    ASSUME Next, NEW c, c \in channels, c \notin channels'
    PROVE  \E j \in Jobs : Stop(j) /\ Cal(j) = c
<1>1. PICK j \in Jobs : Stop(j) \/ Forget(j) \/ SetStatus(j) \/ Watch(j) \/ Note(j)
                        \/ ForgetAll(j) \/ Fail(j)
  BY GoogleChanges DEF google
<1>2. ~(Forget(j) \/ SetStatus(j) \/ Watch(j) \/ Note(j) \/ ForgetAll(j) \/ Fail(j))
  BY DEF Forget, SetStatus, Watch, Note, ForgetAll, Fail, google
<1>3. Stop(j)
  BY <1>1, <1>2
<1>4. Cal(j) = c
  BY <1>3 DEF Stop
<1> QED  BY <1>3, <1>4

LEMMA NoteKept ==
    ASSUME CoreInv, PairsInv, Next, NEW k \in Jobs, NoteInv(k) PROVE NoteInv(k)'
<1> SUFFICES ASSUME Now(job'[k]) = "note", job'[k].cal \notin job'[k].shared
             PROVE  job'[k].cal \in channels'
  BY DEF NoteInv
<1>1. CASE Kin(job[k], job'[k])
  <2>1. Now(job[k]) = "note" /\ job'[k].cal = Cal(k) /\ Cal(k) \notin job[k].shared
    BY <1>1 DEF Kin, Now, Cal
  <2>2. Cal(k) \in channels
    BY <2>1 DEF NoteInv, Cal
  <2>3. ASSUME NEW j \in Jobs, Stop(j), Cal(j) = Cal(k) PROVE FALSE
    <3>1. Now(job[j]) = "stop"
      BY <2>3, DoingIs DEF Stop
    <3>2. Cal(j) \in job[j].touched /\ Cal(k) \in job[k].touched
      BY <2>1, <3>1, CalWorking DEF Working
    <3>3. j # k
      BY <2>1, <3>1
    <3> QED  BY <2>1, <2>3, <3>2, <3>3 DEF PairsInv
  <2> QED  BY <2>1, <2>2, <2>3, ChannelLost
<1>2. CASE Cal(k) \in channels' /\ Moved(k, job[k], job'[k], "note")
  BY <1>2 DEF Moved, Cal
<1> QED  BY <1>1, <1>2, WhoNotes

(* A removal ends with the rows of its calendars, or in disorder.             *)
LEMMA RemovalEnds ==
    ASSUME CoreInv, Next, NEW k \in Jobs, Step(k) \/ Fail(k), job[k].op = "remove",
           job[k].todo # <<>>, NEW c \in Calendars, c \in job[k].touched, Vendor[c] = "google"
    PROVE  \/ job'[k].op = "remove" /\ c \in job'[k].touched
           \/ c \in broken' \/ ~IsRow(c)'
<1>1. PICK op \in Ops, v \in Vendors, n \in Steps \cup {"none"} :
         op = job[k].op /\ v = V(k) /\ <<Now(job[k]), n>> \in Follows[op][v]
  BY NextIs
<1>2. Placed(k, job[k], Call(k), Now(job[k])) /\ calls' = calls
  BY StepFacts, StepCalls
<1>3. \A s : Doing(k, s) => s \in {"integration", "forgetAll", "details", "next", "stop",
                                   "forget", "commit"}
  <2>1. Now(job[k]) \in {"integration", "forgetAll", "details", "next", "stop", "forget", "commit"}
    BY <1>1, Table DEF Steps
  <2> QED  BY <2>1, DoingIs
<1>4. CASE LoadIntegration(k)
  <2>1. Now(job[k]) = "integration"
    BY <1>4, LoadIntegrationGoes, DoingIs
  <2> QED  BY <1>2, <2>1 DEF Placed, Early
<1>5. CASE LoadDetails(k) \/ NextCalendar(k)
  <2>1. job'[k].op = "remove" /\ job'[k].touched = job[k].touched
    BY <1>5, LoadDetailsGoes, NextCalendarGoes DEF Moved
  <2> QED  BY <2>1
<1>6. CASE ForgetAll(k) \/ Forget(k) \/ Stop(k)
  <2>1. Lost(k) = job[k].touched
    BY DEF Lost
  <2>2. CASE Stop(k) /\ Cal(k) \notin channels
    BY <2>1, <2>2 DEF Stop
  <2>3. CASE Advance(k)
    <3>1. PICK s \in {"forgetAll", "forget", "stop"} : Doing(k, s)
      BY <1>6 DEF ForgetAll, Forget, Stop
    <3>2. \E m : Moved(k, job[k], job'[k], m)
      BY <1>2, <2>3, <3>1, PlainGoes DEF Plain
    <3> QED  BY <3>2 DEF Moved
  <2> QED  BY <1>6, <2>2, <2>3 DEF ForgetAll, Forget, Stop
<1>7. CASE CommitRemove(k)
  <2>1. Now(job[k]) = "commit"
    BY <1>7, DoingIs DEF CommitRemove
  <2>2. V(k) = "google" /\ job[k].touched = CalendarsOf(Call(k).on)
    BY <1>2, <2>1 DEF Placed, Early
  <2>3. calendars'[c] = NoRow
    BY <1>7, <2>2 DEF CommitRemove
  <2> QED  BY <2>3 DEF IsRow, NoRow
<1>8. CASE Fail(k)
  <2>1. c \in Lost(k) /\ ~\E s \in {"watch", "note"} : Doing(k, s)
    BY <1>3 DEF Lost
  <2> QED  BY <1>8, <2>1, FailGoes
<1>9. ~(List(k) \/ Compare(k) \/ CheckStatus(k) \/ LoadCalendar(k) \/ Owner(k) \/ Known(k)
        \/ SetStatus(k) \/ Watch(k) \/ Note(k) \/ Exists(k) \/ Fetch(k) \/ LookForOutbound(k))
  <2>1. ~(Doing(k, "list") \/ Doing(k, "rows") \/ Doing(k, "status") \/ Doing(k, "load")
          \/ Doing(k, "owner") \/ Doing(k, "known") \/ Doing(k, "set") \/ Doing(k, "watch")
          \/ Doing(k, "note") \/ Doing(k, "exists") \/ Doing(k, "fetch") \/ Doing(k, "outbound"))
    BY <1>3
  <2> QED  BY <2>1 DEF List, Compare, CheckStatus, LoadCalendar, Owner, Known, SetStatus, Watch,
              Note, Exists, Fetch, LookForOutbound
<1>10. ~(CommitNotice(k) \/ CommitPatch(k) \/ CommitIntegrate(k))
  BY DEF CommitNotice, CommitPatch, CommitIntegrate
<1> QED  BY <1>4, <1>5, <1>6, <1>7, <1>8, <1>9, <1>10 DEF Step

LEMMA LiveBefore ==
    ASSUME CoreInv, Next, NEW c \in Calendars, Live(c)'
    PROVE  \/ Live(c)
           \/ \E j \in Jobs : Note(j) /\ Cal(j) = c /\ c \notin job[j].shared
           \/ \E j \in Jobs : CommitIntegrate(j) /\ c \in CalendarsOf(Call(j).on)
<1>1. CASE ~IsRow(c)
  BY <1>1, NewRows DEF Live
<1>2. CASE c \in broken
  <2>1. PICK j \in Jobs : Stop(j) \/ Forget(j) \/ SetStatus(j) \/ Watch(j) \/ Note(j)
                          \/ ForgetAll(j) \/ Fail(j)
    BY <1>2, GoogleChanges DEF Live
  <2>2. ~(Forget(j) \/ SetStatus(j) \/ Watch(j) \/ ForgetAll(j) \/ Fail(j) \/ Stop(j))
    BY <1>2 DEF Forget, SetStatus, Watch, ForgetAll, Fail, Stop, seen, Live
  <2>3. Note(j)
    BY <2>1, <2>2
  <2>4. Cal(j) = c /\ c \notin job[j].shared
    BY <1>2, <2>3 DEF Note, Live
  <2> QED  BY <2>3, <2>4
<1>3. ASSUME NEW k \in Jobs, job[k].op = "remove", c \in job[k].touched PROVE FALSE
  <2>1. job[k].todo # <<>>
    BY <1>3, IdleType DEF CoreInv, HandlersInv
  <2>2. ~(job'[k].op = "remove" /\ c \in job'[k].touched) /\ c \notin broken' /\ IsRow(c)'
    BY DEF Live, Removing
  <2>3. CASE KeepsJob(k)
    BY <1>3, <2>2, <2>3 DEF KeepsJob, Kin
  <2>4. CASE Step(k) \/ Fail(k)
    BY <1>3, <2>1, <2>2, <2>4, RemovalEnds DEF Live
  <2>5. ASSUME k \in Handlers, NEW d \in Calendars, Deliver(k, d) PROVE FALSE
    BY <2>1, <2>5 DEF Deliver
  <2>6. ASSUME k \notin Handlers, NEW call \in Calls, Start(k[1], call) PROVE FALSE
    <3>1. PICK r \in Requests, v \in Vendors : k = <<r, v>>
      BY <2>6 DEF Jobs
    <3> QED  BY <2>1, <2>6, <3>1, StartGoes, IdleType
  <2> QED  BY <2>3, <2>4, <2>5, <2>6, WhoActs DEF Acts
<1> QED  BY <1>1, <1>2, <1>3 DEF Live, Removing

(* Calendars a handler begins to work on.                                     *)
LEMMA NewTouch ==
    ASSUME CoreInv, Next, NEW j \in Jobs, NEW c \in Calendars, c \notin job[j].touched,
           c \in job'[j].touched
    PROVE  \/ IsRow(c)
           \/ job[j].op = "integrate" /\ job[j].todo # <<>> /\ c \in CalendarsOf(Call(j).on)
           \/ \E d \in Calendars : Of[d] = Of[c] /\ IsRow(d)
<1>0. job'[j] # Idle
  BY IdleType
<1>1. CASE KeepsJob(j)
  BY <1>1 DEF KeepsJob, Kin
<1>2. ASSUME j \in Handlers, NEW d \in Calendars, Deliver(j, d) PROVE FALSE
  BY <1>2, DeliverGoes DEF Begun
<1>3. ASSUME j \notin Handlers, NEW call \in Calls, Start(j[1], call) PROVE FALSE
  <2>1. PICK r \in Requests, v \in Vendors : j = <<r, v>>
    BY <1>3 DEF Jobs
  <2> QED  BY <1>0, <1>3, <2>1, StartGoes DEF Begun
<1>4. CASE Fail(j)
  BY <1>0, <1>4, FailGoes DEF Moved
<1>5. CASE Step(j) /\ ~TouchStep(j)
  <2>1. Tame(j)
    BY <1>5, StepTame
  <2> QED  BY <2>1 DEF Tame
<1>6. CASE LoadCalendar(j)
  <2>1. IsRow(Cal(j)) /\ job'[j].touched = {Cal(j)}
    BY <1>0, <1>6, LoadCalendarGoes
  <2> QED  BY <2>1
<1>7. CASE Owner(j)
  <2>1. job'[j].touched = Checked(j) \cup Named(j) /\ Named(j) \subseteq Mine(j)
    BY <1>0, <1>7, OwnerGoes
  <2>2. Checked(j) \subseteq Mine(j)
    BY <2>1 DEF Checked
  <2>3. c \in Mine(j)
    BY <2>1, <2>2
  <2> QED  BY <2>3 DEF Mine
<1>8. CASE LoadIntegration(j)
  <2>1. job'[j].touched = CalendarsOf(Call(j).on) /\ \E d \in CalendarsOf(Call(j).on) : IsRow(d)
    BY <1>0, <1>8, LoadIntegrationGoes
  <2> QED  BY <2>1 DEF CalendarsOf
<1>9. CASE Fetch(j)
  <2>1. job'[j].touched = {job'[j].cal} /\ job'[j].cal \in Fetched(j) /\ Doing(j, "fetch")
        /\ job[j].op = "integrate"
    BY <1>9, FetchGoes
  <2> QED  BY <2>1 DEF Fetched, Doing
<1> QED  BY <1>1, <1>2, <1>3, <1>4, <1>5, <1>6, <1>7, <1>8, <1>9, WhoActs DEF Acts, TouchStep

(* What others do at Google and in Redis is for what they work on.            *)
Spared(c) ==
    /\ c \in channels' <=> c \in channels
    /\ c \in detail' <=> c \in detail
    /\ c \in status' <=> c \in status
    /\ c \in broken => c \in broken'
LEMMA OthersSpare ==
    ASSUME CoreInv, NEW j \in Jobs, NEW c, Vendor[c] = "google", c \notin job[j].touched,
           Stop(j) \/ Forget(j) \/ SetStatus(j) \/ Watch(j) \/ Note(j) \/ ForgetAll(j) \/ Fail(j)
    PROVE  Spared(c)
<1>1. CASE Fail(j)
  BY <1>1 DEF Fail, google, Spared
<1>2. CASE ForgetAll(j)
  <2>1. Now(job[j]) = "forgetAll" /\ job[j].todo # <<>>
    BY <1>2, DoingIs DEF ForgetAll
  <2>2. PICK op \in Ops, v \in Vendors, n \in Steps \cup {"none"} :
           op = job[j].op /\ v = V(j) /\ <<Now(job[j]), n>> \in Follows[op][v]
    BY <2>1, NextIs
  <2>3. job[j].op = "remove" /\ V(j) = "google"
    BY <2>1, <2>2, Table
  <2>4. job[j].touched = CalendarsOf(Call(j).on)
    BY <2>1, <2>3, StepFacts DEF Placed, Early
  <2> QED  BY <1>2, <2>4 DEF ForgetAll, Spared, seen
<1>3. CASE Stop(j) \/ Forget(j) \/ SetStatus(j) \/ Watch(j) \/ Note(j)
  <2>1. PICK s \in {"stop", "forget", "set", "watch", "note"} : Doing(j, s)
    BY <1>3 DEF Stop, Forget, SetStatus, Watch, Note
  <2>2. Cal(j) \in job[j].touched
    BY <2>1, DoingIs, CalWorking DEF Working
  <2>3. c # Cal(j)
    BY <2>2
  <2>4. CASE Stop(j)
    BY <2>3, <2>4 DEF Stop, seen, Spared
  <2>5. CASE Forget(j) \/ SetStatus(j)
    BY <2>3, <2>5 DEF Forget, SetStatus, seen, Spared
  <2>6. CASE Watch(j) \/ Note(j)
    BY <2>3, <2>6 DEF Watch, Note, Spared
  <2> QED  BY <1>3, <2>4, <2>5, <2>6
<1> QED  BY <1>1, <1>2, <1>3

LEMMA PhaseKept ==
    ASSUME CoreInv, Next, NEW k \in Jobs, KeepsJob(k) \/ Step(k) \/ Fail(k),
           job[k].op = "integrate", job[k].todo # <<>>, V(k) = "google", job'[k] # Idle,
           NEW c \in CalendarsOf(Call(k).on), Alone(k, c), Phase(k, c)
    PROVE  Phase(k, c)'
<1>0. calls' = calls \/ KeepsJob(k)
  BY StepCalls
<1>1. PICK op \in Ops, v \in Vendors, n \in Steps \cup {"none"} :
         op = job[k].op /\ v = V(k) /\ <<Now(job[k]), n>> \in Follows[op][v]
  BY NextIs
<1>2. Now(job[k]) \in {"fetch", "outbound", "set", "watch", "note", "commit"}
  BY <1>1, Table DEF Steps
<1>3. ASSUME Spared(c), Kin(job[k], job'[k]) PROVE Phase(k, c)'
  <2>1. job'[k].cal = job[k].cal /\ Now(job'[k]) = Now(job[k])
    BY <1>3 DEF Kin, Now
  <2> QED  BY <1>3, <2>1 DEF Spared, Phase
<1>4. ASSUME NEW s \in {"set", "watch", "note"}, Doing(k, s),
             SetStatus(k) \/ Watch(k) \/ Note(k) \/ Fail(k)
      PROVE  Phase(k, c)'
  <2>1. Now(job[k]) = s
    BY <1>4, DoingIs
  <2>2. CASE SetStatus(k)
    <3>1. Moved(k, job[k], job'[k], "watch")
      <4>1. Doing(k, "set") /\ Advance(k) /\ calls' = calls
        BY <2>2 DEF SetStatus
      <4> QED  BY <4>1, PlainGoes DEF Plain
    <3>2. Now(job[k]) = "set"
      BY <2>2, DoingIs DEF SetStatus
    <3> QED  BY <2>2, <3>1, <3>2 DEF SetStatus, Moved, Phase, Cal
  <2>3. CASE Watch(k)
    <3>1. Doing(k, "watch") /\ calls' = calls /\ (Advance(k) \/ SkipSubscribing(k))
          /\ Cal(k) \in channels' /\ (Cal(k) \in channels => Cal(k) \in broken')
          /\ (Cal(k) \in channels => SkipSubscribing(k)) /\ UNCHANGED <<detail, status>>
          /\ channels' = channels \cup {Cal(k)}
          /\ (Cal(k) \notin channels => Advance(k))
      BY <2>3 DEF Watch
    <3>2. Now(job[k]) = "watch"
      BY <3>1, DoingIs
    <3>3. CASE Cal(k) \in channels
      <4>1. Moved(k, job[k], job'[k], "commit")
        BY <3>1, <3>3, SkipSubscribingGoes
      <4> QED  BY <3>1, <3>2, <3>3, <4>1 DEF Moved, Phase, Cal
    <3>4. CASE Cal(k) \notin channels
      <4>1. Moved(k, job[k], job'[k], "note")
        BY <3>1, <3>4, PlainGoes DEF Plain
      <4> QED  BY <3>1, <3>2, <3>4, <4>1 DEF Moved, Phase, Cal
    <3> QED  BY <3>3, <3>4
  <2>4. CASE Note(k)
    <3>1. Doing(k, "note") /\ calls' = calls /\ Advance(k) /\ channels' = channels
          /\ detail' = detail \cup {Cal(k)} /\ status' = status \cup {Cal(k)}
      BY <2>4 DEF Note
    <3>2. Now(job[k]) = "note" /\ Moved(k, job[k], job'[k], "commit")
      BY <3>1, DoingIs, PlainGoes DEF Plain
    <3> QED  BY <3>1, <3>2 DEF Moved, Phase, Cal
  <2>5. CASE Fail(k)
    <3>1. /\ broken' = broken \cup {Cal(k)} /\ Moved(k, job[k], job'[k], "commit")
          /\ s \in {"watch", "note"}
      BY <2>1, <2>5, FailGoes, DoingIs
    <3>2. UNCHANGED google
      BY <2>5 DEF Fail
    <3> QED  BY <2>1, <3>1, <3>2 DEF Moved, Phase, Cal, google
  <2> QED  BY <1>4, <2>2, <2>3, <2>4, <2>5
<1>5. ASSUME Fetch(k) \/ LookForOutbound(k) PROVE Phase(k, c)'
  <2>1. Now(job[k]) \in {"fetch", "outbound"}
    <3>1. Doing(k, "fetch") \/ Doing(k, "outbound")
      BY <1>5 DEF Fetch, LookForOutbound
    <3> QED  BY <3>1, DoingIs
  <2>2. Now(job'[k]) \in {"outbound", "set"}
    BY <1>5, FetchGoes, LookForOutboundGoes DEF OnTo
  <2>3. UNCHANGED google
    BY <1>5 DEF Fetch, LookForOutbound
  <2> QED  BY <2>1, <2>2, <2>3 DEF Phase, google
<1>6. ASSUME Step(k) \/ Fail(k) PROVE Phase(k, c)'
  <2>1. \A s : Doing(k, s) => s = Now(job[k])
    BY DoingIs
  <2>2. CASE Fail(k)
    <3>1. \E s \in {"watch", "note"} : Doing(k, s)
      BY <2>2, FailGoes
    <3> QED  BY <1>4, <2>2, <3>1
  <2>3. CASE CommitIntegrate(k)
    <3>1. Doing(k, "commit") /\ Advance(k) /\ calls' = calls
      BY <2>3 DEF CommitIntegrate
    <3> QED  BY <3>1, PlainGoes DEF Plain
  <2>4. CASE SetStatus(k) \/ Watch(k) \/ Note(k)
    <3>1. \E s \in {"set", "watch", "note"} : Doing(k, s)
      BY <2>4 DEF SetStatus, Watch, Note
    <3> QED  BY <1>4, <2>4, <3>1
  <2>5. CASE \/ List(k) \/ Compare(k) \/ CheckStatus(k) \/ LoadCalendar(k) \/ Owner(k)
             \/ NextCalendar(k) \/ Known(k) \/ Stop(k) \/ Forget(k) \/ Exists(k)
             \/ LoadIntegration(k) \/ ForgetAll(k) \/ LoadDetails(k)
    <3>1. \E s \in {"list", "rows", "status", "load", "owner", "next", "known", "stop",
                    "forget", "exists", "integration", "forgetAll", "details"} : Doing(k, s)
      BY <2>5 DEF List, Compare, CheckStatus, LoadCalendar, Owner, NextCalendar, Known, Stop,
                  Forget, Exists, LoadIntegration, ForgetAll, LoadDetails
    <3> QED  BY <1>2, <2>1, <3>1
  <2> QED  BY <1>5, <1>6, <2>2, <2>3, <2>4, <2>5
           DEF Step, CommitNotice, CommitPatch, CommitRemove
<1>7. ASSUME KeepsJob(k), ~Step(k), ~Fail(k) PROVE Phase(k, c)'
  <2>1. Spared(c)
    <3>1. CASE UNCHANGED <<google, broken>>
      BY <3>1 DEF Spared, google
    <3>2. ASSUME NEW j \in Jobs,
                 Stop(j) \/ Forget(j) \/ SetStatus(j) \/ Watch(j) \/ Note(j)
                 \/ ForgetAll(j) \/ Fail(j)
          PROVE  Spared(c)
      <4>1. j # k
        BY <1>7, <3>2 DEF Step
      <4>2. c \notin job[j].touched
        BY <4>1 DEF Alone
      <4>3. Vendor[c] = "google"
        BY OfIntegrations
      <4> QED  BY <3>2, <4>2, <4>3, OthersSpare
    <3> QED  BY <3>1, <3>2, GoogleChanges
  <2> QED  BY <1>3, <1>7, <2>1 DEF KeepsJob
<1> QED  BY <1>6, <1>7

LEMMA OwnKept ==
    ASSUME CoreInv, RowInv, Next, NEW k \in Jobs, OwnInv(k) PROVE OwnInv(k)'
<1> SUFFICES ASSUME job'[k].op = "integrate", V(k) = "google", NEW c \in CalendarsOf(Call(k)'.on)
             PROVE  Alone(k, c)' /\ Phase(k, c)'
  BY DEF OwnInv, V, VendorOf, CalendarsOf
<1>0. job'[k] # Idle /\ c \in Calendars
  BY IdleType DEF CalendarsOf
<1>1. ASSUME k \in Handlers, NEW d \in Calendars, Deliver(k, d) PROVE FALSE
  BY <1>1, DeliverGoes DEF Begun
<1>2. ASSUME k \notin Handlers, NEW call \in Calls, Start(k[1], call)
      PROVE  Alone(k, c)' /\ Phase(k, c)'
  <2>1. PICK r \in Requests, v \in Vendors : k = <<r, v>>
    BY <1>2 DEF Jobs
  <2>2. /\ v \in Branches(call) /\ Begun(k, job'[k], call.op, FirstStep(call.op, v))
        /\ Call(k)' = call /\ v = "google" /\ job'[k].cal = NoCalendar
    BY <1>0, <1>2, <2>1, StartGoes DEF V, VendorOf
  <2>3. call.op = "integrate" /\ Now(job'[k]) = "fetch"
    BY <2>2 DEF Begun, FirstStep
  <2>4. Vendor[c] = "google"
    <3>1. PICK d \in CalendarsOf(call.on) : Vendor[d] = "google"
      BY <2>2, <2>3 DEF Branches
    <3> QED  BY <2>2, <3>1, CalendarSyncAssumption DEF CalendarsOf
  <2>5. ~AtWork(c) /\ c \notin channels \cup detail \cup status /\ UNCHANGED google
    BY <1>2, <2>2, <2>3, <2>4 DEF Start
  <2>6. ASSUME NEW j \in Jobs, j # k PROVE c \notin job'[j].touched
    <3>1. CASE j \in Handlers \/ j[1] # r
      BY <1>2, <2>1, <2>5, <3>1, StartGoes DEF AtWork
    <3>2. CASE j \notin Handlers /\ j[1] = r
      <4>1. PICK w \in Vendors : j = <<r, w>>
        BY <3>2 DEF Jobs
      <4> QED  BY <1>2, <2>1, <4>1, StartGoes, IdleType DEF Begun
    <3> QED  BY <3>1, <3>2
  <2> QED  BY <2>3, <2>5, <2>6 DEF Alone, Phase, google
<1>3. CASE KeepsJob(k) \/ Step(k) \/ Fail(k)
  <2>1. job[k].op = "integrate" /\ job[k].todo # <<>>
    <3>1. job[k].op = "integrate"
      BY <1>0, <1>3, StepLeaves DEF KeepsJob, Kin, Leaves
    <3> QED  BY <3>1, IdleType DEF CoreInv, HandlersInv
  <2>2. Call(k)' = Call(k)
    BY <1>3, <2>1, OfIntegrations, StepCalls DEF KeepsJob, Call
  <2>3. c \in CalendarsOf(Call(k).on)
    BY <2>2
  <2>4. Alone(k, c) /\ Phase(k, c)
    BY <2>1, <2>3 DEF OwnInv
  <2>5. Phase(k, c)'
    BY <1>0, <1>3, <2>1, <2>3, <2>4, PhaseKept
  <2>6. Now(job[k]) # "exists"
    <3>1. PICK op \in Ops, v \in Vendors, n \in Steps \cup {"none"} :
             op = job[k].op /\ v = V(k) /\ <<Now(job[k]), n>> \in Follows[op][v]
      BY <2>1, NextIs
    <3> QED  BY <3>1, Table
  <2>7. \A d \in CalendarsOf(Call(k).on) : ~IsRow(d)
    BY <2>1, <2>6 DEF RowInv, IntegrationInv
  <2>8. ASSUME NEW j \in Jobs, j # k, c \in job'[j].touched PROVE FALSE
    <3>1. c \notin job[j].touched
      BY <2>4, <2>8 DEF Alone
    <3>2. ~IsRow(c) /\ ~\E d \in Calendars : Of[d] = Of[c] /\ IsRow(d)
      BY <2>3, <2>7 DEF CalendarsOf
    <3>3. job[j].op = "integrate" /\ job[j].todo # <<>> /\ c \in CalendarsOf(Call(j).on)
      BY <1>0, <2>8, <3>1, <3>2, NewTouch
    <3> QED  BY <2>1, <2>3, <2>8, <3>3, OneIntegrates DEF RowInv
  <2> QED  BY <2>5, <2>8 DEF Alone
<1> QED  BY <1>1, <1>2, <1>3, WhoActs DEF Acts

(* A step that is not about the channel of c.                                 *)
Calm(c) ==
    /\ c \in channels' <=> c \in channels
    /\ c \in detail' <=> c \in detail
    /\ c \in status' <=> c \in status
    /\ \A k \in Jobs : job[k].cal = c /\ Now(job[k]) \in Opening =>
          job'[k].cal = c /\ Now(job'[k]) = Now(job[k])
    /\ \A k \in Jobs : job'[k].cal = c /\ Now(job'[k]) = "note" =>
          job[k].cal = c /\ Now(job[k]) = "note"
ActsOn(j, c) == Cal(j) = c /\ (Stop(j) \/ (Opens(j) /\ Now(job[j]) \in Opening))

LEMMA CalmOrActs ==
    ASSUME CoreInv, Next, NEW c \in Calendars, Vendor[c] = "google", ~Removing(c)
    PROVE  Calm(c) \/ \E j \in Jobs : ActsOn(j, c)
<1> SUFFICES ASSUME \A j \in Jobs : ~ActsOn(j, c) PROVE Calm(c)
  OBVIOUS
<1>1. ASSUME NEW k \in Jobs, job[k].cal = c, Now(job[k]) \in Opening
      PROVE  job'[k].cal = c /\ Now(job'[k]) = Now(job[k])
  <2>1. ~Opens(k)
    BY <1>1 DEF ActsOn, Cal
  <2>2. Kin(job[k], job'[k])
    BY <1>1, <2>1, WhoOpens
  <2> QED  BY <1>1, <2>2 DEF Kin, Now
<1>2. ASSUME NEW k \in Jobs, job'[k].cal = c, Now(job'[k]) = "note"
      PROVE  job[k].cal = c /\ Now(job[k]) = "note"
  <2>1. CASE Kin(job[k], job'[k])
    BY <1>2, <2>1 DEF Kin, Now
  <2>2. ASSUME Watch(k), Moved(k, job[k], job'[k], "note") PROVE FALSE
    <3>1. Cal(k) = c /\ Now(job[k]) = "watch"
      BY <1>2, <2>2, DoingIs DEF Moved, Cal, Watch
    <3> QED  BY <2>2, <3>1 DEF ActsOn, Opens, Opening
  <2> QED  BY <1>2, <2>1, <2>2, WhoNotes
<1>3. /\ c \in channels' <=> c \in channels
      /\ c \in detail' <=> c \in detail
      /\ c \in status' <=> c \in status
  <2>1. CASE UNCHANGED <<google, broken>>
    BY <2>1 DEF google
  <2>2. ASSUME NEW j \in Jobs, Fail(j) \/ ForgetAll(j)
        PROVE  UNCHANGED google \/ (ForgetAll(j) /\ Spared(c))
    <3>1. CASE Fail(j)
      BY <3>1 DEF Fail
    <3>2. CASE ForgetAll(j)
      <4>1. Now(job[j]) = "forgetAll" /\ job[j].todo # <<>>
        BY <3>2, DoingIs DEF ForgetAll
      <4>2. PICK op \in Ops, v \in Vendors, n \in Steps \cup {"none"} :
               op = job[j].op /\ v = V(j) /\ <<Now(job[j]), n>> \in Follows[op][v]
        BY <4>1, NextIs
      <4>3. job[j].op = "remove"
        BY <4>1, <4>2, Table
      <4>4. c \notin job[j].touched
        BY <4>3 DEF Removing
      <4> QED  BY <3>2, <4>4, OthersSpare
    <3> QED  BY <2>2, <3>1, <3>2
  <2>3. ASSUME NEW j \in Jobs, Stop(j) \/ Forget(j) \/ SetStatus(j) \/ Watch(j) \/ Note(j)
        PROVE  Cal(j) # c
    <3>1. CASE Stop(j)
      BY <3>1 DEF ActsOn
    <3>2. CASE Forget(j) \/ SetStatus(j) \/ Watch(j) \/ Note(j)
      <4>1. Now(job[j]) \in Opening
        <5>1. \E s \in Opening : Doing(j, s)
          BY <3>2 DEF Forget, SetStatus, Watch, Note, Opening
        <5> QED  BY <5>1, DoingIs
      <4> QED  BY <3>2, <4>1 DEF ActsOn, Opens
    <3> QED  BY <2>3, <3>1, <3>2
  <2>4. ASSUME NEW j \in Jobs, Stop(j) \/ Forget(j) \/ SetStatus(j) \/ Watch(j) \/ Note(j)
        PROVE  /\ c \in channels' <=> c \in channels
               /\ c \in detail' <=> c \in detail
               /\ c \in status' <=> c \in status
    <3>1. Cal(j) # c
      BY <2>3, <2>4
    <3>2. CASE Stop(j)
      BY <3>1, <3>2 DEF Stop
    <3>3. CASE Forget(j) \/ SetStatus(j)
      BY <3>1, <3>3 DEF Forget, SetStatus
    <3>4. CASE Watch(j) \/ Note(j)
      BY <3>1, <3>4 DEF Watch, Note
    <3> QED  BY <2>4, <3>2, <3>3, <3>4
  <2> QED  BY <2>1, <2>2, <2>4, GoogleChanges DEF Spared, google
<1> QED  BY <1>1, <1>2, <1>3 DEF Calm

(* A calendar that is checked was, or a patch owed it.                        *)
LEMMA CheckBefore ==
    ASSUME CoreInv, RowInv, Next, NEW c \in Calendars, Live(c), Vendor[c] = "google",
           calendars'[c].check
    PROVE  calendars[c].check \/ \E k \in Jobs : Owes(k, c)
<1>1. CASE calendars' = calendars
  BY <1>1
<1>2. ASSUME NEW j \in Jobs, PatchCommits(j)
      PROVE  calendars[c].check \/ Owes(j, c)
  <2>1. calendars' = Settings(j) /\ Doing(j, "commit") /\ job[j].op = "patch"
    BY <1>2 DEF PatchCommits, CommitPatch
  <2>2. job[j].todo # <<>> /\ Now(job[j]) = "commit"
    BY <2>1, DoingIs
  <2>3. Placed(j, job[j], Call(j), "commit") /\ Kept(job[j], "commit") /\ Named(j) = NamedBy(j, Call(j))
    BY <2>1, <2>2, StepFacts, OfPatches
  <2>4. CASE c \in Named(j)
    <3>1. calendars'[c] = Row(Call(j).want[c].check, Call(j).want[c].outbound)
      BY <2>1, <2>4 DEF Settings
    <3>2. Call(j).want[c].check
      BY <3>1 DEF Row
    <3>3. c \in job[j].touched /\ c \notin job[j].left
      BY <2>1, <2>3, <2>4 DEF Placed, Kept, Early
    <3> QED  BY <2>1, <2>2, <2>4, <3>2, <3>3 DEF Owes
  <2>5. CASE c \notin Named(j)
    <3>1. calendars'[c] = Row(calendars[c].check, FALSE) \/ calendars'[c] = calendars[c]
      BY <2>1, <2>5 DEF Settings
    <3> QED  BY <3>1 DEF Row
  <2> QED  BY <2>4, <2>5
<1>3. ASSUME NEW j \in Jobs, CommitIntegrate(j) PROVE calendars[c].check
  <2>1. calendars'[c] = IF c \in CalendarsOf(Call(j).on) THEN NewSetting(j, c) ELSE calendars[c]
    BY <1>3 DEF CommitIntegrate
  <2>2. job[j].todo # <<>> /\ Now(job[j]) = "commit" /\ job[j].op = "integrate"
    BY <1>3, DoingIs DEF CommitIntegrate
  <2>3. c \notin CalendarsOf(Call(j).on)
    BY <2>2 DEF RowInv, IntegrationInv, Live
  <2> QED  BY <2>1, <2>3
<1>4. ASSUME NEW j \in Jobs, CommitRemove(j) PROVE calendars[c].check
  <2>1. calendars'[c] = IF c \in CalendarsOf(Call(j).on) THEN NoRow ELSE calendars[c]
    BY <1>4 DEF CommitRemove
  <2> QED  BY <2>1 DEF NoRow
<1> QED  BY <1>1, <1>2, <1>3, <1>4, RowsChange DEF RowsChanged, NoticeCommits

LEMMA OrderCalm ==
    ASSUME CoreInv, RowInv, Next, NEW c \in Calendars, Live(c), InOrder(c), Calm(c)
    PROVE  InOrder(c)'
<1>1. Vendor[c] = "google"
  BY DEF Live
<1>2. \A S \in SUBSET Opening : AtStep(c, S) => AtStep(c, S)'
  BY DEF Calm, AtStep
<1>3. AtStep(c, {"note"})' => AtStep(c, {"note"})
  BY DEF Calm, AtStep
<1>4. /\ Refreshing \subseteq Opening /\ Opening \subseteq Opening
      /\ {"set", "watch", "note"} \subseteq Opening
  BY DEF Refreshing, Opening
<1>5. /\ AtStep(c, Refreshing) => AtStep(c, Refreshing)'
      /\ AtStep(c, Opening) => AtStep(c, Opening)'
      /\ AtStep(c, {"set", "watch", "note"}) => AtStep(c, {"set", "watch", "note"})'
  BY <1>2, <1>4
<1>6. /\ c \in channels' <=> c \in channels
      /\ c \in detail' <=> c \in detail
      /\ c \in status' <=> c \in status
  BY DEF Calm
<1>7. ASSUME NEW k \in Jobs, Owes(k, c)' PROVE Owes(k, c) \/ AtStep(c, Refreshing)'
  <2>1. Owes(k, c) \/ (job'[k].cal = c /\ Now(job'[k]) \in Refreshing)
    BY <1>1, <1>7, OwesBefore
  <2> QED  BY <2>1 DEF AtStep
<1>8. calendars'[c].check => calendars[c].check \/ \E k \in Jobs : Owes(k, c)
  BY <1>1, CheckBefore
<1>9. (calendars[c].check \/ AtStep(c, {"note"}) \/ \E k \in Jobs : Owes(k, c))
      => c \in channels \/ AtStep(c, Refreshing)
  BY DEF InOrder
<1>10. (calendars'[c].check \/ AtStep(c, {"note"})' \/ \E k \in Jobs : Owes(k, c)')
       => c \in channels' \/ AtStep(c, Refreshing)'
  BY <1>3, <1>5, <1>6, <1>7, <1>8, <1>9
<1> QED  BY <1>5, <1>6, <1>10 DEF InOrder

(* A step that is about it.                                                  *)
LEMMA OrderActs ==
    ASSUME CoreInv, RowInv, Next, NEW c \in Calendars, Live(c)', NEW j \in Jobs, ActsOn(j, c),
           \A k \in Jobs : NoteInv(k),
           (Live(c) /\ InOrder(c)) \/ (Note(j) /\ c \notin job[j].shared)
    PROVE  InOrder(c)'
<1>0. c \notin broken' /\ ~Removing(c)' /\ Vendor[c] = "google" /\ Cal(j) = c /\ job[j].cal = c
      /\ calls' = calls
  BY StepCalls DEF Live, ActsOn, Opens, Cal, Step
<1>1. job[j].todo # <<>>
  BY DEF ActsOn, Opens, Stop, Forget, SetStatus, Watch, Note, Fail, Doing
<1>2. ASSUME NEW s \in Opening, Moved(j, job[j], job'[j], s), NEW S, s \in S
      PROVE  AtStep(c, S)'
  BY <1>0, <1>2 DEF Moved, AtStep
<1>3. CASE Stop(j)
  <2>1. c \in channels /\ Advance(j) /\ Doing(j, "stop") /\ c \notin channels'
    <3>1. c \in Lost(j)
      <4>1. Now(job[j]) = "stop"
        BY <1>3, DoingIs DEF Stop
      <4>2. c \in job[j].touched
        BY <1>0, <4>1, CalWorking DEF Working
      <4> QED  BY <1>0, <4>2 DEF Lost
    <3> QED  BY <1>0, <1>3, <3>1 DEF Stop
  <2>2. Moved(j, job[j], job'[j], "forget")
    BY <1>0, <2>1, PlainGoes DEF Plain
  <2>3. AtStep(c, Refreshing)'
    BY <1>2, <2>2 DEF Opening, Refreshing
  <2> QED  BY <2>1, <2>3 DEF InOrder
<1>4. CASE Forget(j)
  <2>1. Doing(j, "forget") /\ Advance(j) /\ channels' = channels
        /\ c \notin detail' /\ c \notin status'
    BY <1>0, <1>4 DEF Forget
  <2>2. Moved(j, job[j], job'[j], "set")
    <3>1. PICK n : /\ Moved(j, job[j], job'[j], n)
                   /\ \/ n = "set" /\ job[j].op = "patch"
                      \/ n = "next" /\ job[j].op = "remove"
      BY <1>0, <2>1, PlainGoes DEF Plain
    <3>2. Cal(j) \in job[j].touched
      BY <2>1, DoingIs, CalWorking DEF Working
    <3>3. job[j].op # "remove"
      BY <1>0, <3>1, <3>2 DEF Moved, Removing
    <3> QED  BY <3>1, <3>3
  <2>3. AtStep(c, Refreshing)' /\ AtStep(c, Opening)' /\ AtStep(c, {"set", "watch", "note"})'
    BY <1>2, <2>2 DEF Opening, Refreshing
  <2> QED  BY <2>3 DEF InOrder
<1>5. CASE SetStatus(j)
  <2>1. Doing(j, "set") /\ Advance(j) /\ c \in status'
    BY <1>0, <1>5 DEF SetStatus
  <2>2. Moved(j, job[j], job'[j], "watch")
    BY <1>0, <2>1, PlainGoes DEF Plain
  <2>3. AtStep(c, Refreshing)' /\ AtStep(c, Opening)' /\ AtStep(c, {"set", "watch", "note"})'
    BY <1>2, <2>2 DEF Opening, Refreshing
  <2> QED  BY <2>3 DEF InOrder
<1>6. CASE Watch(j)
  <2>1. Doing(j, "watch") /\ Advance(j) /\ c \in channels'
    BY <1>0, <1>6 DEF Watch
  <2>2. Moved(j, job[j], job'[j], "note")
    BY <1>0, <2>1, PlainGoes DEF Plain
  <2>3. AtStep(c, Opening)' /\ AtStep(c, {"set", "watch", "note"})'
    BY <1>2, <2>2 DEF Opening
  <2> QED  BY <2>1, <2>3 DEF InOrder
<1>7. CASE Note(j)
  <2>1. /\ Doing(j, "note") /\ Advance(j) /\ channels' = channels /\ Now(job[j]) = "note"
        /\ c \in detail' /\ c \in status'
    BY <1>0, <1>7, DoingIs DEF Note
  <2>2. c \in channels \/ AtStep(c, Refreshing)
    <3>1. CASE Live(c) /\ InOrder(c)
      <4>1. AtStep(c, {"note"})
        BY <1>0, <2>1 DEF AtStep
      <4> QED  BY <3>1, <4>1 DEF InOrder
    <3>2. CASE c \notin job[j].shared
      BY <1>0, <2>1, <3>2 DEF NoteInv
    <3> QED  BY <3>1, <3>2
  <2>3. AtStep(c, Refreshing) => AtStep(c, Refreshing)'
    <3>1. SUFFICES ASSUME NEW k \in Jobs, job[k].cal = c, Now(job[k]) \in Refreshing
                   PROVE  job'[k].cal = c /\ Now(job'[k]) \in Refreshing
      BY DEF AtStep
    <3>2. k # j
      BY <2>1, <3>1 DEF Refreshing
    <3>3. Unmoved(j)
      BY <1>7, GoogleMoves
    <3> QED  BY <3>1, <3>2, <3>3 DEF Unmoved
  <2> QED  BY <2>1, <2>2, <2>3 DEF InOrder
<1>8. CASE Fail(j) /\ Now(job[j]) \in Opening
  <2>1. Lost(j) = job[j].touched \/ Lost(j) = {c}
    BY <1>0 DEF Lost
  <2>2. Cal(j) \in job[j].touched
    BY <1>8, CalWorking DEF Opening, Working
  <2>3. Doing(j, Now(job[j]))
    BY <1>1 DEF Doing, Now, NextStep
  <2>4. broken' = broken \cup {Cal(j)} \/ broken' = broken \cup Lost(j)
    <3>1. CASE Now(job[j]) \in {"watch", "note"}
      BY <1>8, <2>3, <3>1, FailGoes
    <3>2. CASE Now(job[j]) \in {"forget", "set"}
      BY <1>8, <2>3, <3>2, FailGoes
    <3> QED  BY <1>8, <3>1, <3>2 DEF Opening
  <2> QED  BY <1>0, <2>1, <2>2, <2>4
<1> QED  BY <1>3, <1>4, <1>5, <1>6, <1>7, <1>8 DEF ActsOn, Opens

(* An integration leaves its calendars in order.                              *)
LEMMA OrderIntegrated ==
    ASSUME CoreInv, Next, NEW c \in Calendars, Live(c)', NEW j \in Jobs, CommitIntegrate(j),
           c \in CalendarsOf(Call(j).on), OwnInv(j)
    PROVE  InOrder(c)'
<1>1. /\ Doing(j, "commit") /\ job[j].op = "integrate" /\ Advance(j) /\ UNCHANGED <<google, broken>>
      /\ job[j].todo # <<>> /\ Now(job[j]) = "commit" /\ calls' = calls
      /\ calendars'[c] = NewSetting(j, c)
  BY DoingIs DEF CommitIntegrate, Observe
<1>2. Vendor[c] = "google" /\ V(j) = "google" /\ c \notin broken
  BY <1>1, OfIntegrations DEF Live
<1>3. Alone(j, c) /\ Phase(j, c)
  BY <1>1, <1>2 DEF OwnInv
<1>4. job'[j] = Idle /\ Unmoved(j)
  BY <1>1, PlainGoes DEF Plain
<1>5. ASSUME NEW k \in Jobs PROVE c \notin job'[k].touched /\ ~Owes(k, c)'
  <2>1. c \notin job'[k].touched
    BY <1>3, <1>4, <1>5, IdleType DEF Alone, Unmoved
  <2> QED  BY <2>1 DEF Owes
<1>6. ~AtStep(c, {"note"})'
  <2>1. SUFFICES ASSUME NEW k \in Jobs, job'[k].cal = c, Now(job'[k]) = "note" PROVE FALSE
    BY DEF AtStep
  <2>2. k # j /\ job'[k] = job[k]
    BY <1>4, <2>1, IdleType DEF Unmoved, Now, NextStep
  <2>3. Cal(k) \in job[k].touched
    BY <2>1, <2>2, CalWorking DEF Working
  <2> QED  BY <1>3, <2>1, <2>2, <2>3 DEF Alone, Cal
<1>7. CASE c = job[j].cal
  <2>1. c \in channels' \cap detail' \cap status'
    BY <1>1, <1>2, <1>3, <1>7 DEF Phase, google
  <2> QED  BY <2>1 DEF InOrder
<1>8. CASE c # job[j].cal
  <2>1. c \notin channels' \cup detail'
    BY <1>1, <1>3, <1>8 DEF Phase, google
  <2>2. c \notin Primary
    <3>1. job[j].cal \in CalendarsOf(Call(j).on) /\ job[j].cal \in Calendars
          /\ (job[j].cal \in Primary \/ Vendor[job[j].cal] = "apple")
      BY <1>1, StepFacts DEF Placed, Early, CalendarsOf
    <3>2. job[j].cal \in Primary
      BY <1>1, <1>2, <3>1, OfIntegrations
    <3> QED  BY <1>8, <3>1, <3>2, CalendarSyncAssumption DEF CalendarsOf
  <2>3. ~calendars'[c].check
    <3>1. (c \in Primary /\ job[j].first) = FALSE
      BY <2>2
    <3>2. NewSetting(j, c) = Row(FALSE, FALSE)
      BY <1>2, <3>1 DEF NewSetting
    <3> QED  BY <1>1, <3>2 DEF Row
  <2> QED  BY <1>5, <1>6, <2>1, <2>3 DEF InOrder
<1> QED  BY <1>7, <1>8

ChannelInv ==
    /\ \A k \in Jobs : NoteInv(k) /\ OwnInv(k)
    /\ \A c \in Calendars : Live(c) => InOrder(c)

LEMMA ChannelsKept ==
    ASSUME CoreInv, RowInv, ChannelInv, Next PROVE ChannelInv'
<1>1. \A k \in Jobs : NoteInv(k)' /\ OwnInv(k)'
  BY NoteKept, OwnKept DEF ChannelInv, RowInv
<1>2. ASSUME NEW c \in Calendars, Live(c)' PROVE InOrder(c)'
  <2>1. CASE Live(c)
    <3>1. Vendor[c] = "google" /\ ~Removing(c) /\ InOrder(c)
      BY <2>1 DEF Live, ChannelInv
    <3> QED  BY <1>2, <2>1, <3>1, CalmOrActs, OrderCalm, OrderActs DEF ChannelInv
  <2>2. ASSUME NEW j \in Jobs, Note(j), Cal(j) = c, c \notin job[j].shared PROVE InOrder(c)'
    <3>1. ActsOn(j, c)
      <4>1. Now(job[j]) = "note"
        BY <2>2, DoingIs DEF Note
      <4> QED  BY <2>2, <4>1 DEF ActsOn, Opens, Opening
    <3> QED  BY <1>2, <2>2, <3>1, OrderActs DEF ChannelInv
  <2>3. ASSUME NEW j \in Jobs, CommitIntegrate(j), c \in CalendarsOf(Call(j).on)
        PROVE  InOrder(c)'
    BY <1>2, <2>3, OrderIntegrated DEF ChannelInv
  <2> QED  BY <1>2, <2>1, <2>2, <2>3, LiveBefore
<1> QED  BY <1>1, <1>2 DEF ChannelInv

(* The channels, their details and their statuses are in order for every       *)
(* calendar whose subscription did not break off, while handlers work, too.    *)
THEOREM Channels == Spec => []ChannelInv
<1>1. Init => ChannelInv
  <2> SUFFICES ASSUME Init PROVE ChannelInv
    OBVIOUS
  <2>1. \A k \in Jobs : job[k].op = "none" /\ Now(job[k]) = "none" /\ job[k].touched = {}
    BY DEF Init, Idle, Now, NextStep
  <2>2. \A k \in Jobs : NoteInv(k) /\ OwnInv(k)
    BY <2>1 DEF NoteInv, OwnInv
  <2>3. PICK given \in Given :
           /\ calendars = InitSettings(given)
           /\ status = {c \in Calendars :
                 /\ Vendor[c] = "google" /\ Of[c] \in given.integrations
                 /\ c \in Primary \/ c = given.outbound}
    BY DEF Init
  <2>4. detail = status /\ channels = status
    BY DEF Init
  <2>5. ASSUME NEW c \in Calendars, Live(c) PROVE InOrder(c)
    <3>1. calendars[c].check => c \in status
      <4>1. SUFFICES ASSUME calendars[c].check PROVE c \in status
        OBVIOUS
      <4>2. calendars[c] = IF Of[c] \notin given.integrations THEN NoRow
                           ELSE Row(Vendor[c] = "apple" \/ c = given.outbound, c = given.outbound)
        BY <2>3 DEF InitSettings
      <4>3. Vendor[c] = "google"
        BY <2>5 DEF Live
      <4>4. Of[c] \in given.integrations
        BY <4>1, <4>2 DEF NoRow
      <4>5. ASSUME c # given.outbound PROVE FALSE
        <5>1. (Vendor[c] = "apple" \/ c = given.outbound) = FALSE
          BY <4>3, <4>5
        <5>2. calendars[c] = Row(FALSE, c = given.outbound)
          BY <4>2, <4>4, <5>1
        <5> QED  BY <4>1, <5>2 DEF Row
      <4> QED  BY <2>3, <4>3, <4>4, <4>5
    <3>2. ~AtStep(c, {"note"}) /\ \A k \in Jobs : ~Owes(k, c)
      BY <2>1 DEF AtStep, Owes
    <3> QED  BY <2>4, <3>1, <3>2 DEF InOrder
  <2> QED  BY <2>2, <2>5 DEF ChannelInv
<1>2. CoreInv /\ RowInv /\ ChannelInv /\ [Next]_vars => ChannelInv'
  <2> SUFFICES ASSUME CoreInv, RowInv, ChannelInv, [Next]_vars PROVE ChannelInv'
    OBVIOUS
  <2>1. CASE Next
    BY <2>1, ChannelsKept
  <2>2. CASE UNCHANGED vars
    <3> USE <2>2 DEF vars, store, google, outside, seen
    <3>1. \A k \in Jobs : (NoteInv(k) <=> NoteInv(k)') /\ (OwnInv(k) <=> OwnInv(k)')
      BY DEF NoteInv, OwnInv, Alone, Phase, CalendarsOf, Call
    <3>2. \A c \in Calendars : (Live(c) <=> Live(c)') /\ (InOrder(c) <=> InOrder(c)')
      BY DEF Live, InOrder, AtStep, Removing, Owes, IsRow, Named, Call
    <3> QED  BY <3>1, <3>2 DEF ChannelInv
  <2> QED  BY <2>1, <2>2
<1> QED  BY <1>1, <1>2, Core, Rows, PTL DEF Spec

(* Unless a subscription broke off, a checked calendar that nobody works on    *)
(* has an open channel, an open channel is known by its details and its        *)
(* status, and no details are of a closed one.                                 *)
THEOREM ChannelsInOrder == Spec => []ChannelsKnown
<1>1. CoreInv /\ ChannelInv => ChannelsKnown
  <2> SUFFICES ASSUME CoreInv, ChannelInv, NEW c \in ByGoogle \ broken, ~AtWork(c)
               PROVE  /\ c \in channels <=> c \in detail
                      /\ c \in channels => c \in status
                      /\ calendars[c].check => c \in channels
    BY DEF ChannelsKnown
  <2>1. c \in Calendars /\ Live(c)
    BY DEF ByGoogle, Live, Removing, AtWork
  <2>2. \A S : ~AtStep(c, S)
    BY DEF AtStep, AtWork
  <2>3. InOrder(c)
    BY <2>1 DEF ChannelInv
  <2> QED  BY <2>2, <2>3 DEF InOrder
<1> QED  BY <1>1, Core, Channels, PTL

=============================================================================
