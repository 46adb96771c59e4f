------------------------- MODULE CalendarMirror_proofs -------------------------
(***************************************************************************)
(* The rows of a calendar at Google are its events: proofs about               *)
(* CalendarSync, continued.                                                    *)
(***************************************************************************)
EXTENDS CalendarSync_proofs
(* A step that leaves what has been read as it is: opening channels, and what  *)
(* comes before and after the listings.                                       *)
Steady(k) ==
    /\ job[k].todo # <<>> /\ job[k].op \in {"patch", "integrate", "remove"}
    /\ job'[k].op = job[k].op /\ job'[k].cal = job[k].cal /\ job'[k].touched = job[k].touched
    /\ job'[k].fresh = job[k].fresh /\ job'[k].obsolete = job[k].obsolete
    /\ job'[k].shared = job[k].shared /\ job'[k].outdated = job[k].outdated
    /\ job[k].op = "patch" =>
          job'[k].left = job[k].left /\ (Now(job'[k]) \in Working => Now(job[k]) \in Working)
    /\ Now(job[k]) \notin {"list", "rows"} /\ Now(job'[k]) \notin {"list", "rows"}
Picks(k) ==
    /\ NextCalendar(k) /\ Now(job[k]) = "next"
    /\ job'[k].cal \in job[k].left /\ job'[k].left = job[k].left \ {job'[k].cal}
    /\ job'[k].op = job[k].op /\ job'[k].touched = job[k].touched
    /\ job'[k].shared = job[k].shared /\ job'[k].outdated = job[k].outdated
    /\ job'[k].fresh = job[k].fresh /\ job'[k].obsolete = job[k].obsolete
    /\ job'[k].op = "patch" => Now(job'[k]) = "list"
    /\ Now(job'[k]) \in {"list", "stop"}

LEMMA StepWorks ==
    ASSUME CoreInv, NEW k \in Jobs, Step(k) \/ Fail(k), job'[k].touched # {}
    PROVE  TouchStep(k) \/ List(k) \/ Compare(k) \/ Picks(k) \/ Steady(k)
<1>0. job'[k] # Idle
  BY IdleType
<1>1. job[k].todo # <<>> /\ calls' = calls /\ job'[k].op = job[k].op
  BY <1>0, StepLeaves, StepCalls DEF Leaves
<1>2. /\ Placed(k, job[k], Call(k), Now(job[k])) /\ Owned(k, job[k], Call(k))
      /\ job[k].op \in Ops
  BY <1>1, StepFacts, WorksFacts
<1>3. PICK op \in Ops, v \in Vendors, n \in Steps \cup {"none"} :
         op = job[k].op /\ v = V(k) /\ <<Now(job[k]), n>> \in Follows[op][v]
  BY <1>1, NextIs
<1>4. ASSUME NEW m, Moved(k, job[k], job'[k], m), m \notin {"list", "rows"},
             Now(job[k]) \notin {"list", "rows"},
             job[k].op = "patch" => (m \in Working => Now(job[k]) \in Working),
             job[k].op # "notice"
      PROVE  Steady(k)
  BY <1>1, <1>2, <1>4 DEF Moved, Steady, Ops
<1>5. CASE CheckStatus(k)
  <2>1. Moved(k, job[k], job'[k], "load") /\ Doing(k, "status")
    BY <1>0, <1>5, CheckStatusGoes
  <2>2. job[k].touched = {}
    BY <1>2, <2>1, DoingIs DEF Placed, Early
  <2> QED  BY <2>1, <2>2 DEF Moved
<1>6. CASE LookForOutbound(k)
  <2>1. /\ Agree(job[k], job'[k]) /\ job[k].op = "integrate" /\ Now(job'[k]) = "set"
        /\ job'[k].fresh = job[k].fresh /\ job'[k].obsolete = job[k].obsolete
        /\ job'[k].outdated = job[k].outdated /\ Now(job[k]) = "outbound"
    BY <1>6, LookForOutboundGoes, DoingIs DEF OnTo
  <2> QED  BY <1>1, <2>1 DEF Agree, Steady
<1>7. CASE LoadDetails(k)
  <2>1. /\ job[k].op = "remove" /\ Now(job'[k]) = "next" /\ Now(job[k]) = "details"
        /\ job'[k].op = "remove" /\ job'[k].cal = job[k].cal
        /\ job'[k].touched = job[k].touched /\ job'[k].shared = job[k].shared
        /\ job'[k].fresh = job[k].fresh /\ job'[k].obsolete = job[k].obsolete
        /\ job'[k].outdated = job[k].outdated
    BY <1>7, LoadDetailsGoes, DoingIs DEF OnTo
  <2> QED  BY <1>1, <2>1 DEF Steady
<1>8. CASE NextCalendar(k)
  <2>1. Now(job[k]) = "next" /\ job[k].op \in {"patch", "remove"}
    BY <1>8, NextCalendarGoes, DoingIs
  <2>2. CASE Moved(k, job[k], job'[k], "commit")
    BY <1>4, <2>1, <2>2 DEF Working
  <2>3. CASE ~Moved(k, job[k], job'[k], "commit")
    BY <1>8, <2>1, <2>3, NextCalendarGoes DEF Picks, OnTo
  <2> QED  BY <2>2, <2>3
<1>9. CASE Known(k)
  <2>1. Now(job[k]) = "known" /\ job[k].op = "patch"
    BY <1>9, KnownGoes, DoingIs
  <2>2. \E m \in {"stop", "set"} : Moved(k, job[k], job'[k], m)
    BY <1>9, KnownGoes
  <2> QED  BY <1>4, <2>1, <2>2 DEF Working
<1>10. CASE Stop(k) \/ Forget(k) \/ SetStatus(k) \/ Note(k)
  <2>1. PICK s \in {"stop", "forget", "set", "note"} : Doing(k, s)
    BY <1>10 DEF Stop, Forget, SetStatus, Note
  <2>2. Advance(k) /\ s \in Plain
    BY <1>0, <1>1, <1>10, RollBackGoes DEF Stop, Forget, SetStatus, Note, Plain
  <2>3. PICK m : Moved(k, job[k], job'[k], m) /\ m \in {"forget", "set", "watch", "next", "commit"}
    BY <1>1, <2>1, <2>2, PlainGoes
  <2>4. Now(job[k]) = s /\ s \in Working
    BY <2>1, DoingIs DEF Working
  <2>5. job[k].op # "notice"
    BY <1>3, <2>4, Table
  <2> QED  BY <1>4, <2>1, <2>3, <2>4, <2>5
<1>11. CASE Watch(k)
  <2>1. Doing(k, "watch") /\ (Advance(k) \/ SkipSubscribing(k))
    BY <1>11 DEF Watch
  <2>2. PICK m : Moved(k, job[k], job'[k], m) /\ m \in {"note", "next", "commit"}
    BY <1>1, <2>1, PlainGoes, SkipSubscribingGoes DEF Plain
  <2>3. Now(job[k]) = "watch"
    BY <2>1, DoingIs
  <2>4. job[k].op # "notice"
    BY <1>3, <2>3, Table
  <2> QED  BY <1>4, <2>2, <2>3, <2>4 DEF Working
<1>12. CASE Fail(k)
  <2>1. PICK s \in {"watch", "note"} : Doing(k, s) /\ \E m \in {"next", "commit"} : Moved(k, job[k], job'[k], m)
    BY <1>0, <1>12, FailGoes
  <2>2. Now(job[k]) = s
    BY <2>1, DoingIs
  <2>3. job[k].op # "notice"
    BY <1>3, <2>1, <2>2, Table
  <2> QED  BY <1>4, <2>1, <2>2, <2>3 DEF Working
<1>13. CASE CommitNotice(k) \/ CommitPatch(k) \/ CommitIntegrate(k) \/ CommitRemove(k)
  <2>1. Doing(k, "commit") /\ (Advance(k) \/ RollBack(k))
    BY <1>13 DEF CommitNotice, CommitPatch, CommitIntegrate, CommitRemove
  <2> QED  BY <1>0, <1>1, <2>1, PlainGoes, RollBackGoes DEF Plain
<1>14. CASE Exists(k)
  <2>1. Doing(k, "exists") /\ Advance(k)
    BY <1>0, <1>14, EndGoes DEF Exists
  <2>2. PICK m : Moved(k, job[k], job'[k], m)
    BY <1>1, <2>1, PlainGoes DEF Plain
  <2>3. job[k].touched = {}
    BY <1>2, <2>1, DoingIs DEF Placed, Early
  <2> QED  BY <2>2, <2>3 DEF Moved
<1>15. CASE ForgetAll(k)
  <2>1. Doing(k, "forgetAll") /\ Advance(k)
    BY <1>15 DEF ForgetAll
  <2>2. PICK m : Moved(k, job[k], job'[k], m) /\ OnTo(k, m) /\ m = "details"
    BY <1>1, <2>1, PlainGoes DEF Plain
  <2>3. Now(job[k]) = "forgetAll"
    BY <2>1, DoingIs
  <2>4. job[k].op = "remove"
    BY <1>3, <2>3, Table
  <2> QED  BY <1>4, <2>2, <2>3, <2>4
<1> QED  BY <1>5, <1>6, <1>7, <1>8, <1>9, <1>10, <1>11, <1>12, <1>13, <1>14, <1>15 DEF Step, TouchStep

(* Whoever has touched a calendar after a step has been left alone, or went on *)
(* in one of these ways.                                                      *)
LEMMA WhoWorks ==
    ASSUME CoreInv, Next, NEW k \in Jobs, job'[k].touched # {}
    PROVE  /\ k \notin Handlers => Call(k)' = Call(k)
           /\ \/ Kin(job[k], job'[k])
              \/ TouchStep(k) \/ List(k) \/ Compare(k) \/ Picks(k) \/ Steady(k)
<1>1. ASSUME k \in Handlers, NEW d \in Calendars, Deliver(k, d) PROVE FALSE
  BY <1>1, DeliverGoes DEF Begun
<1>2. ASSUME k \notin Handlers, NEW call \in Calls, Start(k[1], call) PROVE FALSE
  <2>1. PICK r \in Requests, v \in Vendors : k = <<r, v>>
    BY <1>2 DEF Jobs
  <2> QED  BY <1>2, <2>1, StartGoes, IdleType DEF Begun
<1>3. CASE KeepsJob(k)
  BY <1>3 DEF KeepsJob
<1>4. CASE Step(k) \/ Fail(k)
  BY <1>4, StepWorks, StepCalls DEF Call
<1> QED  BY <1>1, <1>2, <1>3, <1>4, WhoActs DEF Acts

-----------------------------------------------------------------------------
(* What happens to a calendar, as its handlers learn it.                      *)
Taken(c, h) == h \in Handlers /\ job[h].todo # <<>> /\ job[h].cal = c
AllOutdated(c) == \A k \in Jobs : c \in job[k].touched /\ c \in job'[k].touched => c \in job'[k].outdated

(* A notice that is gone has been delivered.                                  *)
LEMMA NoticesLost ==
    ASSUME CoreInv, Next, NEW c \in Calendars, c \in notices, c \notin notices'
    PROVE  \E h \in Handlers : job[h].todo = <<>> /\ Taken(c, h)'
<1>1. ASSUME NEW j \in Jobs, Step(j) PROVE FALSE
  BY <1>1 DEF Step, List, Compare, CheckStatus, LoadCalendar, Owner, CommitNotice, CommitPatch,
         CommitIntegrate, CommitRemove, NextCalendar, Known, Stop, Forget, SetStatus, Watch, Note,
         Exists, Fetch, LookForOutbound, LoadIntegration,
         ForgetAll, LoadDetails, RollBack, Retry, outside
<1>2. ASSUME NEW j \in Jobs, Fail(j) PROVE FALSE
  BY <1>2 DEF Fail, RollBack, Retry
<1>3. ASSUME NEW d \in Calendars, NEW e \in Events, AddEvent(d, e) \/ Book(e, d) \/ RemoveEvent(d, e)
      PROVE  FALSE
  BY <1>3 DEF AddEvent, Book, RemoveEvent, Put, Announced
<1>4. ASSUME NEW r \in Requests, NEW call \in Calls, Start(r, call) PROVE FALSE
  BY <1>4 DEF Start, outside
<1>5. ASSUME NEW h \in Handlers, NEW d \in Calendars, Deliver(h, d)
      PROVE  job[h].todo = <<>> /\ Taken(c, h)'
  <2>1. d = c
    BY <1>5 DEF Deliver
  <2> QED  BY <1>5, <2>1, DeliverGoes DEF Begun, Deliver, Taken
<1> QED  BY <1>1, <1>2, <1>3, <1>4, <1>5 DEF Next

(* A handler of a notice keeps its calendar, sends the notice back, drops it   *)
(* or commits.                                                                *)
Dropped(c) == c \in unseen' /\ AllOutdated(c)
LEMMA HandlerGoes ==
    ASSUME CoreInv, Next, NEW c \in Calendars, NEW h \in Handlers, Taken(c, h)
    PROVE  Taken(c, h)' \/ c \in notices' \/ Dropped(c) \/ NoticeCommits(h)
<1>1. h \in Jobs /\ job[h].todo # <<>> /\ Cal(h) = c
  BY DEF Taken, Jobs, Cal
<1>2. job[h].op = "notice" /\ job[h] \in JobType
  BY <1>1, StepFacts, WorksFacts DEF Owned
<1>3. CASE KeepsJob(h)
  BY <1>1, <1>3 DEF KeepsJob, Kin, Taken
<1>4. ASSUME NEW d \in Calendars, Deliver(h, d) PROVE FALSE
  BY <1>1, <1>4 DEF Deliver
<1>5. ASSUME Skip(h), job'[h] = Idle,
             \A k \in Jobs \ {h} : Cal(h) \in job[k].touched => Cal(h) \in job'[k].outdated
      PROVE  Dropped(c)
  <2>1. c \in unseen' /\ job'[h].touched = {}
    BY <1>1, <1>5, IdleType DEF Skip
  <2> QED  BY <1>1, <1>5, <2>1 DEF Dropped, AllOutdated
<1>6. CASE CheckStatus(h)
  <2>1. CASE Moved(h, job[h], job'[h], "load")
    BY <1>1, <2>1 DEF Moved, Taken, Cal
  <2>2. CASE /\ Skip(h) /\ job'[h] = Idle
             /\ \A k \in Jobs \ {h} :
                   Cal(h) \in job[k].touched => Cal(h) \in job'[k].outdated
    <3>1. Dropped(c)
      BY <1>5, <2>2
    <3> QED  BY <3>1
  <2>3. \/ Moved(h, job[h], job'[h], "load")
        \/ /\ Skip(h) /\ job'[h] = Idle
           /\ \A k \in Jobs \ {h} :
                   Cal(h) \in job[k].touched => Cal(h) \in job'[k].outdated
    BY <1>1, <1>6, CheckStatusGoes
  <2> QED  BY <2>1, <2>2, <2>3
<1>7. CASE LoadCalendar(h)
  <2>1. CASE OnTo(h, "list") /\ job'[h].cal = Cal(h)
    BY <1>1, <2>1 DEF OnTo, Taken
  <2>2. CASE /\ Skip(h) /\ job'[h] = Idle
             /\ \A k \in Jobs \ {h} :
                   Cal(h) \in job[k].touched => Cal(h) \in job'[k].outdated
    <3>1. Dropped(c)
      BY <1>5, <2>2
    <3> QED  BY <3>1
  <2>3. \/ OnTo(h, "list") /\ job'[h].cal = Cal(h)
        \/ /\ Skip(h) /\ job'[h] = Idle
           /\ \A k \in Jobs \ {h} :
                   Cal(h) \in job[k].touched => Cal(h) \in job'[k].outdated
    BY <1>1, <1>7, LoadCalendarGoes
  <2> QED  BY <2>1, <2>2, <2>3
<1>8. CASE List(h) \/ Compare(h)
  <2>1. Agree(job[h], job'[h]) /\ job'[h].todo # <<>>
    <3>1. CASE List(h)
      BY <1>1, <3>1, ListGoes DEF OnTo
    <3>2. CASE Compare(h)
      BY <1>1, <3>2, CompareGoes DEF OnTo
    <3> QED  BY <1>8, <3>1, <3>2
  <2> QED  BY <1>1, <2>1 DEF Agree, Taken, Cal
<1>9. ASSUME RollBack(h) PROVE c \in notices'
  BY <1>1, <1>9 DEF RollBack, Retry
<1>10. CASE CommitNotice(h)
  BY <1>9, <1>10 DEF CommitNotice, NoticeCommits
<1>11. CASE Fail(h)
  <2>1. CASE \E s \in {"watch", "note"} : Doing(h, s)
    <3>1. job[h].op \in {"patch", "integrate"}
      BY <1>1, <1>11, <2>1, FailGoes
    <3> QED  BY <1>2, <3>1
  <2>2. CASE ~\E s \in {"watch", "note"} : Doing(h, s)
    BY <1>9, <1>11, <2>2 DEF Fail
  <2> QED  BY <2>1, <2>2
<1>12. CASE Step(h)
  <2>1. PICK op \in Ops, v \in Vendors, n \in Steps \cup {"none"} :
           op = job[h].op /\ v = V(h) /\ <<Now(job[h]), n>> \in Follows[op][v]
    BY <1>1, NextIs
  <2>2. Now(job[h]) \in {"status", "load", "list", "rows", "commit"}
    BY <1>2, <2>1, Table DEF Steps
  <2>3. \A s : Doing(h, s) => s \in {"status", "load", "list", "rows", "commit"}
    BY <2>2, DoingIs
  <2>4. \A s \in {"owner", "next", "known", "stop", "forget", "set", "watch", "note", "exists",
                  "fetch", "outbound", "integration", "forgetAll", "details"} : ~Doing(h, s)
    BY <2>3
  <2> QED  BY <1>2, <1>6, <1>7, <1>8, <1>10, <1>12, <2>4
           DEF Step, Owner, NextCalendar, CommitPatch, Known, Stop, Forget, SetStatus, Watch, Note,
               Exists, Fetch, LookForOutbound, CommitIntegrate, LoadIntegration, ForgetAll,
               LoadDetails, CommitRemove
<1> QED  BY <1>1, <1>3, <1>4, <1>11, <1>12, WhoActs DEF Acts

(* A change of a calendar is told, or leaves all who work on it outdated.      *)
LEMMA EventsChange ==
    ASSUME CoreInv, Next, NEW c \in Calendars, events'[c] # events[c]
    PROVE  c \in notices' \/ Dropped(c)
<1>1. ASSUME NEW d \in Calendars, Announced(d), calls' = calls, d = c
      PROVE  c \in notices' \/ Dropped(c)
  BY <1>1, AnnouncedGoes DEF Dropped, AllOutdated
<1>2. ASSUME NEW d \in Calendars, NEW e \in Events, AddEvent(d, e) \/ Book(e, d) \/ RemoveEvent(d, e)
      PROVE  c \in notices' \/ Dropped(c)
  <2>1. /\ Announced(d) /\ calls' = calls
        /\ \/ events' = [events EXCEPT ![d] = @ \cup {e}]
           \/ events' = [events EXCEPT ![d] = @ \ {e}]
    BY <1>2 DEF AddEvent, Book, RemoveEvent, Put
  <2>2. events \in [Calendars -> SUBSET Events]
    BY DEF CoreInv, TypeOK
  <2>3. d = c
    BY <2>1, <2>2
  <2> QED  BY <1>1, <2>1, <2>3
<1>3. ASSUME NEW j \in Jobs, Step(j) \/ Fail(j) PROVE FALSE
  BY <1>3 DEF Step, List, Compare, CheckStatus, LoadCalendar, Owner, CommitNotice, CommitPatch,
         CommitIntegrate, CommitRemove, NextCalendar, Known, Stop, Forget, SetStatus, Watch, Note,
         Exists, Fetch, LookForOutbound, LoadIntegration, ForgetAll, LoadDetails, Fail, outside
<1>4. ASSUME NEW h \in Handlers, NEW d \in Calendars, Deliver(h, d) PROVE FALSE
  BY <1>4 DEF Deliver
<1>5. ASSUME NEW r \in Requests, NEW call \in Calls, Start(r, call) PROVE FALSE
  BY <1>5 DEF Start, outside
<1> QED  BY <1>2, <1>3, <1>4, <1>5 DEF Next

(* Rows are changed by those who have touched the calendar.                   *)
LEMMA RowsTouch ==
    ASSUME CoreInv, Next, NEW c \in Calendars, Vendor[c] = "google", rows'[c] # rows[c]
    PROVE  \E j \in Jobs : RowsChanged(j) /\ c \in job[j].touched
<1>1. PICK j \in Jobs : RowsChanged(j)
  BY RowsChange
<1>2. /\ job[j].todo # <<>> /\ Kept(job[j], "commit") /\ Placed(j, job[j], Call(j), "commit")
      /\ Doing(j, "commit")
  BY <1>1, Committing
<1> SUFFICES ASSUME c \notin job[j].touched PROVE FALSE
  BY <1>1
<1>3. \A e \in Events : <<c, e>> \notin job[j].fresh \cup job[j].obsolete
  BY <1>2 DEF Kept
<1>4. rows \in [Calendars -> [Events -> 0..2]]
  BY DEF CoreInv, TypeOK
<1>5. ASSUME NEW before \in [Calendars -> [Events -> 0..2]], rows' = Synchronized(j, before),
             \A e \in Events : before[c][e] = rows[c][e]
      PROVE  FALSE
  <2>1. \A e \in Events : rows'[c][e] = rows[c][e]
    BY <1>3, <1>5, SynchronizedIs
  <2>2. rows'[c] = [e \in Events |-> rows'[c][e]]
    BY <1>5 DEF Synchronized
  <2>3. rows[c] = [e \in Events |-> rows[c][e]]
    BY <1>4
  <2>4. rows'[c] = rows[c]
    BY <2>1, <2>2, <2>3
  <2> QED  BY <2>4
<1>6. CASE NoticeCommits(j) \/ CommitIntegrate(j)
  BY <1>4, <1>5, <1>6 DEF NoticeCommits, CommitIntegrate
<1>7. CASE PatchCommits(j)
  <2>1. rows' = Synchronized(j, RowsLeft(j)) /\ job[j].op = "patch"
    BY <1>7 DEF PatchCommits, CommitPatch
  <2>2. c \notin Asked(j, FALSE)
    <3>1. Named(j) \subseteq job[j].touched
      BY <1>2, <2>1, OfPatches DEF Placed, Early
    <3> QED  BY <3>1 DEF Asked
  <2>3. \A e \in Events : RowsLeft(j)[c][e] = rows[c][e] /\ RowsLeft(j) \in [Calendars -> [Events -> 0..2]]
    BY <2>2, RowsLeftIs
  <2>4. CASE Events = {}
    <3>1. [e \in Events |-> 0] \in [Events -> 0..2] /\ \A d \in Calendars : rows[d] \in [Events -> 0..2]
      BY <1>4
    <3>2. RowsLeft(j) \in [Calendars -> [Events -> 0..2]]
      BY <3>1 DEF RowsLeft
    <3> QED  BY <1>5, <2>1, <2>4, <3>2
  <2>5. CASE Events # {}
    BY <1>5, <2>1, <2>3, <2>5
  <2> QED  BY <2>4, <2>5
<1>8. CASE CommitRemove(j)
  <2>1. job[j].op = "remove" /\ rows'[c] = IF c \in CalendarsOf(Call(j).on) THEN [e \in Events |-> 0] ELSE rows[c]
    BY <1>8 DEF CommitRemove
  <2>2. c \in CalendarsOf(Call(j).on)
    BY <2>1
  <2>3. V(j) = "google"
    BY <1>2, <2>1, <2>2, OfIntegrations
  <2>4. job[j].touched = CalendarsOf(Call(j).on)
    BY <1>2, <2>1, <2>3 DEF Placed, Early
  <2> QED  BY <2>2, <2>4
<1> QED  BY <1>1, <1>6, <1>7, <1>8 DEF RowsChanged

-----------------------------------------------------------------------------
(* Who changes a setting has touched the calendar, or integrates it.           *)
LEMMA CheckChange ==
    ASSUME CoreInv, Next, NEW c \in Calendars, Vendor[c] = "google",
           calendars'[c].check # calendars[c].check
    PROVE  \E j \in Jobs :
              /\ RowsChanged(j)
              /\ \/ c \in job[j].touched
                 \/ CommitIntegrate(j) /\ c \in CalendarsOf(Call(j).on)
<1>1. PICK j \in Jobs : RowsChanged(j)
  BY RowsChange
<1>2. /\ job[j].todo # <<>> /\ Placed(j, job[j], Call(j), "commit")
  BY <1>1, Committing
<1>3. ~NoticeCommits(j)
  BY DEF NoticeCommits
<1>4. CASE PatchCommits(j)
  <2>1. calendars' = Settings(j) /\ job[j].op = "patch"
    BY <1>4 DEF PatchCommits, CommitPatch
  <2>2. Named(j) \subseteq job[j].touched
    BY <1>2, <2>1, OfPatches DEF Placed, Early
  <2>3. c \in Named(j)
    BY <2>1 DEF Settings, Row
  <2> QED  BY <1>1, <2>2, <2>3
<1>5. CASE CommitIntegrate(j)
  <2>1. c \in CalendarsOf(Call(j).on)
    BY <1>5 DEF CommitIntegrate
  <2> QED  BY <1>1, <1>5, <2>1
<1>6. CASE CommitRemove(j)
  <2>1. job[j].op = "remove" /\ c \in CalendarsOf(Call(j).on)
    BY <1>6 DEF CommitRemove
  <2>2. V(j) = "google"
    BY <1>2, <2>1, OfIntegrations
  <2>3. c \in job[j].touched
    BY <1>2, <2>1, <2>2 DEF Placed, Early
  <2> QED  BY <1>1, <2>3
<1> QED  BY <1>1, <1>3, <1>4, <1>5, <1>6 DEF RowsChanged

(* What a handler has not seen all of, or shares, stays so while it works on.  *)
LEMMA Ages ==
    ASSUME CoreInv, Next, NEW k \in Jobs, NEW c, c \in job[k].touched, c \in job'[k].touched
    PROVE  /\ c \in job[k].outdated => c \in job'[k].outdated
           /\ c \in job[k].shared => c \in job'[k].shared
<1>1. CASE Kin(job[k], job'[k])
  BY <1>1 DEF Kin
<1>2. ASSUME TouchStep(k) PROVE FALSE
  <2>1. PICK s \in Early : Doing(k, s)
    BY <1>2 DEF TouchStep, LoadCalendar, Owner, LoadIntegration, Fetch, Early
  <2>2. job[k].todo # <<>> /\ Now(job[k]) = s
    BY <2>1, DoingIs
  <2>3. job[k].touched = {}
    BY <2>2, StepFacts DEF Placed
  <2> QED  BY <2>3
<1>3. CASE List(k)
  BY <1>3, ListGoes DEF Agree
<1>4. CASE Compare(k)
  BY <1>4, CompareGoes DEF Agree
<1>5. CASE Picks(k) \/ Steady(k)
  BY <1>5 DEF Picks, Steady
<1> QED  BY <1>1, <1>2, <1>3, <1>4, <1>5, WhoWorks

(* What excuses a handler that has not seen all of a calendar.                 *)
Excuse(k, c) ==
    \/ c \in job[k].outdated \cup job[k].shared \cup notices
    \/ \E h \in Handlers \ {k} : Taken(c, h)

LEMMA TakenTakes ==
    ASSUME CoreInv, NEW h, NEW c, NoticeCommits(h), Taken(c, h)
    PROVE  c \in job[h].touched /\ h \in Jobs
<1>1. h \in Jobs /\ job[h].op = "notice" /\ Cal(h) = c
  BY DEF Taken, Jobs, Cal, NoticeCommits, CommitNotice
<1>2. Placed(h, job[h], Call(h), "commit")
  BY <1>1, Committing DEF RowsChanged
<1> QED  BY <1>1, <1>2 DEF Placed, Early, Cal

(* It is excused as long as it works on the calendar.                         *)
LEMMA ExcuseStays ==
    ASSUME CoreInv, PairsInv, Next, NEW k \in Jobs, NEW c \in Calendars, Excuse(k, c),
           c \in job[k].touched, c \in job'[k].touched
    PROVE  Excuse(k, c)'
<1>1. CASE c \in job[k].outdated \cup job[k].shared
  BY <1>1, Ages DEF Excuse
<1>2. job[k].todo # <<>>
  BY IdleType DEF CoreInv, HandlersInv
<1>3. CASE c \in notices
  <2>1. CASE c \in notices'
    BY <2>1 DEF Excuse
  <2>2. CASE c \notin notices'
    <3>1. PICK h \in Handlers : job[h].todo = <<>> /\ Taken(c, h)'
      BY <1>3, <2>2, NoticesLost
    <3>2. h # k
      BY <1>2, <3>1
    <3> QED  BY <3>1, <3>2 DEF Excuse
  <2> QED  BY <2>1, <2>2
<1>4. ASSUME NEW h \in Handlers \ {k}, Taken(c, h) PROVE Excuse(k, c)'
  <2>1. CASE Taken(c, h)'
    BY <2>1 DEF Excuse
  <2>2. CASE c \in notices'
    BY <2>2 DEF Excuse
  <2>3. CASE Dropped(c)
    BY <2>3 DEF Dropped, AllOutdated, Excuse
  <2>4. CASE NoticeCommits(h)
    <3>1. c \in job[h].touched /\ h \in Jobs
      BY <1>4, <2>4, TakenTakes
    <3>2. c \in job[k].shared
      BY <3>1 DEF PairsInv
    <3> QED  BY <1>1, <3>2
  <2> QED  BY <1>4, <2>1, <2>2, <2>3, <2>4, HandlerGoes
<1> QED  BY <1>1, <1>3, <1>4 DEF Excuse

-----------------------------------------------------------------------------
(* What a listing says.  Good(k, c): the patch k does not turn the calendar c   *)
(* off.  AfterIt(k, c, e): e has a row when k has committed.                    *)
Good(k, c) == c \in Named(k) => Call(k).want[c].check
AfterIt(k, c, e) ==
    /\ <<c, e>> \notin job[k].obsolete
    /\ rows[c][e] > 0 \/ <<c, e>> \in job[k].fresh
Compared(k, c) ==
    /\ c \in job[k].touched
    /\ \/ job[k].op = "notice" /\ Now(job[k]) = "commit"
       \/ /\ job[k].op = "patch" /\ c \notin job[k].left /\ Good(k, c)
          /\ ~(job[k].cal = c /\ Now(job[k]) \in {"list", "rows"})
       \/ job[k].op = "integrate"
ListInv(k) ==
    Now(job[k]) = "rows" /\ Vendor[Cal(k)] = "google" =>
        Excuse(k, Cal(k)) \/ job[k].listed = events[Cal(k)]
CompareInv(k) ==
    \A c \in Calendars : Vendor[c] = "google" /\ Compared(k, c) =>
        Excuse(k, c) \/ \A e \in Events : AfterIt(k, c, e) <=> e \in events[c]

(* A calendar that changes now excuses whoever works on it.                   *)
LEMMA ChangeExcuses ==
    ASSUME CoreInv, Next, NEW k \in Jobs, NEW c \in Calendars, c \in job[k].touched,
           c \in job'[k].touched, events'[c] # events[c]
    PROVE  Excuse(k, c)'
BY EventsChange DEF Excuse, Dropped, AllOutdated

LEMMA ListKept ==
    ASSUME CoreInv, PairsInv, Next, NEW k \in Jobs, ListInv(k) PROVE ListInv(k)'
<1> SUFFICES ASSUME NEW c, c = job'[k].cal, Now(job'[k]) = "rows", Vendor[c] = "google",
                    ~Excuse(k, c)'
             PROVE  job'[k].listed = events'[c]
  BY DEF ListInv, Cal, Excuse, Taken
<1>1. CoreInv'
  BY CoreStep
<1>2. job'[k] \in JobType /\ job'[k].todo # <<>>
  BY <1>1 DEF CoreInv, TypeOK, Now, NextStep
<1>3. Works(k, job'[k], Call(k)')
  BY <1>1, <1>2 DEF CoreInv, HandlersInv
<1>4. job'[k].cal \in job'[k].touched /\ job'[k].touched \subseteq Calendars
  BY <1>2, <1>3 DEF Works, Placed, Working, JobType
<1>5. CASE Kin(job[k], job'[k])
  <2>1. /\ job[k].cal = job'[k].cal /\ Now(job[k]) = "rows" /\ job[k].touched = job'[k].touched
        /\ job[k].listed = job'[k].listed
    BY <1>5 DEF Kin, Now
  <2>2. Excuse(k, Cal(k)) \/ job[k].listed = events[Cal(k)]
    BY <2>1 DEF ListInv, Cal
  <2>3. Cal(k) = c /\ c \in Calendars /\ c \in job[k].touched
    BY <1>4, <2>1 DEF Cal
  <2>4. ~Excuse(k, c)
    BY <1>4, <2>3, ExcuseStays
  <2>5. events'[c] = events[c]
    BY <1>4, <2>3, ChangeExcuses
  <2> QED  BY <2>1, <2>2, <2>3, <2>4, <2>5
<1>6. ASSUME TouchStep(k) PROVE FALSE
  <2>1. CASE LoadCalendar(k)
    BY <1>2, <2>1, LoadCalendarGoes, IdleType DEF OnTo
  <2>2. CASE Owner(k)
    BY <1>2, <2>2, OwnerGoes, IdleType DEF OnTo
  <2>3. CASE LoadIntegration(k)
    BY <1>2, <2>3, LoadIntegrationGoes, IdleType DEF OnTo
  <2>4. CASE Fetch(k)
    BY <2>4, FetchGoes DEF OnTo
  <2> QED  BY <1>6, <2>1, <2>2, <2>3, <2>4 DEF TouchStep
<1>7. CASE List(k)
  <2>1. PICK page \in SUBSET events[Cal(k)] :
           /\ job'[k].listed = page
           /\ page # events[Cal(k)] => Cal(k) \in job'[k].outdated
    BY <1>7, ListGoes
  <2>2. c = Cal(k) /\ events' = events
    BY <1>7, ListGoes DEF Agree, Cal, List, outside
  <2>3. Cal(k) \notin job'[k].outdated
    BY <2>2 DEF Excuse
  <2> QED  BY <2>1, <2>2, <2>3
<1>8. ~Compare(k)
  BY CompareGoes DEF OnTo
<1>9. ~Picks(k) /\ ~Steady(k)
  BY DEF Picks, Steady
<1> QED  BY <1>4, <1>5, <1>6, <1>7, <1>8, <1>9, WhoWorks

(* What has been compared was compared before, or is just now.                *)
PairsSame(k, c) ==
    \A e \in Events :
        (<<c, e>> \in job'[k].fresh <=> <<c, e>> \in job[k].fresh)
        /\ (<<c, e>> \in job'[k].obsolete <=> <<c, e>> \in job[k].obsolete)

LEMMA ComparedBefore ==
    ASSUME CoreInv, Next, NEW k \in Jobs, NEW c \in Calendars, Vendor[c] = "google",
           Compared(k, c)'
    PROVE  \/ Compared(k, c) /\ PairsSame(k, c)
           \/ Compare(k) /\ Cal(k) = c
           \/ Fetch(k) /\ job'[k].cal = c
<1>0. c \in job'[k].touched /\ job'[k] # Idle /\ job'[k].op \in {"notice", "patch", "integrate"}
  BY IdleType DEF Compared
<1>1. CoreInv'
  BY CoreStep
<1>2. Works(k, job'[k], Call(k)') /\ job'[k].todo # <<>>
  BY <1>0, <1>1 DEF CoreInv, HandlersInv
<1>3. job'[k].op = "patch" => k \notin Handlers
  BY <1>2 DEF Works, Owned
<1>4. k \notin Handlers => Call(k)' = Call(k)
  BY <1>0, WhoWorks
<1>5. job'[k].op = "patch" => (Good(k, c)' <=> Good(k, c))
  <2>1. Call(k)' = Call(k) => Named(k)' = Named(k)
    BY DEF Named
  <2> QED  BY <1>3, <1>4, <2>1 DEF Good
<1>6. CASE Kin(job[k], job'[k])
  BY <1>5, <1>6 DEF Kin, Now, Compared, PairsSame
<1>7. CASE LoadCalendar(k)
  <2>1. OnTo(k, "list") /\ \E q : Moved(k, q, job'[k], "list") /\ q.op = job[k].op /\ job[k].op = "notice"
    <3>1. job[k] \in JobType
      BY DEF CoreInv, TypeOK
    <3>2. /\ Moved(k, With(job[k], {Cal(k)}, Both(k, {Cal(k)})), job'[k], "list")
          /\ OnTo(k, "list") /\ job[k].op = "notice"
      BY <1>0, <1>7, LoadCalendarGoes
    <3>3. With(job[k], {Cal(k)}, Both(k, {Cal(k)})).op = job[k].op
      BY <3>1 DEF With, JobType
    <3> QED  BY <3>2, <3>3
  <2>2. job'[k].op = "notice" /\ Now(job'[k]) = "list"
    BY <2>1 DEF Moved, OnTo
  <2> QED  BY <2>2 DEF Compared
<1>8. CASE Owner(k)
  <2>1. /\ Named(k) \subseteq Mine(k) /\ job[k].op = "patch" /\ job'[k].op = "patch"
        /\ job'[k].left = Checked(k) /\ job'[k].touched = Checked(k) \cup Named(k)
    BY <1>0, <1>8, OwnerGoes
  <2>2. c \in Named(k) \ Checked(k) /\ Good(k, c)
    BY <1>0, <1>5, <2>1 DEF Compared
  <2>3. VendorOf(k) = "google"
    BY <2>2 DEF Named
  <2>4. c \in Mine(k) /\ Call(k).want[c].check
    BY <2>1, <2>2 DEF Good
  <2>5. c \in Checked(k)
    BY <2>2, <2>3, <2>4 DEF Checked
  <2> QED  BY <2>2, <2>5
<1>9. CASE LoadIntegration(k)
  BY <1>0, <1>9, LoadIntegrationGoes
<1>10. CASE Fetch(k)
  BY <1>0, <1>10, FetchGoes
<1>11. CASE List(k)
  <2>1. /\ Agree(job[k], job'[k]) /\ Now(job'[k]) = "rows" /\ Doing(k, "list")
        /\ job'[k].fresh = job[k].fresh /\ job'[k].obsolete = job[k].obsolete
    BY <1>11, ListGoes DEF OnTo, List
  <2> QED  BY <1>5, <2>1 DEF Agree, Compared, PairsSame
<1>12. CASE Compare(k)
  <2>1. /\ Agree(job[k], job'[k])
        /\ job'[k].fresh = job[k].fresh \cup ({Cal(k)} \X Fresh(k))
        /\ job'[k].obsolete = job[k].obsolete \cup ({Cal(k)} \X Obsolete(k))
    BY <1>12, CompareGoes
  <2>2. Now(job[k]) = "rows" /\ job[k].todo # <<>>
    BY <1>12, DoingIs DEF Compare
  <2>3. Placed(k, job[k], Call(k), "rows")
    BY <2>2, StepFacts
  <2> SUFFICES ASSUME Cal(k) # c PROVE Compared(k, c) /\ PairsSame(k, c)
    BY <1>12
  <2>4. PairsSame(k, c)
    BY <2>1 DEF PairsSame
  <2>5. job[k].op # "notice"
    BY <1>0, <2>1, <2>3 DEF Agree, Placed, Early, Cal
  <2> QED  BY <1>5, <2>1, <2>4, <2>5 DEF Agree, Compared, Cal
<1>13. CASE Picks(k)
  <2>1. job[k].op \in {"patch", "remove"}
    BY <1>13, NextCalendarGoes DEF Picks
  <2> QED  BY <1>0, <1>5, <1>13, <2>1 DEF Picks, Compared, PairsSame
<1>14. CASE Steady(k)
  BY <1>0, <1>5, <1>14 DEF Steady, Compared, PairsSame
<1> QED  BY <1>0, <1>6, <1>7, <1>8, <1>9, <1>10, <1>11, <1>12, <1>13, <1>14, WhoWorks DEF TouchStep

(* What is compared is what the handler would save, or others have to see to it. *)
LEMMA CompareKept ==
    ASSUME CoreInv, RowInv, Next, NEW k \in Jobs, ListInv(k), CompareInv(k)
    PROVE  CompareInv(k)'
<1> SUFFICES ASSUME NEW c \in Calendars, Vendor[c] = "google", Compared(k, c)', ~Excuse(k, c)',
                    NEW e \in Events
             PROVE  AfterIt(k, c, e)' <=> e \in events'[c]
  BY DEF CompareInv
<1>0. c \in job'[k].touched /\ PairsInv /\ NoRowInv /\ IntegrationInv(k)
  BY DEF Compared, RowInv
<1>1. rows \in [Calendars -> [Events -> 0..2]]
  BY DEF CoreInv, TypeOK
<1>2. CASE Compared(k, c) /\ PairsSame(k, c)
  <2>1. c \in job[k].touched
    BY <1>2 DEF Compared
  <2>2. ~Excuse(k, c)
    BY <1>0, <2>1, ExcuseStays
  <2>3. AfterIt(k, c, e) <=> e \in events[c]
    BY <1>2, <2>2 DEF CompareInv
  <2>4. events'[c] = events[c]
    BY <1>0, <2>1, ChangeExcuses
  <2>5. rows'[c] = rows[c]
    <3> SUFFICES ASSUME rows'[c] # rows[c] PROVE FALSE
      OBVIOUS
    <3>1. PICK j \in Jobs : RowsChanged(j) /\ c \in job[j].touched
      BY RowsTouch
    <3>2. j # k
      BY <1>0, <3>1, Committing, IdleType
    <3>3. c \in job[k].shared
      BY <1>0, <2>1, <3>1, <3>2 DEF PairsInv
    <3> QED  BY <2>2, <3>3 DEF Excuse
  <2> QED  BY <1>2, <2>3, <2>4, <2>5 DEF AfterIt, PairsSame
<1>3. CASE Compare(k) /\ Cal(k) = c
  <2>1. /\ Agree(job[k], job'[k])
        /\ job'[k].fresh = job[k].fresh \cup ({Cal(k)} \X Fresh(k))
        /\ job'[k].obsolete = job[k].obsolete \cup ({Cal(k)} \X Obsolete(k))
    BY <1>3, CompareGoes
  <2>2. Now(job[k]) = "rows" /\ job[k].todo # <<>> /\ rows' = rows /\ events' = events
    BY <1>3, DoingIs DEF Compare, store, outside
  <2>3. c \in job[k].touched /\ Untouched(job[k], c)
    BY <1>3, <2>2, StepFacts DEF Placed, Kept, Working, Cal
  <2>4. ~Excuse(k, c)
    BY <1>0, <2>3, ExcuseStays
  <2>5. job[k].listed = events[c]
    BY <1>3, <2>2, <2>4 DEF ListInv
  <2>6. ~(job[k].op = "patch" /\ Cal(k) \in Asked(k, FALSE))
    <3> SUFFICES ASSUME job[k].op = "patch", c \in Asked(k, FALSE) PROVE FALSE
      BY <1>3
    <3>1. calls' = calls
      BY <1>3 DEF Compare
    <3>2. Good(k, c)' <=> Good(k, c)
      BY <3>1 DEF Good, Named, Call
    <3>3. Good(k, c)
      BY <2>1, <3>2 DEF Compared, Agree
    <3>4. Call(k).want[c].check = FALSE /\ c \in Named(k)
      BY DEF Asked
    <3> QED  BY <3>3, <3>4 DEF Good
  <2>7. <<c, e>> \in job'[k].fresh <=> e \in job[k].listed /\ rows[c][e] = 0
    BY <1>3, <2>1, <2>3, <2>6 DEF Fresh, Untouched
  <2>8. <<c, e>> \in job'[k].obsolete <=> rows[c][e] > 0 /\ e \notin job[k].listed
    BY <1>3, <2>1, <2>3 DEF Obsolete, Stored, Untouched
  <2>9. rows[c][e] \in 0..2
    BY <1>1
  <2> QED  BY <2>2, <2>5, <2>7, <2>8, <2>9 DEF AfterIt
<1>4. CASE Fetch(k) /\ job'[k].cal = c
  <2>1. PICK page \in SUBSET events[c] :
           /\ job'[k].fresh = {c} \X page
           /\ job'[k].outdated = IF page = events[c] THEN {} ELSE {c}
    BY <1>4, FetchGoes
  <2>2. page = events[c]
    BY <2>1 DEF Excuse
  <2>3. /\ job'[k].obsolete = {} /\ rows' = rows /\ events' = events /\ c \in Fetched(k)
        /\ Doing(k, "fetch") /\ job[k].op = "integrate"
    BY <1>4, FetchGoes DEF Fetch, store, outside
  <2>4. job[k].todo # <<>> /\ Now(job[k]) = "fetch"
    BY <2>3, DoingIs
  <2>5. rows[c][e] = 0
    BY <1>0, <2>3, <2>4 DEF IntegrationInv, NoRowInv, Fetched
  <2> QED  BY <2>1, <2>2, <2>3, <2>5 DEF AfterIt
<1> QED  BY <1>2, <1>3, <1>4, ComparedBefore

(* A patch at Google lists only what it does not turn off.                    *)
Wanted(k, c) ==
    \/ c \in job[k].left
    \/ Now(job[k]) \in Working /\ Cal(k) = c
    \/ \E e \in Events : <<c, e>> \in job[k].fresh \cup job[k].obsolete
WantInv(k) ==
    job[k].op = "patch" /\ V(k) = "google" => \A c \in Calendars : Wanted(k, c) => Good(k, c)

LEMMA WantKept == ASSUME CoreInv, Next, NEW k \in Jobs, WantInv(k) PROVE WantInv(k)'
<1> SUFFICES ASSUME job'[k].op = "patch", V(k) = "google", NEW c \in Calendars, Wanted(k, c)'
             PROVE  Good(k, c)'
  BY DEF WantInv, V, VendorOf
<1>1. CoreInv' /\ job'[k] # Idle
  BY CoreStep, IdleType
<1>2. job'[k].todo # <<>> /\ Works(k, job'[k], Call(k)')
  BY <1>1 DEF CoreInv, HandlersInv
<1>3. job'[k].touched # {}
  <2> SUFFICES ASSUME job'[k].touched = {} PROVE FALSE
    OBVIOUS
  <2>1. job'[k].left = {} /\ job'[k].fresh = {} /\ job'[k].obsolete = {}
    BY <1>2 DEF Works, Kept
  <2>2. Now(job'[k]) \notin Working
    BY <1>2 DEF Works, Placed
  <2> QED  BY <2>1, <2>2 DEF Wanted
<1>4. k \notin Handlers /\ Call(k)' = Call(k) /\ Named(k)' = Named(k)
  BY <1>2, <1>3, WhoWorks DEF Works, Owned, Named
<1> SUFFICES Good(k, c)
  BY <1>4 DEF Good
<1>5. ASSUME job[k].op = "patch", Wanted(k, c) PROVE Good(k, c)
  BY <1>5 DEF WantInv
<1>6. CASE Kin(job[k], job'[k])
  BY <1>5, <1>6 DEF Kin, Now, Cal, Wanted
<1>7. CASE TouchStep(k)
  <2>1. ~LoadCalendar(k)
    BY <1>4, LoadCalendarGoes, StepFacts, DoingIs DEF Owned
  <2>2. CASE Owner(k)
    <3>1. /\ OnTo(k, "next") /\ job'[k].left = Checked(k) /\ Named(k) \subseteq Mine(k)
          /\ job'[k].fresh = {} /\ job'[k].obsolete = {}
      BY <1>1, <2>2, OwnerGoes
    <3>2. VendorOf(k) = "google"
      BY <1>4 DEF V
    <3>3. c \in Checked(k)
      BY <3>1 DEF Wanted, OnTo, Working
    <3> QED  BY <3>2, <3>3 DEF Checked, Good
  <2>3. ~LoadIntegration(k)
    BY <1>1, LoadIntegrationGoes
  <2>4. ~Fetch(k)
    BY FetchGoes
  <2> QED  BY <1>7, <2>1, <2>2, <2>3, <2>4 DEF TouchStep
<1>8. CASE List(k)
  <2>1. /\ Agree(job[k], job'[k]) /\ Doing(k, "list")
        /\ job'[k].fresh = job[k].fresh /\ job'[k].obsolete = job[k].obsolete
    BY <1>8, ListGoes DEF List
  <2>2. Now(job[k]) \in Working
    BY <2>1, DoingIs DEF Working
  <2> QED  BY <1>5, <2>1, <2>2 DEF Agree, Wanted, Cal
<1>9. CASE Compare(k)
  <2>1. /\ Agree(job[k], job'[k]) /\ Doing(k, "rows")
        /\ job'[k].fresh = job[k].fresh \cup ({Cal(k)} \X Fresh(k))
        /\ job'[k].obsolete = job[k].obsolete \cup ({Cal(k)} \X Obsolete(k))
    BY <1>9, CompareGoes
  <2>2. Now(job[k]) \in Working
    BY <2>1, DoingIs DEF Working
  <2>3. \A e : <<c, e>> \in job'[k].fresh \cup job'[k].obsolete =>
           c = Cal(k) \/ <<c, e>> \in job[k].fresh \cup job[k].obsolete
    BY <2>1
  <2> QED  BY <1>5, <2>1, <2>2, <2>3 DEF Agree, Wanted, Cal
<1>10. CASE Picks(k) \/ Steady(k)
  BY <1>5, <1>10 DEF Picks, Steady, Wanted, Cal, Working
<1> QED  BY <1>3, <1>6, <1>7, <1>8, <1>9, <1>10, WhoWorks

-----------------------------------------------------------------------------
(* What a handler works on is checked, or named by the patch, unless others     *)
(* work on it too.                                                            *)
Checks(k, c) == calendars[c].check \/ (job[k].op = "patch" /\ c \in Named(k))
CheckInv(k) ==
    job[k].op \in {"notice", "patch"} =>
        \A c \in job[k].touched \ job[k].shared : Vendor[c] = "google" => Checks(k, c)

LEMMA SettingStays ==
    ASSUME CoreInv, PairsInv, ChannelInv, Next, NEW k \in Jobs, NEW c \in Calendars,
           Vendor[c] = "google", c \in job[k].touched, c \notin job[k].shared,
           job'[k] # Idle
    PROVE  calendars'[c].check = calendars[c].check
<1> SUFFICES ASSUME calendars'[c].check # calendars[c].check PROVE FALSE
  OBVIOUS
<1>1. PICK j \in Jobs :
         /\ RowsChanged(j)
         /\ c \in job[j].touched \/ (CommitIntegrate(j) /\ c \in CalendarsOf(Call(j).on))
  BY CheckChange
<1>2. j # k /\ job[j].todo # <<>>
  BY <1>1, Committing
<1>3. c \notin job[j].touched
  BY <1>2 DEF PairsInv
<1>4. job[j].op = "integrate" /\ c \in CalendarsOf(Call(j).on)
  BY <1>1, <1>3 DEF CommitIntegrate
<1>5. V(j) = "google"
  BY <1>2, <1>4, OfIntegrations
<1>6. Alone(j, c)
  BY <1>4, <1>5 DEF ChannelInv, OwnInv
<1> QED  BY <1>2, <1>6 DEF Alone

LEMMA CheckKept ==
    ASSUME CoreInv, PairsInv, ChannelInv, Next, NEW k \in Jobs, CheckInv(k)
    PROVE  CheckInv(k)'
<1> SUFFICES ASSUME job'[k].op \in {"notice", "patch"}, NEW c, c \in job'[k].touched,
                    c \notin job'[k].shared, Vendor[c] = "google"
             PROVE  Checks(k, c)'
  BY DEF CheckInv
<1>1. CoreInv' /\ job'[k] # Idle
  BY CoreStep, IdleType
<1>2. Works(k, job'[k], Call(k)') /\ job'[k] \in JobType
  BY <1>1 DEF CoreInv, HandlersInv, TypeOK
<1>3. c \in Calendars
  BY <1>2 DEF JobType
<1>4. job'[k].op = "patch" => k \notin Handlers
  BY <1>2 DEF Works, Owned
<1>5. job'[k].op = "patch" => Call(k)' = Call(k) /\ Named(k)' = Named(k)
  BY <1>4, WhoWorks DEF Named
<1>6. CASE job'[k].op = job[k].op /\ job'[k].touched = job[k].touched
  <2>1. c \notin job[k].shared /\ c \in job[k].touched
    BY <1>6, Ages
  <2>2. Checks(k, c)
    BY <1>6, <2>1 DEF CheckInv
  <2>3. calendars'[c].check = calendars[c].check
    BY <1>1, <1>3, <2>1, SettingStays
  <2> QED  BY <1>5, <1>6, <2>2, <2>3 DEF Checks
<1>7. CASE Kin(job[k], job'[k]) \/ Picks(k) \/ Steady(k)
  BY <1>6, <1>7 DEF Kin, Picks, Steady
<1>8. CASE List(k)
  BY <1>6, <1>8, ListGoes DEF Agree
<1>9. CASE Compare(k)
  BY <1>6, <1>9, CompareGoes DEF Agree
<1>10. CASE LoadCalendar(k)
  <2>1. job'[k].touched = {Cal(k)} /\ calendars[Cal(k)].check /\ calendars' = calendars
    BY <1>1, <1>10, LoadCalendarGoes DEF LoadCalendar, store
  <2> QED  BY <2>1 DEF Checks
<1>11. CASE Owner(k)
  <2>1. /\ calendars' = calendars /\ job'[k].touched = Checked(k) \cup Named(k)
        /\ job'[k].op = "patch" /\ Named(k) \subseteq Mine(k)
    BY <1>1, <1>11, OwnerGoes DEF store
  <2>2. Vendor[c] = VendorOf(k)
    BY <2>1 DEF Checked, Mine
  <2>3. c \in Named(k) \/ calendars[c].check
    BY <2>1, <2>2 DEF Checked
  <2> QED  BY <1>5, <2>1, <2>3 DEF Checks
<1>12. CASE LoadIntegration(k) \/ Fetch(k)
  BY <1>1, <1>12, LoadIntegrationGoes, FetchGoes
<1> QED  BY <1>7, <1>8, <1>9, <1>10, <1>11, <1>12, WhoWorks DEF TouchStep

(* What leaves the observed sets, leaves them when a handler commits.         *)
LEMMA SeenLost ==
    ASSUME CoreInv, Next, NEW c
    PROVE  \/ /\ c \in unseen => c \in unseen'
              /\ c \in mixed => c \in mixed'
              /\ c \in doubled => c \in doubled'
              /\ c \in unasked => c \in unasked'
           \/ \E j \in Jobs : RowsChanged(j) /\ c \in job[j].touched
<1>1. CASE \E j \in Jobs : RowsChanged(j)
  <2>1. PICK j \in Jobs : RowsChanged(j)
    BY <1>1
  <2>2. Observe(j) /\ job[j].todo # <<>> /\ Placed(j, job[j], Call(j), "commit")
    BY <2>1, Committing
  <2> SUFFICES ASSUME c \notin job[j].touched PROVE c \in unasked => c \in unasked'
    BY <2>1, <2>2 DEF Observe
  <2>3. CASE PatchCommits(j)
    <3>1. unasked' = unasked \ Named(j) /\ job[j].op = "patch"
      BY <2>3 DEF PatchCommits, CommitPatch
    <3>2. Named(j) \subseteq job[j].touched
      BY <2>2, <3>1, OfPatches DEF Placed, Early
    <3> QED  BY <3>1, <3>2
  <2> QED  BY <2>1, <2>3 DEF RowsChanged, NoticeCommits, CommitIntegrate, CommitRemove
<1>2. CASE ~\E j \in Jobs : RowsChanged(j)
  <2>1. UNCHANGED <<mixed, doubled, unasked>>
    BY <1>2, RowsChange
  <2>2. c \in unseen => c \in unseen'
    <3>1. ASSUME NEW j \in Jobs, Step(j), ~CommitNotice(j), ~CommitPatch(j), ~CommitIntegrate(j),
                 ~CommitRemove(j)
          PROVE  unseen \subseteq unseen'
      BY <3>1 DEF Step, List, Compare, CheckStatus, LoadCalendar, Owner,
             NextCalendar, Known, Stop, Forget, SetStatus, Watch, Note,
             Exists, Fetch, LookForOutbound, LoadIntegration,
             ForgetAll, LoadDetails, Skip, RollBack, seen
    <3>2. ASSUME NEW j \in Jobs, CommitNotice(j) \/ CommitPatch(j) \/ CommitIntegrate(j) \/ CommitRemove(j)
          PROVE  unseen \subseteq unseen'
      BY <1>2, <3>2 DEF CommitNotice, CommitPatch, RollBack, RowsChanged, NoticeCommits, PatchCommits
    <3>3. ASSUME NEW j \in Jobs, Fail(j) PROVE unseen \subseteq unseen'
      BY <3>3 DEF Fail, RollBack
    <3>4. ASSUME NEW d \in Calendars, NEW e \in Events, AddEvent(d, e) \/ Book(e, d) \/ RemoveEvent(d, e)
          PROVE  unseen \subseteq unseen'
      BY <3>4 DEF AddEvent, Book, RemoveEvent, Put, Announced
    <3>5. ASSUME NEW h \in Handlers, NEW d \in Calendars, Deliver(h, d) PROVE unseen \subseteq unseen'
      BY <3>5 DEF Deliver, seen
    <3>6. ASSUME NEW r \in Requests, NEW call \in Calls, Start(r, call) PROVE unseen \subseteq unseen'
      BY <3>6 DEF Start
    <3> QED  BY <3>1, <3>2, <3>3, <3>4, <3>5, <3>6 DEF Next
  <2> QED  BY <2>1, <2>2
<1> QED  BY <1>1, <1>2

-----------------------------------------------------------------------------
(* What a commit leaves of a calendar at Google the handler has touched.       *)
LEMMA CommitTouches ==
    ASSUME CoreInv, NEW j \in Jobs, RowsChanged(j), NEW c, c \in job[j].touched,
           Vendor[c] = "google"
    PROVE  /\ c \in job[j].outdated => c \in unseen'
           /\ c \in job[j].shared => c \in mixed' /\ c \in doubled'
           /\ job[j].op # "notice" => V(j) = "google"
           /\ NoticeCommits(j) => job[j].op = "notice" /\ events' = events
           /\ PatchCommits(j) => job[j].op = "patch" /\ job[j].left = {} /\ events' = events
           /\ CommitIntegrate(j) => job[j].op = "integrate" /\ events' = events
           /\ CommitRemove(j) => ~IsRow(c)'
<1>1. /\ Observe(j) /\ Placed(j, job[j], Call(j), "commit") /\ Kept(job[j], "commit")
      /\ job[j].todo # <<>>
  BY Committing
<1>2. job[j].op # "notice" => V(j) = "google"
  BY <1>1 DEF Placed
<1>3. ASSUME CommitRemove(j) PROVE ~IsRow(c)'
  <2>1. job[j].op = "remove" /\ calendars' = [d \in Calendars |->
           IF d \in CalendarsOf(Call(j).on) THEN NoRow ELSE calendars[d]]
    BY <1>3 DEF CommitRemove
  <2>2. c \in CalendarsOf(Call(j).on)
    BY <1>1, <1>2, <2>1 DEF Placed, Early
  <2>3. calendars'[c] = NoRow
    BY <2>1, <2>2 DEF CalendarsOf
  <2> QED  BY <2>3 DEF IsRow, NoRow
<1>4. /\ c \in job[j].outdated => c \in unseen'
      /\ c \in job[j].shared => c \in mixed' /\ c \in doubled'
  BY <1>1 DEF Observe
<1>5. /\ NoticeCommits(j) => job[j].op = "notice" /\ events' = events
      /\ PatchCommits(j) => job[j].op = "patch" /\ events' = events
      /\ CommitIntegrate(j) => job[j].op = "integrate" /\ events' = events
  BY DEF NoticeCommits, CommitNotice, PatchCommits, CommitPatch, CommitIntegrate, outside
<1>6. PatchCommits(j) => job[j].left = {}
  BY <1>1 DEF Kept
<1> QED  BY <1>2, <1>3, <1>4, <1>5, <1>6

LEMMA SavesAfterIt ==
    ASSUME CoreInv, NEW j, NEW before \in [Calendars -> [Events -> 0..2]],
           rows' = Synchronized(j, before), NEW c \in Calendars, NEW e \in Events,
           before[c][e] = rows[c][e]
    PROVE  rows'[c][e] > 0 <=> AfterIt(j, c, e)
<1>1. before[c][e] \in 0..2
  OBVIOUS
<1> QED  BY <1>1, SynchronizedIs DEF AfterIt

(* A setting after a patch.                                                   *)
LEMMA SettingIs ==
    ASSUME NEW j, NEW c \in Calendars, calendars' = Settings(j)
    PROVE  /\ c \in Named(j) => calendars'[c].check = Call(j).want[c].check
           /\ c \notin Named(j) => calendars'[c].check = calendars[c].check
<1>1. calendars'[c] =
        IF c \in Named(j) THEN Row(Call(j).want[c].check, Call(j).want[c].outbound)
        ELSE IF c \in Mine(j) THEN Row(calendars[c].check, FALSE)
        ELSE calendars[c]
  BY DEF Settings
<1> QED  BY <1>1 DEF Row

(* A second calendar of an integration is not checked.                        *)
LEMMA SecondCalendar ==
    ASSUME CoreInv, NEW j \in Jobs, CommitIntegrate(j), NEW c \in CalendarsOf(Call(j).on),
           Vendor[c] = "google", c \notin job[j].touched
    PROVE  ~calendars'[c].check
<1>1. /\ job[j].op = "integrate" /\ job[j].todo # <<>> /\ Placed(j, job[j], Call(j), "commit")
  BY Committing DEF CommitIntegrate, RowsChanged
<1>2. /\ job[j].touched = {job[j].cal} /\ job[j].cal \in CalendarsOf(Call(j).on)
      /\ job[j].cal \in Primary \/ Vendor[job[j].cal] = "apple"
  BY <1>1 DEF Placed, Early
<1>3. c \in Calendars /\ job[j].cal \in Calendars /\ Of[c] = Of[job[j].cal] /\ c # job[j].cal
  BY <1>2 DEF CalendarsOf
<1>4. Vendor[job[j].cal] = "google" /\ job[j].cal \in Primary
  BY <1>2, <1>3, CalendarSyncAssumption
<1>5. c \notin Primary
  BY <1>3, <1>4, CalendarSyncAssumption
<1>6. calendars'[c] = NewSetting(j, c)
  BY <1>3 DEF CommitIntegrate
<1>7. NewSetting(j, c) = Row(c \in Primary /\ job[j].first, c \in Primary /\ job[j].first)
  BY DEF NewSetting
<1>8. (c \in Primary /\ job[j].first) = FALSE
  BY <1>5
<1>9. calendars'[c] = Row(FALSE, FALSE)
  BY <1>6, <1>7, <1>8
<1> QED  BY <1>9 DEF Row

MirrorInv(c) ==
    Vendor[c] = "google" /\ IsRow(c) /\ calendars[c].check /\ c \notin Excused =>
        c \in notices \/ (\E h \in Handlers : Taken(c, h)) \/ Mirrored(c)

(* A commit leaves the calendar mirrored.                                     *)
LEMMA MirrorCommits ==
    ASSUME CoreInv, Next, NEW j \in Jobs, CompareInv(j), RowsChanged(j),
           NEW c \in Calendars, c \in job[j].touched, Vendor[c] = "google",
           IsRow(c)', calendars'[c].check, ~Excuse(j, c)
    PROVE  Mirrored(c)'
<1>1. rows \in [Calendars -> [Events -> 0..2]]
  BY DEF CoreInv, TypeOK
<1>2. Now(job[j]) = "commit"
  BY Committing
<1>3. ASSUME Compared(j, c), events' = events, NEW before \in [Calendars -> [Events -> 0..2]],
             rows' = Synchronized(j, before), \A e \in Events : before[c][e] = rows[c][e]
      PROVE  Mirrored(c)'
  <2>1. \A e \in Events : AfterIt(j, c, e) <=> e \in events[c]
    BY <1>3 DEF CompareInv
  <2>2. \A e \in Events : rows'[c][e] > 0 <=> AfterIt(j, c, e)
    BY <1>3, SavesAfterIt
  <2>3. events[c] \subseteq Events
    BY DEF CoreInv, TypeOK
  <2> QED  BY <1>3, <2>1, <2>2, <2>3 DEF Mirrored, Stored
<1>4. CASE NoticeCommits(j)
  <2>1. Compared(j, c) /\ events' = events /\ rows' = Synchronized(j, rows)
    BY <1>2, <1>4, CommitTouches DEF Compared, NoticeCommits
  <2> QED  BY <1>1, <1>3, <2>1
<1>5. CASE PatchCommits(j)
  <2>1. job[j].op = "patch" /\ job[j].left = {} /\ events' = events
    BY <1>5, CommitTouches
  <2>2. Good(j, c)
    BY <1>5, SettingIs DEF Good, PatchCommits
  <2>3. Compared(j, c)
    BY <1>2, <2>1, <2>2 DEF Compared
  <2>4. c \notin Asked(j, FALSE)
    BY <2>2 DEF Good, Asked
  <2>5. \A e \in Events : RowsLeft(j)[c][e] = rows[c][e]
    BY <2>4, RowsLeftIs
  <2>6. RowsLeft(j) \in [Calendars -> [Events -> 0..2]]
    <3>1. [e \in Events |-> 0] \in [Events -> 0..2] /\ \A d \in Calendars : rows[d] \in [Events -> 0..2]
      BY <1>1
    <3> QED  BY <3>1 DEF RowsLeft
  <2> QED  BY <1>3, <1>5, <2>1, <2>3, <2>5, <2>6 DEF PatchCommits
<1>6. CASE CommitIntegrate(j)
  <2>1. Compared(j, c) /\ events' = events /\ rows' = Synchronized(j, rows)
    BY <1>6, CommitTouches DEF Compared, CommitIntegrate
  <2> QED  BY <1>1, <1>3, <2>1
<1>7. ~CommitRemove(j)
  BY CommitTouches
<1> QED  BY <1>4, <1>5, <1>6, <1>7 DEF RowsChanged

LEMMA MirrorKept ==
    ASSUME CoreInv, RowInv, ChannelInv, Next, \A k \in Jobs : CompareInv(k),
           NEW c \in Calendars, MirrorInv(c)
    PROVE  MirrorInv(c)'
<1> SUFFICES ASSUME Vendor[c] = "google", IsRow(c)', calendars'[c].check, c \notin unseen',
                    c \notin mixed', c \notin notices', \A h \in Handlers : ~Taken(c, h)'
             PROVE  Mirrored(c)'
  BY DEF MirrorInv, Excused, Taken
<1>1. c \notin notices
  BY NoticesLost
<1>2. ~Dropped(c)
  BY DEF Dropped
<1>3. ASSUME NEW h \in Handlers, Taken(c, h) PROVE NoticeCommits(h) /\ h \in Jobs /\ c \in job[h].touched
  BY <1>2, <1>3, HandlerGoes, TakenTakes
<1>4. ASSUME NEW j \in Jobs, RowsChanged(j), c \in job[j].touched PROVE Mirrored(c)'
  <2>1. c \notin job[j].outdated /\ c \notin job[j].shared
    BY <1>4, CommitTouches
  <2>2. ASSUME NEW h \in Handlers \ {j}, Taken(c, h) PROVE FALSE
    <3>1. h \in Jobs /\ c \in job[h].touched
      BY <1>3, <2>2
    <3>2. PairsInv
      BY DEF RowInv
    <3> QED  BY <1>4, <2>1, <2>2, <3>1, <3>2 DEF PairsInv
  <2>3. ~Excuse(j, c)
    BY <1>1, <2>1, <2>2 DEF Excuse
  <2> QED  BY <1>4, <2>3, MirrorCommits
<1>5. CASE \A j \in Jobs : ~(RowsChanged(j) /\ c \in job[j].touched)
  <2>1. rows'[c] = rows[c]
    BY <1>5, RowsTouch
  <2>2. ASSUME NEW j \in Jobs, CommitIntegrate(j), c \in CalendarsOf(Call(j).on) PROVE FALSE
    BY <1>5, <2>2, SecondCalendar DEF RowsChanged
  <2>3. IsRow(c)
    BY <2>2, NewRows
  <2>4. calendars[c].check
    <3>1. calendars'[c].check = calendars[c].check
      BY <1>5, <2>2, CheckChange
    <3> QED  BY <3>1
  <2>5. c \notin Excused
    BY <1>5, SeenLost DEF Excused
  <2>6. \A h \in Handlers : ~Taken(c, h)
    BY <1>3, <1>5 DEF RowsChanged
  <2>7. Mirrored(c)
    BY <1>1, <2>3, <2>4, <2>5, <2>6 DEF MirrorInv
  <2>8. events'[c] = events[c]
    BY <1>2, EventsChange
  <2> QED  BY <2>1, <2>7, <2>8 DEF Mirrored, Stored
<1> QED  BY <1>4, <1>5

-----------------------------------------------------------------------------
UncheckedInv(c) ==
    Vendor[c] = "google" /\ IsRow(c) /\ ~calendars[c].check /\ c \notin doubled \cup unasked =>
        Stored(c) = {}

(* A commit leaves no rows of a calendar that is not checked.                 *)
LEMMA UncheckedCommits ==
    ASSUME CoreInv, Next, NEW j \in Jobs, CheckInv(j), WantInv(j), RowsChanged(j),
           NEW c \in Calendars, c \in job[j].touched, Vendor[c] = "google",
           IsRow(c)', ~calendars'[c].check, c \notin doubled', c \notin unasked'
    PROVE  Stored(c)' = {}
<1>1. /\ Placed(j, job[j], Call(j), "commit") /\ c \notin job[j].shared /\ job[j].todo # <<>>
  BY Committing, CommitTouches
<1>2. CASE NoticeCommits(j)
  <2>1. job[j].op = "notice" /\ calendars' = calendars
    BY <1>2, CommitTouches DEF NoticeCommits
  <2>2. Checks(j, c)
    BY <1>1, <2>1 DEF CheckInv
  <2> QED  BY <2>1, <2>2 DEF Checks
<1>3. CASE PatchCommits(j)
  <2>1. /\ job[j].op = "patch" /\ V(j) = "google" /\ calendars' = Settings(j)
        /\ rows' = Synchronized(j, RowsLeft(j))
    BY <1>3, CommitTouches DEF PatchCommits
  <2>2. Checks(j, c)
    BY <1>1, <2>1 DEF CheckInv
  <2>3. c \in Named(j) /\ ~Call(j).want[c].check
    BY <2>1, <2>2, SettingIs DEF Checks
  <2>4. ~Wanted(j, c)
    BY <2>1, <2>3 DEF WantInv, Good
  <2>5. Call(j).want[c] \in Setting
    BY <1>1, <2>1, <2>3, OfPatches
  <2>6. c \in Asked(j, FALSE)
    BY <2>3, <2>5 DEF Asked, Setting
  <2>7. ASSUME NEW e \in Events PROVE rows'[c][e] = 0
    <3>1. RowsLeft(j)[c][e] = 0 /\ RowsLeft(j) \in [Calendars -> [Events -> 0..2]]
      BY <2>6, RowsLeftIs
    <3>2. <<c, e>> \notin job[j].fresh \cup job[j].obsolete
      BY <2>4 DEF Wanted
    <3> QED  BY <2>1, <3>1, <3>2, SynchronizedIs
  <2> QED  BY <2>7 DEF Stored
<1>4. CASE CommitIntegrate(j)
  <2>1. /\ job[j].op = "integrate" /\ job[j].touched = {job[j].cal} /\ c = job[j].cal
        /\ c \in CalendarsOf(Call(j).on) /\ c \in Primary
    BY <1>1, <1>4 DEF CommitIntegrate, Placed, Early
  <2>2. calendars'[c] = NewSetting(j, c)
    BY <1>4, <2>1 DEF CommitIntegrate
  <2>3. NewSetting(j, c) = Row(c \in Primary /\ job[j].first, c \in Primary /\ job[j].first)
    BY DEF NewSetting
  <2>4. ~job[j].first
    <3> SUFFICES ASSUME job[j].first PROVE FALSE
      OBVIOUS
    <3>1. (c \in Primary /\ job[j].first) = TRUE
      BY <2>1
    <3>2. calendars'[c] = Row(TRUE, TRUE)
      BY <2>2, <2>3, <3>1
    <3> QED  BY <3>2 DEF Row
  <2>5. c \in Fetched(j)
    BY <2>1 DEF Fetched
  <2> QED  BY <1>4, <2>4, <2>5 DEF CommitIntegrate
<1>5. ~CommitRemove(j)
  BY CommitTouches
<1> QED  BY <1>2, <1>3, <1>4, <1>5 DEF RowsChanged

LEMMA UncheckedKept ==
    ASSUME CoreInv, RowInv, Next, \A k \in Jobs : CheckInv(k) /\ WantInv(k),
           NEW c \in Calendars, UncheckedInv(c)
    PROVE  UncheckedInv(c)'
<1> SUFFICES ASSUME Vendor[c] = "google", IsRow(c)', ~calendars'[c].check, c \notin doubled',
                    c \notin unasked'
             PROVE  Stored(c)' = {}
  BY DEF UncheckedInv
<1>1. ASSUME NEW j \in Jobs, RowsChanged(j), c \in job[j].touched PROVE Stored(c)' = {}
  BY <1>1, UncheckedCommits
<1>2. CASE \A j \in Jobs : ~(RowsChanged(j) /\ c \in job[j].touched)
  <2>1. rows'[c] = rows[c]
    BY <1>2, RowsTouch
  <2>2. CASE ~IsRow(c)
    BY <2>1, <2>2 DEF RowInv, NoRowInv, Stored
  <2>3. CASE IsRow(c)
    <3>1. ASSUME NEW j \in Jobs, CommitIntegrate(j), c \in CalendarsOf(Call(j).on) PROVE FALSE
      <4>1. job[j].todo # <<>> /\ Now(job[j]) = "commit" /\ job[j].op = "integrate"
        BY <3>1, Committing DEF RowsChanged, CommitIntegrate
      <4>2. IntegrationInv(j)
        BY DEF RowInv
      <4> QED  BY <2>3, <3>1, <4>1, <4>2 DEF IntegrationInv
    <3>2. calendars'[c].check = calendars[c].check
      BY <1>2, <3>1, CheckChange
    <3>3. c \notin doubled \cup unasked
      BY <1>2, SeenLost
    <3>4. Stored(c) = {}
      BY <2>3, <3>2, <3>3 DEF UncheckedInv
    <3> QED  BY <2>1, <3>4 DEF Stored
  <2> QED  BY <2>2, <2>3
<1> QED  BY <1>1, <1>2

-----------------------------------------------------------------------------
(* The invariant, and the theorem.                                            *)
MirrorsInv ==
    /\ \A k \in Jobs : ListInv(k) /\ CompareInv(k) /\ WantInv(k) /\ CheckInv(k)
    /\ \A c \in Calendars : MirrorInv(c) /\ UncheckedInv(c)

LEMMA MirrorsInit == Init => MirrorsInv
<1> SUFFICES ASSUME Init PROVE MirrorsInv
  OBVIOUS
<1>1. \A k \in Jobs : job[k].op = "none" /\ Now(job[k]) = "none" /\ job[k].touched = {}
  BY DEF Init, Idle, Now, NextStep
<1>2. \A k \in Jobs : ListInv(k) /\ CompareInv(k) /\ WantInv(k) /\ CheckInv(k)
  BY <1>1 DEF ListInv, CompareInv, Compared, WantInv, CheckInv
<1>3. ASSUME NEW c \in Calendars, calendars[c].check PROVE Mirrored(c)
  <2>1. \A e \in Events : rows[c][e] > 0 <=> e \in There[c]
    BY <1>3 DEF Init
  <2>2. events[c] = There[c] /\ There[c] \subseteq Events
    BY CalendarSyncAssumption DEF Init
  <2> QED  BY <2>1, <2>2 DEF Mirrored, Stored
<1>4. ASSUME NEW c \in Calendars, ~calendars[c].check PROVE Stored(c) = {}
  <2>1. \A e \in Events : rows[c][e] = 0
    BY <1>4 DEF Init
  <2> QED  BY <2>1 DEF Stored
<1> QED  BY <1>2, <1>3, <1>4 DEF MirrorsInv, MirrorInv, UncheckedInv

LEMMA MirrorsKept ==
    ASSUME CoreInv, RowInv, ChannelInv, MirrorsInv, Next PROVE MirrorsInv'
<1>1. PairsInv
  BY DEF RowInv
<1>2. \A k \in Jobs : ListInv(k)' /\ CompareInv(k)' /\ WantInv(k)' /\ CheckInv(k)'
  BY <1>1, ListKept, CompareKept, WantKept, CheckKept DEF MirrorsInv
<1>3. \A c \in Calendars : MirrorInv(c)' /\ UncheckedInv(c)'
  BY MirrorKept, UncheckedKept DEF MirrorsInv
<1> QED  BY <1>2, <1>3 DEF MirrorsInv

(* RowsFollowCalendar holds of every behaviour, whatever the calendars, the     *)
(* events, the handlers and the requests are: when the notices of a checked    *)
(* calendar at Google have been served, synchronizeWithGoogleCalendarEvents    *)
(* has left its events for its rows, and a calendar that is not checked has     *)
(* none.                                                                      *)
THEOREM RowsFollow == Spec => []RowsFollowCalendar
<1>1. CoreInv /\ RowInv /\ ChannelInv /\ MirrorsInv /\ [Next]_vars => MirrorsInv'
  <2> SUFFICES ASSUME CoreInv, RowInv, ChannelInv, MirrorsInv, [Next]_vars PROVE MirrorsInv'
    OBVIOUS
  <2>1. CASE Next
    BY <2>1, MirrorsKept
  <2>2. CASE UNCHANGED vars
    BY <2>2 DEF MirrorsInv, ListInv, CompareInv, WantInv, CheckInv, MirrorInv, UncheckedInv,
                Excuse, Taken, AfterIt, Compared, Good, Wanted, Checks, Excused, Mirrored,
                Stored, IsRow, Named, Call, V, VendorOf, Cal, vars, store, google, outside, seen
  <2> QED  BY <2>1, <2>2
<1>2. Spec => []MirrorsInv
  BY <1>1, MirrorsInit, Core, Rows, Channels, PTL DEF Spec
<1>3. MirrorsInv => RowsFollowCalendar
  <2> SUFFICES ASSUME MirrorsInv PROVE RowsFollowCalendar
    OBVIOUS
  <2>1. ASSUME NEW c \in ByGoogle \ Excused, calendars[c].check, Quiet(c) PROVE Mirrored(c)
    <3>1. c \in Calendars /\ Vendor[c] = "google" /\ IsRow(c) /\ MirrorInv(c)
      BY DEF ByGoogle, MirrorsInv
    <3>2. c \notin notices /\ \A h \in Handlers : ~Taken(c, h)
      BY <2>1 DEF Quiet, AtWork, Taken, Jobs
    <3> QED  BY <2>1, <3>1, <3>2 DEF MirrorInv
  <2>2. ASSUME NEW c \in ByGoogle \ (mixed \cup doubled \cup unasked), ~calendars[c].check
        PROVE  Stored(c) = {}
    BY <2>2 DEF ByGoogle, MirrorsInv, UncheckedInv
  <2> QED  BY <2>1, <2>2 DEF RowsFollowCalendar, CheckedAreMirrored, UncheckedHaveNoRows
<1> QED  BY <1>2, <1>3, PTL

=============================================================================
