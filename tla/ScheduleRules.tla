--------------------------- MODULE ScheduleRules ---------------------------
(***************************************************************************)
(* The rules by which GlobalScheduledEventsService.validate accepts or      *)
(* refuses the time of a booking: the checks against the host's             *)
(* availability and the conflict query against the rows already stored.     *)
(* A schedule is a record with the four timestamps of a row: scheduledTime  *)
(* (start, end) and scheduledBufferTime (startBuffer, endBuffer), where a   *)
(* buffer may be absent.  Time is in seconds, all of it inside one date of  *)
(* the host's timezone, so a weekday's time ranges and the ranges of a date *)
(* override are intervals of seconds too.                                   *)
(***************************************************************************)
EXTENDS Integers

CONSTANTS
    SecondsPerMinute,   \* 60 in the code; small in the runs
    NoBuffer,           \* a null buffer timestamp
    NoOverride          \* no date override on the requested date

ASSUME SecondsPerMinuteAssumption ==
    SecondsPerMinute \in Nat /\ SecondsPerMinute > 1

ASSUME NoBufferAssumption == NoBuffer \notin Int

-----------------------------------------------------------------------------
(* The buffered interval validate works on.                                 *)
EnsuredStart(s) == IF s.startBuffer = NoBuffer THEN s.start ELSE s.startBuffer
EnsuredEnd(s)   == IF s.endBuffer = NoBuffer THEN s.end ELSE s.endBuffer

IsPast(now, start, end) == start < now \/ end < now

(* With an override on the date the whole interval must lie in one of its   *)
(* ranges (an override without ranges allows nothing).                      *)
OverrideAllows(ranges, start, end) ==
    \E range \in ranges : range.start <= start /\ end <= range.end

(* Without one, the weekday's ranges are consulted twice, both times with   *)
(* the START of the request cut down to its minute: the end is never        *)
(* compared with a range.                                                   *)
AvailableTimesAllow(ranges, start) ==
    LET minute == start - (start % SecondsPerMinute)
    IN  \E range \in ranges : range.start <= minute /\ minute <= range.end

InvalidTimeRange(schedule, availability, now) ==
    LET start == EnsuredStart(schedule)
        end   == EnsuredEnd(schedule)
    IN  \/ IsPast(now, start, end)
        \/ end <= start
        \/ /\ availability.override # NoOverride
           /\ ~ OverrideAllows(availability.override, start, end)
        \/ /\ availability.override = NoOverride
           /\ ~ AvailableTimesAllow(availability.hours, start)

-----------------------------------------------------------------------------
(* Date.setSeconds: the minute is kept and the seconds replaced; a second   *)
(* of -1 is the last second of the minute before.                           *)
SetSeconds(time, second) == time - (time % SecondsPerMinute) + second

(* The bounds of the conflict query.  The upper one takes its seconds from  *)
(* the shifted START.                                                       *)
QueryStart(schedule) == EnsuredStart(schedule) + 1
QueryEnd(schedule) ==
    SetSeconds(EnsuredEnd(schedule), (QueryStart(schedule) % SecondsPerMinute) - 1)

IsBetween(time, from, to) == time # NoBuffer /\ from <= time /\ time <= to

(* One stored row matches the query of a new schedule.  A null buffer       *)
(* matches no BETWEEN.                                                      *)
ConflictsWith(row, schedule) ==
    LET from == QueryStart(schedule)
        to   == QueryEnd(schedule)
    IN  \/ row.start >= from /\ row.end <= to
        \/ row.start <= from /\ row.end >= to
        \/ IsBetween(row.startBuffer, from, to)
        \/ IsBetween(row.endBuffer, from, to)
        \/ IsBetween(row.start, from, to)
        \/ IsBetween(row.end, from, to)

-----------------------------------------------------------------------------
(* What the query is meant to decide: two schedules share time.             *)
Overlap(s, t) ==
    /\ EnsuredStart(s) < t.end
    /\ t.start < EnsuredEnd(s)

BufferedOverlap(s, t) ==
    /\ EnsuredStart(s) < EnsuredEnd(t)
    /\ EnsuredStart(t) < EnsuredEnd(s)

(* The times a booking page offers lie on whole minutes.                    *)
MinuteAligned(s) ==
    /\ EnsuredStart(s) % SecondsPerMinute = 0
    /\ EnsuredEnd(s) % SecondsPerMinute = 0

ScheduleType ==
    [start : Int, end : Int,
     startBuffer : Int \cup {NoBuffer}, endBuffer : Int \cup {NoBuffer}]
=============================================================================
