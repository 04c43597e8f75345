------------------------------ MODULE WrittenTimes ----------------------------
(***************************************************************************)
(* What the program makes of written days and times: the deadline phrases  *)
(* of deadline_phrases.py, the scheduling requests of                      *)
(* scheduling_phrases.py, and the briefing time of a user's settings       *)
(* (scheduled_briefs.py).                                                  *)
(*                                                                         *)
(* A text is what the patterns find in it.  Days are numbered from Friday  *)
(* 1 January 2027 on; times are minutes.  An email is read on its writer's *)
(* clock, one zone without clock changes; a briefing time belongs to a     *)
(* zone [at, before, after], whose offset changes once, at the instant at. *)
(***************************************************************************)
EXTENDS Integers, FiniteSets, FiniteSetsExt, Sequences

CONSTANT Null

-----------------------------------------------------------------------------
(* The calendar.                                                           *)

MonthLengths == <<31, 28, 31, 30, 31, 30, 31, 31, 30, 31, 30, 31,
                  31, 29, 31, 30, 31, 30, 31, 31, 30, 31, 30, 31, 31, 28>>
MonthStart[k \in DOMAIN MonthLengths] ==
  IF k = 1 THEN 0 ELSE MonthStart[k - 1] + MonthLengths[k - 1]
MonthOf(day) == CHOOSE k \in DOMAIN MonthLengths :
                  MonthStart[k] <= day /\ day < MonthStart[k] + MonthLengths[k]
DayOfMonth(day) == day - MonthStart[MonthOf(day)] + 1
LastOfMonth(day) == DayOfMonth(day) = MonthLengths[MonthOf(day)]
Weekday(day) == (day + 4) % 7     \* Monday is 0

-----------------------------------------------------------------------------
(* Deadline phrases.  A phrase is [rule, n]: n is the weekday or the       *)
(* ordinal it names.                                                       *)

PhraseRows ==
  [rule : {"end_of_day", "end_of_week", "end_of_month", "by_weekday", "by_ordinal", "tomorrow"}, n : Nat]

\* Mutant of DaysAhead: "by Wednesday" written on a Wednesday means today.
DaysAheadOrToday(target, sent) == (target - Weekday(sent)) % 7
DaysAhead(target, sent) ==
  LET days == (target - Weekday(sent)) % 7
  IN IF days = 0 THEN 7 ELSE days

\* A month that has no such day ends earlier: min(day_of_month, last_day).
OrdinalDay(n, sent) ==
  LET month == MonthOf(sent) + (IF n < DayOfMonth(sent) THEN 1 ELSE 0)
  IN MonthStart[month] + Min({n, MonthLengths[month]}) - 1

Resolves(p, sent) ==
  IF p.rule = "end_of_day" THEN sent
  ELSE IF p.rule = "end_of_week" THEN sent + ((4 - Weekday(sent)) % 7)
  ELSE IF p.rule = "end_of_month" THEN MonthStart[MonthOf(sent)] + MonthLengths[MonthOf(sent)] - 1
  ELSE IF p.rule = "by_weekday" THEN sent + DaysAhead(p.n, sent)
  ELSE IF p.rule = "by_ordinal"
       THEN IF p.n \in 1..31 THEN OrdinalDay(p.n, sent) ELSE Null
  ELSE sent + 1

\* The order in which the patterns are tried.
Precedence == <<"end_of_day", "end_of_week", "end_of_month", "by_weekday", "by_ordinal", "tomorrow">>
Rank(p) == CHOOSE i \in DOMAIN Precedence : Precedence[i] = p.rule
First(text) == CHOOSE p \in text : \A q \in text : Rank(p) <= Rank(q)

\* parse_due_phrase: the day at whose end the first recognised phrase falls due.
ParseDuePhrase(text, sent) == IF text = {} THEN Null ELSE Resolves(First(text), sent)

-----------------------------------------------------------------------------
(* Scheduling requests.  A clock is [h, m, half] as written: m and half    *)
(* may be absent.  A request is what the patterns of the module match:     *)
(*   quoted, subject : a quoted title; a subject besides the prefixes      *)
(*   dates    : the full dates, each with the truth of the weekday it names*)
(*   range    : "from s to e";  single : "at s";  duration : [n, unit]     *)
(*   people   : how many addresses; self : "invite me" with a sender       *)

Halves == {"am", "pm"}
ClockRows == [h : 0..99, m : {Null} \cup 0..99, half : {Null} \cup Halves]
RequestRows ==
  [quoted : BOOLEAN, subject : BOOLEAN, dates : SUBSET [day : Nat, weekday : {"none", "right", "wrong"}],
   range : {Null} \cup [s : ClockRows, e : ClockRows], single : {Null} \cup ClockRows,
   duration : {Null} \cup [n : Nat, unit : {"minute", "hour"}], people : Nat, self : BOOLEAN]

\* Mutant of Hour24: 12 am is noon.
Hour24Noon(c) ==
  IF c.m \notin 0..59 THEN Null
  ELSE IF c.half = Null THEN IF c.h <= 23 THEN 60 * c.h + c.m ELSE Null
  ELSE IF c.h \notin 1..12 THEN Null
  ELSE 60 * (IF c.h = 12 THEN 12 ELSE c.h + (IF c.half = "pm" THEN 12 ELSE 0)) + c.m
Hour24(c) ==
  IF c.m \notin 0..59 THEN Null
  ELSE IF c.half = Null THEN IF c.h <= 23 THEN 60 * c.h + c.m ELSE Null
  ELSE IF c.h \notin 1..12 THEN Null
  ELSE 60 * ((c.h % 12) + (IF c.half = "pm" THEN 12 ELSE 0)) + c.m

OrElse(x, default) == IF x = Null THEN default ELSE x
Clock(c, half) == Hour24([h |-> c.h, m |-> OrElse(c.m, 0), half |-> half])
Bare(c, half) == half = Null /\ c.m = Null

StartHalf(range) == OrElse(range.s.half, range.e.half)
EndHalf(range) == OrElse(range.e.half, range.s.half)

\* _extract_times: <<start, end>>.  A bare hour in a range ends the search; a
\* range that names no time of day leaves it to "at".
ExtractTimes(r) ==
  LET start == Clock(r.range.s, StartHalf(r.range))
      end == Clock(r.range.e, EndHalf(r.range))
      bare == Bare(r.range.s, StartHalf(r.range)) \/ Bare(r.range.e, r.range.e.half)
  IN IF r.range # Null /\ bare THEN <<Null, Null>>
     ELSE IF r.range # Null /\ start # Null /\ end # Null THEN <<start, end>>
     ELSE IF r.single = Null \/ Bare(r.single, r.single.half) THEN <<Null, Null>>
     ELSE <<Clock(r.single, r.single.half), Null>>

ValidDates(r) == {d.day : d \in {x \in r.dates : x.weekday # "wrong"}}
\* _extract_date: two different dates are ambiguous.
ExtractDate(r) == IF Cardinality(ValidDates(r)) = 1 THEN Max(ValidDates(r)) ELSE Null

\* _extract_duration: "90 minutes", "2 hours", "an hour".
Duration(r) ==
  IF r.duration = Null THEN Null
  ELSE IF r.duration.unit = "minute" THEN r.duration.n ELSE 60 * r.duration.n

MaxAttendees == 50
\* _extract_attendees, with the check of its caller.
Attendees(r) ==
  LET n == r.people + (IF r.self THEN 1 ELSE 0)
  IN IF n <= MaxAttendees THEN n ELSE 0

\* parse_scheduling_request
ParseSchedulingRequest(r) ==
  LET date == ExtractDate(r)
      start == ExtractTimes(r)[1]
      end == ExtractTimes(r)[2]
      starts == IF date = Null \/ start = Null THEN Null ELSE 1440 * date + start
      ends == IF starts = Null THEN Null
              ELSE IF end # Null THEN 1440 * date + end
              ELSE IF r.duration # Null THEN starts + Duration(r) ELSE Null
      backwards == ends # Null /\ ends <= starts
  IN [starts |-> starts, ends |-> IF backwards THEN Null ELSE ends,
      attendees |-> Attendees(r),
      missing |-> {f \in {"title", "date", "start_time", "end_or_duration", "attendees"} :
                     \/ f = "title" /\ ~r.quoted /\ ~r.subject
                     \/ f = "date" /\ date = Null
                     \/ f = "start_time" /\ start = Null
                     \/ f = "end_or_duration" /\ (backwards \/ (end = Null /\ r.duration = Null))
                     \/ f = "attendees" /\ Attendees(r) = 0}]

\* SchedulingExtraction.executable
Executable(x, reference) == x.missing = {} /\ x.starts # Null /\ x.starts > reference

-----------------------------------------------------------------------------
(* The briefing time.  A wall is a local clock reading, day and minute.    *)

Local(u, z) == u + (IF u < z.at THEN z.before ELSE z.after)
\* A reading skipped or repeated by the change belongs to either side of it:
\* PEP 495's fold.
Instant(wall, z, fold) ==
  LET change == z.at + (IF fold = 0 THEN Max({z.before, z.after}) ELSE Min({z.before, z.after}))
  IN wall - (IF wall < change THEN z.before ELSE z.after)

Exists(wall, z) == {u \in {Instant(wall, z, fold) : fold \in {0, 1}} : Local(u, z) = wall}

GapSearchBound == 240
\* _first_valid_instant_after_gap, Null when it raises.
AfterGap(wall, z) ==
  LET found == {w \in wall..(wall + GapSearchBound) : Local(Instant(w, z, 0), z) = w}
  IN IF found = {} THEN Null ELSE Instant(Min(found), z, 0)

\* Mutant of ResolveLocal: fold 0, whatever the day.
ResolveFoldZero(wall, z) == Instant(wall, z, 0)
\* resolve_local_schedule_instant
ResolveLocal(wall, z) == IF Exists(wall, z) = {} THEN AfterGap(wall, z) ELSE Min(Exists(wall, z))

LocalDate(now, z) == Local(now, z) \div 1440
Target(date, time, z) == ResolveLocal(1440 * date + time, z)

GraceWindow == 360
\* plan_dispatch, for a user without a run on the local date.
Planned(now, time, z) ==
  LET target == Target(LocalDate(now, z), time, z)
  IN IF now < target THEN "not_due"
     ELSE IF now - target > GraceWindow THEN "skipped" ELSE "pending"

\* next_expected_run, what the settings show.
NextExpectedRun(now, time, z, handled) ==
  LET today == LocalDate(now, z)
      target == Target(today, time, z)
  IN IF ~handled /\ now <= target + GraceWindow THEN target ELSE Target(today + 1, time, z)
=============================================================================
