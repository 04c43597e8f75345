------------------------------- MODULE Rules --------------------------------
(***************************************************************************)
(* The rules of the program that keep no state: what written days and      *)
(* times mean, what Google's answers are taken for, which requests the     *)
(* limits admit.  A behaviour takes one case and applies the rule to it;   *)
(* the properties compare the two.                                         *)
(***************************************************************************)
EXTENDS WrittenTimes, ProviderCalls, RateLimits

CONSTANTS
  SentDays,    \* days on which an email is sent
  DueTexts,    \* the sets of deadline phrases an email may hold
  Requests,    \* scheduling requests
  References,  \* times at which a request is looked at
  Zones, BriefingTimes, \* the zones and times of the day of settings
  Ticks,       \* instants at which the dispatcher looks at them
  Reads,       \* reads under retry_read
  Drafts, Events, \* calls of the executors
  Policies,    \* policies, in the registry or overridden
  Arrivals(_)  \* sequences of requests under a policy

\* The clocks of a zone skip four hours at most: _first_valid_instant_after_gap
\* raises when it has searched them.
ASSUME ZonesAreGiven ==
  /\ Zones \subseteq [at : Int, before : Int, after : Int]
  /\ \A z \in Zones : z.after - z.before <= GapSearchBound
  /\ BriefingTimes \subseteq Int /\ Ticks \subseteq Int
\* An email is sent in a month of the calendar that another one follows, and a
\* phrase that names a weekday names one of seven.
ASSUME DeadlinesAreGiven ==
  /\ \A sent \in SentDays : sent \in Nat /\ sent < MonthStart[Len(MonthLengths)]
  /\ \A text \in DueTexts : \A p \in text : p \in PhraseRows /\ (p.rule = "by_weekday" => p.n \in 0..6)
\* The hours and minutes are two digits.
ASSUME RequestsAreGiven ==
  /\ Null \notin Int \cup Halves
  /\ \A r \in Requests : r \in RequestRows /\ IsFiniteSet(r.dates)
  /\ References \subseteq Int

\* What a call raises is an error of the clients; the draws of retry_read are
\* between a half and one and a half, and it makes at least one call.
ASSUME ReadsAreGiven ==
  \A c \in Reads :
    /\ c.limits \in [attempts : Nat \ {0}, budget : Nat] /\ c.after \in Nat
    /\ \A i \in 1..c.limits.attempts :
         c.jitters[i] \in 50..150 /\ c.answers[i] \in {"ok", "auth", "transient", "client"}

\* What a status says of a write, however the clients classify it: Google has
\* done one that it accepts, and not done one that it rejects with a 4xx; but a
\* timeout, 429, any 5xx, or no answer at all leaves open whether it has
\* (google/errors.py:20 and :29).
Accepts == [gmail |-> {200}, calendar |-> {200, 201}]
Rejections == (400..499) \ {408, 429}
Told(api, c) ==
  /\ c.posted \in {NoAnswer} \cup Accepts[api] \cup 400..599
  /\ c.posted \in Accepts[api] => c.applied
  /\ c.posted \in Rejections => ~c.applied
\* What is read back is a subject with a number of "Re:", or readings of clocks.
IsSubject(s) == s = [re |-> s.re, text |-> s.text] /\ s.re \in Nat
IsClock(t) == t.minute \in Int /\ t.offset \in Int \cup {Absent}
ASSUME CallsAreGiven ==
  /\ Absent \notin Int
  /\ \A c \in Drafts : /\ Told("gmail", c) /\ DOMAIN c.reads = 1..2
                        /\ IsSubject(c.approved.subject) /\ IsSubject(c.stored.subject)
  /\ \A c \in Events : /\ Told("calendar", c) /\ DOMAIN c.reads = 1..2
                        /\ \A t \in {c.approved.start, c.approved.end, c.stored.start, c.stored.end} :
                             IsClock(t)

\* The integers of a policy are positive: RateLimitPolicy refuses others.
ASSUME PoliciesAreGiven ==
  \A p \in Policies :
    /\ p \in [capacity : Nat \ {0}, amount : Nat \ {0}, window : Nat \ {0}]
    /\ \A requests \in Arrivals(p) : requests \in Seq([gap : Nat, redis : {"answers", "late", "down"}])

VARIABLES
  written,     \* the case
  reading      \* what the rules made of it, Null before

cases == <<written, reading>>

RulesInit ==
  /\ reading = Null
  /\ \/ \E text \in DueTexts, sent \in SentDays :
          written = [kind |-> "deadline", text |-> text, at |-> sent]
     \/ \E r \in Requests, reference \in References :
          written = [kind |-> "schedule", text |-> r, at |-> reference]
     \/ \E z \in Zones, time \in BriefingTimes, now \in Ticks :
          written = [kind |-> "briefing", text |-> [zone |-> z, time |-> time], at |-> now]
     \/ \E read \in Reads : written = [kind |-> "read", call |-> read]
     \/ \E call \in Drafts : written = [kind |-> "draft", call |-> call]
     \/ \E call \in Events : written = [kind |-> "event", call |-> call]
     \/ \E p \in Policies : \E requests \in Arrivals(p) :
          written = [kind |-> "limit", policy |-> p, requests |-> requests]

ReadsDeadline ==
  /\ written.kind = "deadline" /\ reading = Null
  /\ reading' = [due |-> ParseDuePhrase(written.text, written.at)]
  /\ UNCHANGED written

ReadsRequest ==
  /\ written.kind = "schedule" /\ reading = Null
  /\ LET x == ParseSchedulingRequest(written.text)
     IN reading' = [x |-> x, executable |-> Executable(x, written.at)]
  /\ UNCHANGED written

ReadsBriefingTime ==
  /\ written.kind = "briefing" /\ reading = Null
  /\ \E handled \in BOOLEAN :
       LET z == written.text.zone
           time == written.text.time
       IN reading' = [target |-> Target(LocalDate(written.at, z), time, z), handled |-> handled,
                      planned |-> IF handled THEN "handled" ELSE Planned(written.at, time, z),
                      shown |-> NextExpectedRun(written.at, time, z, handled)]
  /\ UNCHANGED written

Retries ==
  /\ written.kind = "read" /\ reading = Null
  /\ LET c == written.call
     IN reading' = RetryRead(c.answers, c.jitters, c.after, c.limits)
  /\ UNCHANGED written

CallsGmail ==
  /\ written.kind = "draft" /\ reading = Null
  /\ reading' = CreateDraft(written.call)
  /\ UNCHANGED written

CallsCalendar ==
  /\ written.kind = "event" /\ reading = Null
  /\ reading' = InsertEvent(written.call)
  /\ UNCHANGED written

Limits ==
  /\ written.kind = "limit" /\ reading = Null
  /\ reading' = Enforced(written.policy, written.requests)
  /\ UNCHANGED written

RulesNext ==
  \/ ReadsDeadline \/ ReadsRequest \/ ReadsBriefingTime
  \/ Retries \/ CallsGmail \/ CallsCalendar \/ Limits

RulesSpec == RulesInit /\ [][RulesNext]_cases

-----------------------------------------------------------------------------
(* Properties.                                                             *)

\* What a phrase means, day by day: "by the 31st" also fits the last day of a
\* month that has no 31st.
Fits(p, sent, day) ==
  CASE p.rule = "end_of_day"   -> day = sent
    [] p.rule = "end_of_week"  -> day >= sent /\ Weekday(day) = 4
    [] p.rule = "end_of_month" -> day >= sent /\ LastOfMonth(day)
    [] p.rule = "by_weekday"   -> day > sent /\ Weekday(day) = p.n
    [] p.rule = "by_ordinal"   -> day >= sent /\ \/ DayOfMonth(day) = p.n
                                                 \/ LastOfMonth(day) /\ p.n > DayOfMonth(day)
    [] p.rule = "tomorrow"     -> day = sent + 1

\* A deadline is the first day from the sending on that the phrase can mean:
\* never in the past, never a month late, over the ends of months and years
\* (deadline_phrases.py:44, parse_due_phrase).
DueIsTheFirstDayMeant ==
  (written.kind = "deadline" /\ reading # Null /\ written.text # {} /\ reading.due # Null) =>
    LET p == First(written.text)
        window == written.at..(written.at + 31)
    IN reading.due = Min({day \in window : Fits(p, written.at, day)})

\* The minutes of the day a written clock can mean, given the half of the day.
Meant(c, half) ==
  {t \in 0..1439 : /\ t % 60 = OrElse(c.m, 0)
                   /\ IF half = Null THEN t \div 60 = c.h
                      ELSE (t \div 60) % 12 = c.h % 12 /\ (t >= 720 <=> half = "pm")}

\* An event that may be proposed stands in the email: the one date it gives,
\* a start and an end that its clocks mean, the half of the day taken from the
\* other end of a range only when its own is missing, or the stated duration;
\* it ends after it starts, it is to come, and no more people are invited than
\* the payload takes (scheduling_phrases.py:7, "nothing is ever guessed").
PreparedEventIsStated ==
  (written.kind = "schedule" /\ reading # Null /\ reading.executable) =>
    LET r == written.text
        x == reading.x
        day == x.starts \div 1440
        FromRange == /\ r.range # Null
                     /\ x.starts % 1440 \in Meant(r.range.s, OrElse(r.range.s.half, r.range.e.half))
                     /\ x.ends - 1440 * day \in Meant(r.range.e, OrElse(r.range.e.half, r.range.s.half))
        FromSingle == /\ r.single # Null /\ r.duration # Null
                      /\ x.starts % 1440 \in Meant(r.single, r.single.half)
                      /\ x.ends = x.starts + Duration(r)
    IN /\ \E d \in r.dates : d.day = day /\ d.weekday # "wrong"
       /\ \A d \in r.dates : d.weekday = "wrong" \/ d.day = day
       /\ FromRange \/ FromSingle
       /\ x.starts < x.ends /\ x.starts > written.at
       /\ x.attendees \in 1..50

\* A briefing is due at the first instant of its day at which the local clock
\* shows its time or has passed it: once when the time comes twice, and as
\* soon as the clocks have changed when it is skipped
\* (scheduled_briefs.py:113-123, test_scheduled_briefs.py).
BriefingIsTheFirstInstant ==
  (written.kind = "briefing" /\ reading # Null) =>
    LET z == written.text.zone
        wall == 1440 * LocalDate(written.at, z) + written.text.time
        offsets == {z.before, z.after}
        window == (wall - Max(offsets))..(wall - Min(offsets) + GapSearchBound)
    IN reading.target = Min({u \in window : Local(u, z) >= wall})

\* The write was sent, and Google has done it.
Happened(c) == TokenForExecution(c.token) = "ok" /\ c.applied

\* What is stored says what the user agreed to: the same people, or the same
\* and the calendar's owner; the same content; a reply may have lost one "Re:"
\* to its thread; an event is at the same time, however that is written.
AsAgreed(kind, c) ==
  IF kind = "draft"
    THEN /\ <<c.stored.to, c.stored.body>> = <<c.approved.to, c.approved.body>>
         /\ c.stored.subject.text = c.approved.subject.text
         /\ c.approved.subject.re - c.stored.subject.re \in (IF c.approved.reply THEN {0, 1} ELSE {0})
    ELSE /\ ~c.stored.cancelled /\ c.stored.title = c.approved.title
         /\ \A t \in {<<c.stored.start, c.approved.start>>, <<c.stored.end, c.approved.end>>} :
              Absent \notin {t[1].offset, t[2].offset} /\ t[1].minute - t[2].minute = t[1].offset - t[2].offset
         /\ c.stored.attendees \in {c.approved.attendees, c.approved.attendees \cup {c.stored.organiser}}

\* The statuses that leave the outcome open although the clients do not list
\* them among the transient ones (gmail_client.py:124, calendar_client.py:110).
Unlisted == {408, 501} \cup 505..599

\* "Failed" is said only of what was not written, "succeeded" only of what was
\* written, read back and is what was agreed to, and always of that;
\* everything else is uncertain (action_executors.py:224, :351).  The unlisted
\* statuses are left out: they are recorded as failed, done or not (see
\* ServerErrorsAreUncertain).
OutcomeIsHonest ==
  (written.kind \in {"draft", "event"} /\ reading # Null) =>
    LET c == written.call
        confirmed == Happened(c) /\ AsAgreed(written.kind, c)
    IN /\ reading = "failed" => ~Happened(c) \/ c.posted \in Unlisted
       /\ reading = "succeeded" => confirmed /\ \E i \in DOMAIN c.reads : c.reads[i] \in {200, 201}
       /\ (confirmed /\ c.posted = 200 /\ c.reads[1] = 200) => reading = "succeeded"

\* A read is repeated after errors that may pass and after nothing else, a
\* bounded number of times and within its budget of time; the last error is
\* the one raised, and it is not given up early (retry.py:49).
RetriesStop ==
  (written.kind = "read" /\ reading # Null) =>
    LET c == written.call
    IN /\ reading.calls <= c.limits.attempts /\ reading.slept <= c.limits.budget
       /\ reading.raised = c.answers[reading.calls]
       /\ \A i \in 1..(reading.calls - 1) : c.answers[i] \in {"auth", "transient"}
       /\ reading.raised \in {"auth", "transient"} =>
            reading.calls = c.limits.attempts \/ reading.slept > c.limits.budget - MaxDelay

CallsInv == OutcomeIsHonest /\ RetriesStop

\* Between any two requests no more was admitted than the burst and what the
\* time between them brings.
WithinBudget(p, told) ==
  \A i, j \in DOMAIN told : i <= j =>
    LET admitted == {k \in i..j : told[k].decision.allowed /\ ~told[k].decision.degraded}
    IN Cardinality(admitted) * p.window <= p.capacity * p.window + (told[j].at - told[i].at) * p.amount

\* The limits admit a burst and then their rate, over outages of Redis and
\* buckets that expire; and who waits as long as told is admitted, who waits
\* less is not (rate_limiter.py:35, rate_limit_policy.py:1, "Pilot product
\* defaults").
BudgetsHold ==
  (written.kind = "limit" /\ reading # Null) =>
    LET p == written.policy
    IN /\ (\E code \in DOMAIN Registry : Registry[code] = p) => WithinBudget(p, reading)
       /\ \A i \in DOMAIN reading :
            LET told == reading[i]
            IN ~told.decision.allowed =>
                 /\ Consumed(p, told.bucket, told.at + told.decision.retry).allowed
                 /\ ~Consumed(p, told.bucket, told.at + told.decision.retry - 1).allowed

(* Refuted: see the README.                                                *)

\* "the brief is still generated if the tick occurs within 6 hours of the
\* target instant.  Beyond 6 hours, the run is recorded skipped"
\* (adr/0004:181-184): the window ends at local midnight, and then nothing is
\* recorded.
CatchesUp ==
  (written.kind = "briefing" /\ reading # Null /\ ~reading.handled) =>
    LET z == written.text.zone
        yesterday == Target(LocalDate(written.at, z) - 1, written.text.time, z)
    IN written.at \notin yesterday..(yesterday + GraceWindow)

\* "The local date/target-instant the next scheduled run will use"
\* (scheduled_briefs.py:467): not when the clocks skip the end of the day.
ShownIsDispatched ==
  (written.kind = "briefing" /\ reading # Null) =>
    Planned(Max({written.at, reading.shown}), written.text.time, written.text.zone) = "pending"

\* "a field the text does not state unambiguously is reported in missing"
\* (scheduling_phrases.py:7): "from 9:00 to 10 pm" is read as 21:00, although
\* 9:00 with its minutes is a 24-hour time.
StatedClockStands ==
  (written.kind = "schedule" /\ reading # Null /\ reading.executable) =>
    LET s == written.text.range.s
    IN (written.text.range # Null /\ s.m # Null /\ s.half = Null) =>
         reading.x.starts % 1440 = 60 * s.h + s.m

\* An unusable ordinal leaves the other phrases to be read: "by the 45th" hides
\* "tomorrow" (deadline_phrases.py:78).
OtherPhrasesAreRead ==
  (written.kind = "deadline" /\ reading # Null
     /\ \E p \in written.text : p.rule # "by_ordinal" \/ p.n \in 1..31) => reading.due # Null

\* "Timeout, connection error, 429, or 5xx - the call's true outcome is
\* unknown.  Maps to ExecutionOutcome.uncertain, never to failed"
\* (google/errors.py:29): of the 5xx only four are, another one is recorded as
\* failed even when Google has done the write.
ServerErrorsAreUncertain ==
  (/\ written.kind \in {"draft", "event"} /\ reading # Null
   /\ Happened(written.call) /\ written.call.posted >= 500)
  => reading # "failed"

\* "a bucket mid-refill is never evicted early" (rate_limit_policy.py:67): it is
\* when an override makes the burst more than two windows bring.
NeverEvictedEarly ==
  (written.kind = "limit" /\ reading # Null) => WithinBudget(written.policy, reading)

PreviewTTL == 30 * 60
\* "review the refreshed preview" (deletion.py:356): a confirmation that was
\* answered so, or whose phrase was mistyped, has spent the one token of its
\* policy, and the next comes after the preview has expired.
ReconfirmIsInTime ==
  (written.kind = "limit" /\ reading # Null /\ written.policy = Registry[ConfirmPolicy("account_deletion")]) =>
    \A i \in DOMAIN reading : reading[i].decision.retry <= PreviewTTL
=============================================================================
