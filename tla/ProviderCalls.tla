--------------------------- MODULE ProviderCalls ----------------------------
(***************************************************************************)
(* What an answer of Google, or its absence, is taken for: the errors of   *)
(* the Gmail, Calendar and token clients (google/), which of them may be   *)
(* tried again (failure_taxonomy.py, retry.py), and the outcome that the   *)
(* two executors of action_executors.py make of a write and of the reading *)
(* back of what was stored.  ProposalExecution has the same call as        *)
(* AcquireToken, ProviderCall and Verify, with the outcomes chosen freely. *)
(*                                                                         *)
(* An answer is an HTTP status, or NoAnswer.  Times are milliseconds.      *)
(***************************************************************************)
EXTENDS Integers, Sequences, FiniteSets, FiniteSetsExt

CONSTANT Absent    \* no offset, no organiser

NoAnswer == 0
TransientStatuses == {429, 500, 502, 503, 504}

\* _raise_for_error after _get or _post: "ok", or the error that is raised.
Raised(answer, accepted) ==
  IF answer \in accepted THEN "ok"
  ELSE IF answer \in {401, 403} THEN "auth"
  ELSE IF answer \in TransientStatuses \cup {NoAnswer} THEN "transient"
  ELSE "client"

GmailAnswer(answer) == Raised(answer, {200})
CalendarAnswer(answer) == Raised(answer, {200, 201})
Answer(api, answer) == IF api = "gmail" THEN GmailAnswer(answer) ELSE CalendarAnswer(answer)

\* _classify_token_error: error is the code in the body of a refusal.
TokenAnswer(answer, error) ==
  IF answer = 200 THEN "ok"
  ELSE IF \/ answer \in {NoAnswer, 429} \/ answer >= 500
          \/ error \in {"server_error", "temporarily_unavailable"} THEN "transient"
  ELSE IF error = "invalid_grant" THEN "invalid_grant"
  ELSE IF error \in {"invalid_client", "unauthorized_client"} THEN "auth"
  ELSE "client"

\* classify_exception: the code that is shown, and what may be tried again.
Classified == [auth |-> "authentication_expired", transient |-> "provider_transient_error",
               client |-> "provider_permanent_error", redis |-> "redis_unavailable",
               database |-> "database_unavailable", timeout |-> "dependency_timeout",
               invalid_grant |-> "unknown_error", other |-> "unknown_error"]
Retryable(error) ==
  error # "ok" /\ Classified[error] \notin {"provider_permanent_error", "unknown_error"}

-----------------------------------------------------------------------------
(* retry_read: answers are what the calls would raise or return, one after *)
(* the other; jitters the random draws, in percent; after the Retry-After. *)

BaseDelay == 500
MaxDelay == 8000

Delay(i, jitter, after) ==
  LET backoff == Min({BaseDelay * 2 ^ (i - 1), MaxDelay})
      jittered == Min({(backoff * jitter) \div 100, MaxDelay})
  IN Min({Max({jittered, after}), MaxDelay})

GivesUp(i, slept, delay, limits) == i = limits.attempts \/ slept + delay > limits.budget

RetryRead(answers, jitters, after, limits) ==
  LET calls == 1..limits.attempts
      delay == [i \in calls |-> Delay(i, jitters[i], after)]
      slept[i \in calls] == IF i = 1 THEN 0 ELSE slept[i - 1] + delay[i - 1]
      last == Min({i \in calls : ~Retryable(answers[i]) \/ GivesUp(i, slept[i], delay[i], limits)})
  IN [raised |-> answers[last], calls |-> last, slept |-> slept[last]]

Defaults == [attempts |-> 3, budget |-> 20000]

-----------------------------------------------------------------------------
(* Reading back.  A subject is [re, text], re the number of its "Re:"; a   *)
(* time is a local reading with its offset, Absent for a day without one.    *)

SubjectMatches(approved, stored, isReply) ==
  \/ stored = approved
  \/ isReply /\ approved.re > 0 /\ stored = [approved EXCEPT !.re = @ - 1]

DraftMatches(approved, stored) ==
  /\ stored.to = approved.to
  /\ SubjectMatches(approved.subject, stored.subject, approved.reply)
  /\ stored.body = approved.body

AwareInstant(t) == IF t.offset = Absent THEN Absent ELSE t.minute - t.offset
SameInstant(t, u) == AwareInstant(t) # Absent /\ AwareInstant(t) = AwareInstant(u)

EventMatches(approved, stored) ==
  /\ ~stored.cancelled
  /\ stored.title = approved.title
  /\ SameInstant(stored.start, approved.start)
  /\ SameInstant(stored.end, approved.end)
  /\ approved.attendees \subseteq stored.attendees
  /\ stored.attendees \ approved.attendees \subseteq {stored.organiser}

-----------------------------------------------------------------------------
(* GoogleGmailDraftExecutor and GoogleCalendarEventExecutor.  A call holds *)
(* what it meets: token, the state of the account and the answers to a     *)
(* refresh; posted, the answer to the one write; reads, the answers to the *)
(* reading back; and what is stored then.                                  *)

Steady == [i \in 1..3 |-> 100]

\* get_valid_access_token_for_execution, and _decrypt_or_refresh: only a
\* refused grant is given another meaning.
TokenForExecution(t) ==
  LET refreshed == RetryRead([i \in 1..3 |-> TokenAnswer(t.answers[i], t.error)],
                             Steady, 0, Defaults).raised
  IN IF ~t.approved THEN "context_changed"
     ELSE IF t.fresh THEN "ok"
     ELSE IF ~t.refreshable \/ refreshed = "invalid_grant" THEN "reauthorise"
     ELSE refreshed

Verification == [attempts |-> 2, budget |-> 20000]

\* The four errors that the first try block catches, by name.
Caught(error) == IF error = "transient" THEN "uncertain" ELSE "failed"

\* Mutant of Confirms: what cannot be read back has failed.
ConfirmsOrFails(raised, matches) == IF raised = "ok" /\ matches THEN "succeeded" ELSE "failed"
Confirms(raised, matches) == IF raised = "ok" /\ matches THEN "succeeded" ELSE "uncertain"

ReadBack(api, reads) ==
  RetryRead([i \in DOMAIN reads |-> Answer(api, reads[i])], Steady, 0, Verification).raised

Executed(api, c, matches) ==
  LET token == TokenForExecution(c.token)
      posted == Answer(api, c.posted)
  IN IF token # "ok" THEN Caught(token)
     ELSE IF posted # "ok" THEN Caught(posted)
     ELSE Confirms(ReadBack(api, c.reads), matches)

\* execute of the two executors.
CreateDraft(c) == Executed("gmail", c, DraftMatches(c.approved, c.stored))
InsertEvent(c) == Executed("calendar", c, EventMatches(c.approved, c.stored))
=============================================================================
