----------------------------- MODULE BriefPipeline ----------------------------
(***************************************************************************)
(* From the stored mail and calendar to a brief and its proposals: the     *)
(* rules of detectors.py, the model's additions (extraction_llm.py), the   *)
(* score (priority.py), the signals table (extraction.py), the sections    *)
(* (brief_composition.py) and the candidates (proposal_composition.py).    *)
(*                                                                         *)
(* Time is counted in half days.  A generation reads the items, waits for  *)
(* the model, writes the signals and reads signals and items again, waits  *)
(* for the model's prose, and commits; two generations wait for each other *)
(* at the rows both write, here there is one at a time.  Scores are in     *)
(* ten-thousandths, confidence and urgency in hundredths.                  *)
(***************************************************************************)
EXTENDS Integers, FiniteSets, FiniteSetsExt

CONSTANTS
  Catalog,      \* item number -> what the item says
  Pools,        \* the sets of items that a user's sources may hold
  Clock,        \* the times at which something happens
  Claims,       \* signals the model may return
  MaxClaims,    \* SignalExtractionOutput: at most 50
  SourceLimit,  \* SourceItemRepository.list(limit=1000)
  SignalLimit,  \* SignalRepository.list_ranked(limit=1000)
  Null

ASSUME ClockAssumption == Clock \subseteq Nat /\ Clock # {}
ASSUME CatalogAssumption ==
  /\ \A items \in Pools : items \subseteq DOMAIN Catalog
  /\ \A i \in DOMAIN Catalog :
       /\ Catalog[i].kind \in {"email", "event"} /\ Catalog[i].at \in Int
       /\ Catalog[i].kind = "email" => {Catalog[i].due, Catalog[i].starts} \subseteq Int \cup {Null}
\* ExtractedSignal, the schema of the model's answer: it knows no scheduling
\* requests, and a claim cites something.  Its references are a list of at
\* most five: "repeats" has those that are in it more than once, with how often.
ASSUME ClaimsAssumption ==
  /\ Claims \subseteq [type : {"request", "commitment", "deadline", "follow_up", "meeting", "conflict"},
                      refs : SUBSET DOMAIN Catalog, repeats : SUBSET ((DOMAIN Catalog) \X (2..5)),
                      version : {"llm-v1"}, confidence : 0..100,
                      urgency : Int, due : Int \cup {Null}]
  /\ \A c \in Claims : c.refs # {} /\ \A m \in c.repeats : m[1] \in c.refs

VARIABLES
  now,
  pool,         \* what the user's sources hold
  stored,       \* the source items
  signals,      \* the rows of the signals table, all of them active
  work,         \* the generation in progress
  brief         \* the brief that the last step committed, with what it was composed from

vars == <<now, pool, stored, signals, work, brief>>

Day == 2
StaleFollowUpDays == 5
FrequentContactMinItems == 3
LowConfidence == 50
ProposalTTL == 7 * Day

Types == {"request", "schedule_request", "commitment", "deadline", "meeting", "conflict", "follow_up"}
Sections == {"needs_attention", "today_upcoming", "waiting_for", "suggested_actions",
             "low_confidence_review"}

-----------------------------------------------------------------------------
(* The rules.  S is the set of items they look at, t the reference time.   *)

Item(i) == Catalog[i]
Emails(S) == {i \in S : Item(i).kind = "email"}
Inbox(S) == {i \in Emails(S) : Item(i).folder = "inbox"}
Sent(S) == {i \in Emails(S) : Item(i).folder = "sent"}
Personal(S) == {i \in Inbox(S) : ~Item(i).bulk}
Events(S) == {i \in S : Item(i).kind = "event"}
Timed(S, t) == {i \in Events(S) : ~Item(i).all_day /\ Item(i).at >= t}

Signal(type, refs, confidence, urgency, due) ==
  [type |-> type, refs |-> refs, repeats |-> {}, version |-> "det-v1",
   confidence |-> confidence, urgency |-> urgency, due |-> due]

Requests(S) ==
  {IF Item(i).cue = "strong" THEN Signal("request", {i}, 85, 60, Item(i).due)
   ELSE Signal("request", {i}, 45, 30, Item(i).due)
     : i \in {x \in Personal(S) : Item(x).cue # "none"}}

\* SchedulingExtraction.executable, of the module WrittenTimes.
Executable(i, t) == Item(i).schedule = "complete" /\ Item(i).starts > t
ScheduleRequests(S, t) ==
  {IF Executable(i, t) THEN Signal("schedule_request", {i}, 90, 60, Item(i).starts)
   ELSE Signal("schedule_request", {i}, 45, 30, Null)
     : i \in {x \in Personal(S) : Item(x).schedule # "none"}}

Commitments(S) ==
  {IF Item(i).due # Null THEN Signal("commitment", {i}, 80, 60, Item(i).due)
   ELSE Signal("commitment", {i}, 60, 40, Null)
     : i \in {x \in Sent(S) : Item(x).promise}}

Covered(S, t) ==
  UNION {s.refs : s \in Requests(S) \cup Commitments(S) \cup ScheduleRequests(S, t)}
Deadlines(S, t) ==
  {Signal("deadline", {i}, 70, 60, Item(i).due)
     : i \in {x \in Personal(S) \ Covered(S, t) : Item(x).due # Null}}
  \cup {Signal("deadline", {i}, 90, 80, Item(i).at)
          : i \in {x \in Events(S) : Item(x).all_day /\ Item(x).names_due}}

Malformed(S, t) == {i \in Timed(S, t) : Item(i).attendees = Null}
Meetings(S, t) ==
  {Signal("meeting", {i}, 95, IF Item(i).at - t < Day THEN 50 ELSE 30, Item(i).at)
     : i \in {x \in Timed(S, t) \ Malformed(S, t) : Item(x).attendees >= 2}}

\* detect_conflicts: the later event starts before the earlier one ends.
Conflicts(S, t) ==
  {Signal("conflict", pair, 100, 90, Min({Item(i).at : i \in pair}))
     : pair \in {p \in kSubset(2, Timed(S, t)) :
                   \E i \in p : \A j \in p \ {i} :
                     /\ Item(i).at < Item(j).at \/ (Item(i).at = Item(j).at /\ i < j)
                     /\ Item(i).ends # Null /\ Item(j).at < Item(i).ends}}

Waiting(i, t) == (t - Item(i).at) \div Day
Replied(S, i) == \E j \in Inbox(S) : Item(j).thread = Item(i).thread /\ Item(j).at > Item(i).at
FollowUps(S, t) ==
  {Signal("follow_up", {i}, 85, Min({40 + 5 * Waiting(i, t), 100}), Null)
     : i \in {x \in Sent(S) : /\ Item(x).thread # Null /\ ~Replied(S, x)
                              /\ Waiting(x, t) >= StaleFollowUpDays}}

\* run_deterministic_detectors
Detected(S, t) ==
  Requests(S) \cup Commitments(S) \cup ScheduleRequests(S, t) \cup Deadlines(S, t)
    \cup Meetings(S, t) \cup Conflicts(S, t) \cup FollowUps(S, t)

-----------------------------------------------------------------------------
(* The model's additions and the score.                                    *)

\* dedupe_key hashes the sorted list of the references: one that is cited
\* twice makes another key.
Key(s) == <<s.type, s.refs, s.repeats>>

\* validate_output
Accepted(claims, S) ==
  {[c EXCEPT !.version = "llm-v1", !.confidence = Min({@, 90}), !.urgency = 50]
     : c \in {x \in claims : x.refs \subseteq S}}

\* Mutant of Deduplicate: the last occurrence wins.
DeduplicateLast(rules, claimed) ==
  claimed \cup {s \in rules : \A c \in claimed : Key(c) # Key(s)}
\* deduplicate: the first occurrence wins, and the rules come first.
Deduplicate(rules, claimed) ==
  rules \cup {c \in claimed : \A s \in rules : Key(c) # Key(s)}

Proximity(due, t) ==
  IF due = Null THEN 0
  ELSE IF due - t <= Day THEN 100
  ELSE IF due - t <= 3 * Day THEN 70
  ELSE IF due - t <= 7 * Day THEN 40 ELSE 15

\* A request of the model carries no explicit_request reason.
RequestStrength(s) ==
  IF s.type = "request"
  THEN IF s.version = "det-v1" /\ s.confidence = 85 THEN 90 ELSE 40
  ELSE IF s.type = "schedule_request" THEN 90
  ELSE IF s.type = "commitment" THEN 60 ELSE 0

Importance(s) ==
  CASE s.type = "conflict" -> 80
    [] s.type = "deadline" -> 70
    [] s.type \in {"request", "schedule_request", "commitment"} -> 60
    [] s.type = "follow_up" -> 50
    [] s.type = "meeting" -> 40

Relationship(s, S) ==
  IF \E i \in s.refs : Cardinality({j \in S : Item(j).sender = Item(i).sender})
                         >= FrequentContactMinItems THEN 70 ELSE 30

Score(s, S, t) ==
  30 * s.urgency + 25 * Importance(s) + 20 * RequestStrength(s)
    + 15 * Proximity(s.due, t) + 10 * Relationship(s, S)
Band(score) == IF score >= 5500 THEN "high" ELSE IF score >= 3500 THEN "medium" ELSE "low"

\* score_signal, as a row of the table.
Row(s, S, t) ==
  [key |-> Key(s), type |-> s.type, refs |-> s.refs, version |-> s.version,
   confidence |-> s.confidence, urgency |-> s.urgency, due |-> s.due,
   score |-> Score(s, S, t), band |-> Band(Score(s, S, t))]

\* _upsert: the evidence of a row that exists is left as it is.
Upserts(rows, found) ==
  {IF \E r \in rows : r.key = f.key
   THEN [f EXCEPT !.refs = (CHOOSE r \in rows : r.key = f.key).refs] ELSE f : f \in found}
Upserted(rows, found) ==
  {r \in rows : \A f \in found : f.key # r.key} \cup Upserts(rows, found)

\* list_ranked: the rows of the highest scores, as many as the limit allows;
\* among equals the random ids decide.
Rankings(rows) ==
  {top \in SUBSET rows :
     \/ top = rows /\ Cardinality(rows) <= SignalLimit
     \/ /\ Cardinality(top) = SignalLimit
        /\ \A r \in top, q \in rows \ top : r.score >= q.score}

-----------------------------------------------------------------------------
(* The sections.                                                           *)

\* The newest items: ORDER BY occurred_at DESC LIMIT.
Listed(S) == {i \in S : Cardinality({j \in S : Item(j).at > Item(i).at
                                               \/ (Item(j).at = Item(i).at /\ j < i)}) < SourceLimit}

Resolves(r, sources) == r.refs # {} /\ r.refs \subseteq sources

SectionFor(r) ==
  IF r.confidence < LowConfidence THEN "low_confidence_review"
  ELSE IF r.type = "follow_up" THEN "waiting_for"
  ELSE IF r.type = "meeting" THEN "today_upcoming"
  ELSE IF r.type = "conflict" \/ r.band = "high" THEN "needs_attention"
  ELSE "suggested_actions"

\* compose_sections
ComposeSections(rows, sources) ==
  [k \in Sections |-> {r.key : r \in {x \in rows : Resolves(x, sources) /\ SectionFor(x) = k}}]
Omitted(rows, sources) == {r \in rows : ~Resolves(r, sources)}

\* needs_attention can never be hidden.
Displayed(sections, hidden) == [k \in Sections \ (hidden \ {"needs_attention"}) |-> sections[k]]

\* Mutant of BriefStatus: degraded is asked first.
DegradedFirst(partial, included, degraded, skipped) ==
  IF degraded THEN "degraded" ELSE IF partial THEN "partial"
  ELSE IF included = {} THEN "empty" ELSE IF skipped THEN "partial" ELSE "complete"
\* The tests in order, then the downgrade for a skipped candidate.
BriefStatus(partial, included, degraded, skipped) ==
  IF partial THEN "partial" ELSE IF included = {} THEN "empty"
  ELSE IF degraded THEN "degraded" ELSE IF skipped THEN "partial" ELSE "complete"

-----------------------------------------------------------------------------
(* The proposal candidates.                                                *)

\* _expiry, Null when the action would expire at once.
Expiry(deadline, t) ==
  LET e == IF deadline = Null THEN t + ProposalTTL ELSE Min({t + ProposalTTL, deadline})
  IN IF e > t THEN e ELSE Null

Candidate(action, r, deadline, t) ==
  [action |-> action, key |-> r.key, expires |-> Expiry(deadline, t)]

\* Mutant of Usable: the confidence is not asked.
UsableWhateverConfidence(rows, sources) == {r \in rows : Resolves(r, sources)}
Usable(rows, sources) == {r \in rows : r.confidence >= LowConfidence /\ Resolves(r, sources)}
OfType(rows, types) == {r \in rows : r.type \in types}

TaskCandidates(rows, sources, t) ==
  {Candidate("create_task", r, r.due, t) : r \in OfType(Usable(rows, sources), {"deadline", "commitment"})}

\* A draft answers an email of the inbox: never the sent one a rule's
\* follow-up stands on.
DraftCandidates(rows, sources, t) ==
  {Candidate("create_gmail_draft", r, Null, t)
     : r \in {x \in OfType(Usable(rows, sources), {"request", "follow_up"}) : Inbox(x.refs) # {}}}

\* The email is parsed again.  An event already on the calendar is skipped.
OnCalendar(i, sources) ==
  \E e \in Events(sources) : Item(e).title = Item(i).title /\ Item(e).at = Item(i).starts
Schedulable(rows, sources, t) ==
  {r \in OfType(Usable(rows, sources), {"schedule_request"}) : \E i \in Inbox(r.refs) : Executable(i, t)}
Duplicates(rows, sources, t) ==
  {r \in Schedulable(rows, sources, t) : \E i \in r.refs : OnCalendar(i, sources)}
EventCandidates(rows, sources, t) ==
  {Candidate("create_calendar_event", r, Item(CHOOSE i \in r.refs : TRUE).starts, t)
     : r \in Schedulable(rows, sources, t) \ Duplicates(rows, sources, t)}

\* A "(proposed)" entry of a calendar that is not Google's, with attendees and
\* an end after its start.
PlaceholderEvents(r) == {i \in Events(r.refs) : Item(i).proposed /\ ~Item(i).google}
\* The first of them in the order of the references.
Placeholder(r) == CHOOSE i \in PlaceholderEvents(r) : TRUE
Placeholders(rows, sources) ==
  {r \in OfType(Usable(rows, sources), {"meeting"}) : PlaceholderEvents(r) # {}}
Unusable(i) ==
  \/ Item(i).ends = Null \/ Item(i).attendees = Null
  \/ Item(i).attendees # 0 /\ Item(i).ends <= Item(i).at
PlaceholderCandidates(rows, sources, t) ==
  {Candidate("create_calendar_event", r, Item(Placeholder(r)).at, t)
     : r \in {x \in Placeholders(rows, sources) :
               ~Unusable(Placeholder(x)) /\ Item(Placeholder(x)).attendees # 0}}

\* compose_proposal_candidates
Candidates(rows, sources, t) ==
  {c \in TaskCandidates(rows, sources, t) \cup DraftCandidates(rows, sources, t)
           \cup EventCandidates(rows, sources, t) \cup PlaceholderCandidates(rows, sources, t)
     : c.expires # Null}
Skipped(rows, sources, t) ==
  Duplicates(rows, sources, t) \cup {r \in Placeholders(rows, sources) : Unusable(Placeholder(r))}

-----------------------------------------------------------------------------
(* The behaviour.                                                          *)

Waits == [step |-> "idle"]

Init ==
  /\ now = Min(Clock)
  /\ pool \in Pools
  /\ stored \in SUBSET {i \in pool : Item(i).kind = "event" \/ Item(i).at <= now}
  /\ signals = {}
  /\ work = Waits
  /\ brief = Null

TimePasses ==
  /\ \E t \in Clock : t > now /\ now' = Min({u \in Clock : u > now})
  /\ brief' = Null /\ UNCHANGED <<pool, stored, signals, work>>

\* A sync stores an item; mail cannot be read before it is written.
Syncs(i) ==
  /\ i \in pool \ stored /\ (Item(i).kind = "email" => Item(i).at <= now)
  /\ stored' = stored \cup {i}
  /\ brief' = Null /\ UNCHANGED <<now, pool, signals, work>>

\* Imported data are deleted: rows with no evidence left go, the others lose
\* the reference and keep their key.  A row that a generation has updated is
\* waited for, one that it has inserted is not seen.
Removes(i) ==
  /\ i \in stored
  /\ work.step = "composed" =>
       \A r \in work.writes : i \in r.refs => \A old \in signals : old.key # r.key
  /\ stored' = stored \ {i}
  /\ signals' = {[r EXCEPT !.refs = @ \ {i}] : r \in {x \in signals : x.refs # {i}}}
  /\ brief' = Null /\ UNCHANGED <<now, pool, work>>

\* generate, or POST /signals/extract, reads the items.
Begins ==
  /\ work.step = "idle"
  /\ work' = [step |-> "extracting", at |-> now, items |-> Listed(stored)]
  /\ brief' = Null /\ UNCHANGED <<now, pool, stored, signals>>

\* What the model may answer: no more than the schema allows.  A claim with
\* the key of an earlier one is left out: whether a claim is accepted depends
\* on its references, so the earlier one is accepted too and deduplicate
\* drops the later.
ClaimSets ==
  {claims \in SUBSET Claims :
     /\ Cardinality(claims) <= MaxClaims
     /\ \A c1, c2 \in claims : Key(c1) = Key(c2) => c1 = c2}
\* The answer of the model, none when there is no provider, or its failure.
Answers == [failed : {FALSE}, claims : ClaimSets] \cup [failed : {TRUE}, claims : {{}}]

Found(w, answer) ==
  {Row(s, w.items, w.at) :
     s \in Deduplicate(Detected(w.items, w.at), Accepted(answer.claims, w.items))}

\* The rows are flushed, then the signals and the items are listed.
Extracts ==
  \E answer \in Answers :
    LET found == Found(work, answer)
        writes == Upserts(signals, found) \ signals
    IN /\ work.step = "extracting"
       /\ \E rows \in Rankings(Upserted(signals, found)) :
            work' = [step |-> "composed", at |-> work.at, items |-> work.items, failed |-> answer.failed,
                     writes |-> writes, rows |-> rows, sources |-> Listed(stored)]
       /\ brief' = Null /\ UNCHANGED <<now, pool, stored, signals>>

\* Is a source unavailable, a signal omitted, an item malformed?
Partial(w, inactive) ==
  inactive \/ Omitted(w.rows, w.sources) # {} \/ Malformed(w.items, w.at) # {}

\* allowed_summary_sentences: one for each signal shown.
Sentences(displayed) == UNION {displayed[k] : k \in DOMAIN displayed}

\* The prose of the model is accepted or not; it is not asked for when there
\* is nothing to say.
ProseAccepted(displayed) == IF Sentences(displayed) # {} THEN BOOLEAN ELSE {TRUE}

\* The sections the user has hidden and the accounts are looked up; the brief
\* and the rows appear.
Commits ==
  \E hidden \in {{}, {"needs_attention", "suggested_actions"}}, inactive \in BOOLEAN :
    LET w == work
        displayed == Displayed(ComposeSections(w.rows, w.sources), hidden)
    IN /\ w.step = "composed"
       /\ \E prose \in ProseAccepted(displayed) :
            brief' = [at |-> w.at, items |-> w.items, rows |-> w.rows, sources |-> w.sources,
                      inactive |-> inactive, sections |-> displayed, failed |-> w.failed \/ ~prose,
                      candidates |-> Candidates(w.rows, w.sources, w.at),
                      status |-> BriefStatus(Partial(w, inactive), w.rows \ Omitted(w.rows, w.sources),
                                             w.failed \/ ~prose,
                                             Skipped(w.rows, w.sources, w.at) # {})]
       /\ signals' = Upserted(signals, w.writes)
       /\ work' = Waits
       /\ UNCHANGED <<now, pool, stored>>

\* POST /signals/extract stops after the rows.
CommitsSignals ==
  /\ work.step = "composed"
  /\ signals' = Upserted(signals, work.writes)
  /\ work' = Waits
  /\ brief' = Null /\ UNCHANGED <<now, pool, stored>>

\* A crash, a database error or a unique constraint: everything is rolled back.
Fails ==
  /\ work.step # "idle"
  /\ work' = Waits
  /\ brief' = Null /\ UNCHANGED <<now, pool, stored, signals>>

Next ==
  \/ TimePasses
  \/ \E i \in DOMAIN Catalog : Syncs(i) \/ Removes(i)
  \/ Begins \/ Extracts \/ Commits \/ CommitsSignals \/ Fails

Spec == Init /\ [][Next]_vars

-----------------------------------------------------------------------------
(* Properties.                                                             *)

BriefTypeOK ==
  /\ now \in Clock /\ stored \subseteq pool
  /\ \A r \in signals : r.type \in Types /\ r.refs # {} /\ r.refs \subseteq pool
  /\ \A r1, r2 \in signals : r1.key = r2.key => r1 = r2
  /\ work.step \in {"idle", "extracting", "composed"}
  /\ brief # Null => /\ DOMAIN brief.sections \subseteq Sections
                     /\ brief.status \in {"complete", "empty", "degraded", "partial"}

\* A signal that the rules find in the items of a generation is in its brief,
\* scored as they score it, whatever the model answered, and whatever another
\* generation or an earlier one has stored (extraction.py:3, extraction_llm.py:1):
\* or the brief is full, and everything in it scores no less.
RulesAreTheFloor ==
  brief # Null =>
    \A s \in Detected(brief.items, brief.at) :
      \/ \E r \in brief.rows : [r EXCEPT !.refs = s.refs] = Row(s, brief.items, brief.at)
      \/ /\ Cardinality(brief.rows) = SignalLimit
         /\ \A r \in brief.rows : r.score >= Score(s, brief.items, brief.at)

\* A brief that is not partial had all its sources and evidence; a complete
\* one had the model too and prepared all its proposals; an empty one hides
\* nothing (brief_composition.py:510, and :596 after the proposals).
HonestStatus ==
  brief # Null =>
    /\ brief.status # "partial" =>
         /\ ~brief.inactive /\ Malformed(brief.items, brief.at) = {}
         /\ \A r \in brief.rows : r.refs \subseteq brief.sources
    /\ brief.status = "complete" => ~brief.failed /\ Skipped(brief.rows, brief.sources, brief.at) = {}
    /\ brief.status = "empty" => brief.rows = {}

\* What is proposed is explained by the same brief: a signal of it that is not
\* left to the user's judgement, with all its evidence; the proposal expires
\* after the brief and not later than the deadline of the signal; and no event
\* is proposed that the calendar already holds (proposal_composition.py:413).
ProposalsAreExplained ==
  brief # Null =>
    \A c \in brief.candidates :
      /\ \E r \in brief.rows :
           /\ r.key = c.key /\ r.refs \subseteq brief.sources
           /\ SectionFor(r) # "low_confidence_review"
           /\ c.action = "create_task" /\ r.due # Null => c.expires <= r.due
      /\ c.expires > brief.at /\ c.expires <= brief.at + ProposalTTL
      /\ c.key[1] = "schedule_request" =>
           \A e \in Events(brief.sources), i \in c.key[2] :
             ~(Item(e).title = Item(i).title /\ Item(e).at = Item(i).starts)

\* One sentence of an email is one matter: what the rules list as a request, a
\* scheduling request or a commitment they never list as a deadline too, in
\* no later brief either (detectors.py:452).
MattersAreListedOnce ==
  \A r1, r2 \in signals :
    /\ r1.version = "det-v1" /\ r1.type = "deadline"
    /\ r2.version = "det-v1" /\ r2.type \in {"request", "schedule_request", "commitment"}
    => r1.refs \cap r2.refs = {}

\* The signals table has one row for a key; the rules list a matter under one
\* type; and only signals that score as much keep a rule's signal out of a brief.
SignalsInv == BriefTypeOK /\ MattersAreListedOnce /\ RulesAreTheFloor

(* Refuted: see the README.                                                *)

\* "A deterministic signal always beats an LLM duplicate" (extraction.py:35):
\* a claim that cites an email twice has its own row beside the rule's.
OneRowPerMatter ==
  \A r1, r2 \in signals : r1.key[1] = r2.key[1] /\ r1.key[2] = r2.key[2] => r1 = r2

\* "The deterministic baseline is the product's floor" (extraction.py:5): the
\* thousand signals of the highest scores are read, and none is ever retired.
BriefHasTheRules ==
  brief # Null =>
    \A s \in Detected(brief.items, brief.at) :
      \E r \in brief.rows : [r EXCEPT !.refs = s.refs] = Row(s, brief.items, brief.at)

\* "nothing has arrived in that thread since" (detectors.py:434): a follow-up
\* stays active when the answer arrives, nothing deactivates a signal.
WaitingMeansNoReply ==
  (brief # Null /\ "waiting_for" \in DOMAIN brief.sections) =>
    \A k \in brief.sections["waiting_for"] : \A i \in Sent(k[2]) : ~Replied(brief.sources, i)

\* "Today and upcoming" lists meetings that are over.
UpcomingIsToCome ==
  (brief # Null /\ "today_upcoming" \in DOMAIN brief.sections) =>
    \A k \in brief.sections["today_upcoming"] : \A i \in Events(k[2]) : Item(i).at >= brief.at

\* "Bulk/newsletter senders never yield actionable signals" (detectors.py:27):
\* the model's claims are not asked.
BulkNeverActs ==
  brief # Null => \A c \in brief.candidates : \A i \in c.key[2] : Item(i).kind = "email" => ~Item(i).bulk

\* The model "may only ADD signals these rules miss, never replace them"
\* (detectors.py:5): it overwrites a row that the rules no longer find.
RulesAreNotReplaced ==
  [][\A r \in signals : r.version = "det-v1" => \A s \in signals' : s.key = r.key => s.version = "det-v1"]_vars

\* A signal is omitted because its evidence is gone (brief_composition.py:420):
\* or because it is older than the newest thousand items.
OmittedMeansGone ==
  work.step = "composed" =>
    \A r \in work.rows : ~Resolves(r, work.sources) => ~(r.refs \subseteq stored)

\* A conflict shows both events (detectors.py:388): after one was deleted and
\* imported again the row keeps the pruned evidence.
ConflictsShowBoth ==
  brief # Null => \A r \in brief.rows :
    (r.key[1] = "conflict" /\ r.key[2] \subseteq brief.items) => r.refs = r.key[2]
=============================================================================
