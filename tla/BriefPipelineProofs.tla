-------------------------- MODULE BriefPipelineProofs -------------------------
(***************************************************************************)
(* Theorems about BriefPipeline, for any items, clock and claims of the    *)
(* model.                                                                  *)
(*                                                                         *)
(* The argument: a row never loses its key, and what the rules may list    *)
(* under a key depends on the items that the key names alone; so however   *)
(* generations, deletions and the model's claims follow each other, a row  *)
(* of the rules is one that the rules make.                                *)
(***************************************************************************)
EXTENDS BriefPipeline, FiniteSetTheorems, WellFoundedInduction, TLAPS

-----------------------------------------------------------------------------
(* The inductive invariant.                                                *)

\* The matters that are no deadline: read off the item itself.
ListedElsewhere(i) ==
  /\ Item(i).kind = "email"
  /\ \/ /\ Item(i).folder = "inbox" /\ ~Item(i).bulk
        /\ Item(i).cue # "none" \/ Item(i).schedule # "none"
     \/ Item(i).folder = "sent" /\ Item(i).promise

\* What the rules may list under a key.
Founded(type, refs) ==
  /\ type \in {"request", "schedule_request", "commitment"} => \A i \in refs : ListedElsewhere(i)
  /\ type = "deadline" => \A i \in refs : ~ListedElsewhere(i)

\* The columns of a row are these, whatever is in them.
Columns(r) ==
  r = [key |-> r.key, type |-> r.type, refs |-> r.refs, version |-> r.version,
       confidence |-> r.confidence, urgency |-> r.urgency, due |-> r.due,
       score |-> r.score, band |-> r.band]

RowIsSound(r) ==
  /\ Columns(r)
  /\ r.type \in Types /\ r.key = <<r.type, r.key[2], r.key[3]>>
  /\ r.refs # {} /\ r.refs \subseteq r.key[2] /\ r.key[2] \subseteq pool
  /\ r.confidence \in Int
  /\ r.type \in {"deadline", "commitment"} => r.due \in Int \cup {Null}
  /\ r.type = "schedule_request" => \E i : r.key[2] = {i} /\ Item(i).kind = "email"
  /\ r.version = "det-v1" => Founded(r.type, r.key[2])

OnePerKey(rows) == \A r1, r2 \in rows : r1.key = r2.key => r1 = r2
RowsAreSound(rows) == OnePerKey(rows) /\ \A r \in rows : RowIsSound(r)

\* A rule's signal is among the rows, or is crowded out of them.
IsAmong(s, items, at, rows) == \E r \in rows : [r EXCEPT !.refs = s.refs] = Row(s, items, at)
IsCrowdedOut(s, items, at, rows) ==
  Cardinality(rows) = SignalLimit /\ \A r \in rows : r.score >= Score(s, items, at)
Floor(items, at, rows) ==
  \A s \in Detected(items, at) : IsAmong(s, items, at, rows) \/ IsCrowdedOut(s, items, at, rows)

WorkIsSound(w) ==
  /\ w.step \in {"idle", "extracting", "composed"}
  /\ w.step # "idle" => w.at \in Clock /\ w.items \subseteq pool
  /\ w.step = "composed" =>
       /\ RowsAreSound(w.rows) /\ RowsAreSound(w.writes)
       /\ Floor(w.items, w.at, w.rows)

\* BriefTypeOK, RulesAreTheFloor, HonestStatus and ProposalsAreExplained say
\* this of the brief of the last step.
BriefIsTyped(b) ==
  DOMAIN b.sections \subseteq Sections /\ b.status \in {"complete", "empty", "degraded", "partial"}
BriefIsHonest(b) ==
  /\ b.status # "partial" =>
       /\ ~b.inactive /\ Malformed(b.items, b.at) = {}
       /\ \A r \in b.rows : r.refs \subseteq b.sources
  /\ b.status = "complete" => ~b.failed /\ Skipped(b.rows, b.sources, b.at) = {}
  /\ b.status = "empty" => b.rows = {}
IsExplained(c, b) ==
  /\ \E r \in b.rows :
       /\ r.key = c.key /\ r.refs \subseteq b.sources
       /\ SectionFor(r) # "low_confidence_review"
       /\ c.action = "create_task" /\ r.due # Null => c.expires <= r.due
  /\ c.expires > b.at /\ c.expires <= b.at + ProposalTTL
  /\ c.key[1] = "schedule_request" =>
       \A e \in Events(b.sources), i \in c.key[2] :
         ~(Item(e).title = Item(i).title /\ Item(e).at = Item(i).starts)
BriefIsSound(b) ==
  /\ BriefIsTyped(b) /\ BriefIsHonest(b) /\ Floor(b.items, b.at, b.rows)
  /\ \A c \in b.candidates : IsExplained(c, b)

BriefInv ==
  /\ now \in Clock /\ pool \in Pools /\ stored \subseteq pool
  /\ RowsAreSound(signals)
  /\ WorkIsSound(work)
  /\ brief # Null => BriefIsSound(brief)

-----------------------------------------------------------------------------
(* The rules.                                                              *)

\* What a rule makes of the items S.
RuleSignal(s, S) ==
  /\ s.type \in Types /\ s.refs # {} /\ s.refs \subseteq S
  /\ s.version = "det-v1" /\ s.confidence \in Int /\ s.repeats = {}
  /\ s.type \in {"deadline", "commitment"} => s.due \in Int \cup {Null}
  /\ s.type = "schedule_request" => \E i : s.refs = {i} /\ Item(i).kind = "email"
  /\ Founded(s.type, s.refs)

LEMMA RequestsAreRules ==
  ASSUME NEW S, NEW s \in Requests(S)
  PROVE  RuleSignal(s, S) /\ s.type = "request"
<1>1. PICK i \in {x \in Personal(S) : Item(x).cue # "none"} :
        s = IF Item(i).cue = "strong" THEN Signal("request", {i}, 85, 60, Item(i).due)
            ELSE Signal("request", {i}, 45, 30, Item(i).due)
  BY DEF Requests
<1>2. i \in S /\ ListedElsewhere(i)
  BY <1>1 DEF Personal, Inbox, Emails, ListedElsewhere
<1>3. /\ s.type = "request" /\ s.refs = {i} /\ s.version = "det-v1" /\ s.repeats = {} /\ s.confidence \in {45, 85}
  BY <1>1 DEF Signal
<1> QED BY <1>2, <1>3 DEF RuleSignal, Types, Founded

LEMMA ScheduleRequestsAreRules ==
  ASSUME NEW S, NEW t, NEW s \in ScheduleRequests(S, t)
  PROVE  RuleSignal(s, S) /\ s.type = "schedule_request"
<1>1. PICK i \in {x \in Personal(S) : Item(x).schedule # "none"} :
        s = IF Executable(i, t) THEN Signal("schedule_request", {i}, 90, 60, Item(i).starts)
            ELSE Signal("schedule_request", {i}, 45, 30, Null)
  BY DEF ScheduleRequests
<1>2. i \in S /\ ListedElsewhere(i) /\ Item(i).kind = "email"
  BY <1>1 DEF Personal, Inbox, Emails, ListedElsewhere
<1>3. s.type = "schedule_request" /\ s.refs = {i} /\ s.version = "det-v1" /\ s.repeats = {} /\ s.confidence \in {45, 90}
  BY <1>1 DEF Signal
<1> QED BY <1>2, <1>3 DEF RuleSignal, Types, Founded

LEMMA CommitmentsAreRules ==
  ASSUME NEW S, S \subseteq DOMAIN Catalog, NEW s \in Commitments(S)
  PROVE  RuleSignal(s, S) /\ s.type = "commitment"
<1>1. PICK i \in {x \in Sent(S) : Item(x).promise} :
        s = IF Item(i).due # Null THEN Signal("commitment", {i}, 80, 60, Item(i).due)
            ELSE Signal("commitment", {i}, 60, 40, Null)
  BY DEF Commitments
<1>2. i \in S /\ ListedElsewhere(i) /\ Item(i).due \in Int \cup {Null}
  BY <1>1, CatalogAssumption DEF Sent, Emails, ListedElsewhere, Item
<1>3. /\ s.type = "commitment" /\ s.refs = {i} /\ s.version = "det-v1" /\ s.repeats = {} /\ s.confidence \in {60, 80}
      /\ s.due \in {Item(i).due, Null}
  BY <1>1 DEF Signal
<1> QED BY <1>2, <1>3 DEF RuleSignal, Types, Founded

\* A deadline is listed only when no other rule lists the item.
LEMMA DeadlinesAreRules ==
  ASSUME NEW S, S \subseteq DOMAIN Catalog, NEW t, NEW s \in Deadlines(S, t)
  PROVE  RuleSignal(s, S) /\ s.type = "deadline"
<1>1. CASE s \in {Signal("deadline", {i}, 70, 60, Item(i).due)
                    : i \in {x \in Personal(S) \ Covered(S, t) : Item(x).due # Null}}
  <2>1. PICK i \in Personal(S) \ Covered(S, t) : s = Signal("deadline", {i}, 70, 60, Item(i).due)
    BY <1>1
  <2>2. /\ i \in S /\ Item(i).due \in Int \cup {Null}
        /\ Item(i).kind = "email" /\ Item(i).folder = "inbox" /\ ~Item(i).bulk
    BY <2>1, CatalogAssumption DEF Personal, Inbox, Emails, Item
  <2>3. Item(i).cue = "none"
    <3> SUFFICES ASSUME Item(i).cue # "none" PROVE FALSE
      OBVIOUS
    <3>1. PICK x \in Requests(S) : x.refs = {i}
      <4>1. PICK x : x = IF Item(i).cue = "strong" THEN Signal("request", {i}, 85, 60, Item(i).due)
                         ELSE Signal("request", {i}, 45, 30, Item(i).due)
        OBVIOUS
      <4>2. x \in Requests(S)
        BY <2>1, <4>1 DEF Requests
      <4>3. x.refs = {i}
        BY <4>1 DEF Signal
      <4> QED BY <4>2, <4>3
    <3> QED BY <2>1, <3>1 DEF Covered
  <2>4. Item(i).schedule = "none"
    <3> SUFFICES ASSUME Item(i).schedule # "none" PROVE FALSE
      OBVIOUS
    <3>1. PICK x \in ScheduleRequests(S, t) : x.refs = {i}
      <4>1. PICK x : x = IF Executable(i, t)
                         THEN Signal("schedule_request", {i}, 90, 60, Item(i).starts)
                         ELSE Signal("schedule_request", {i}, 45, 30, Null)
        OBVIOUS
      <4>2. x \in ScheduleRequests(S, t)
        BY <2>1, <4>1 DEF ScheduleRequests
      <4>3. x.refs = {i}
        BY <4>1 DEF Signal
      <4> QED BY <4>2, <4>3
    <3> QED BY <2>1, <3>1 DEF Covered
  <2>5. ~ListedElsewhere(i)
    BY <2>2, <2>3, <2>4 DEF ListedElsewhere
  <2>6. /\ s.type = "deadline" /\ s.refs = {i} /\ s.version = "det-v1" /\ s.repeats = {} /\ s.confidence = 70
        /\ s.due = Item(i).due
    BY <2>1 DEF Signal
  <2> QED BY <2>2, <2>5, <2>6 DEF RuleSignal, Types, Founded
<1>2. CASE s \in {Signal("deadline", {i}, 90, 80, Item(i).at)
                    : i \in {x \in Events(S) : Item(x).all_day /\ Item(x).names_due}}
  <2>1. PICK i \in Events(S) : s = Signal("deadline", {i}, 90, 80, Item(i).at)
    BY <1>2
  <2>2. i \in S /\ Item(i).at \in Int /\ ~ListedElsewhere(i)
    BY <2>1, CatalogAssumption DEF Events, Item, ListedElsewhere
  <2>3. /\ s.type = "deadline" /\ s.refs = {i} /\ s.version = "det-v1" /\ s.repeats = {} /\ s.confidence = 90
        /\ s.due = Item(i).at
    BY <2>1 DEF Signal
  <2> QED BY <2>2, <2>3 DEF RuleSignal, Types, Founded
<1> QED BY <1>1, <1>2 DEF Deadlines

LEMMA MeetingsAreRules ==
  ASSUME NEW S, NEW t, NEW s \in Meetings(S, t)
  PROVE  RuleSignal(s, S) /\ s.type = "meeting"
<1>1. PICK i \in Timed(S, t) :
        s = Signal("meeting", {i}, 95, IF Item(i).at - t < Day THEN 50 ELSE 30, Item(i).at)
  BY DEF Meetings
<1>2. s.type = "meeting" /\ s.refs = {i} /\ s.version = "det-v1" /\ s.repeats = {} /\ s.confidence = 95
  BY <1>1 DEF Signal
<1>3. i \in S
  BY <1>1 DEF Timed, Events
<1> QED BY <1>2, <1>3 DEF RuleSignal, Types, Founded

LEMMA ConflictsAreRules ==
  ASSUME NEW S, NEW t, NEW s \in Conflicts(S, t)
  PROVE  RuleSignal(s, S) /\ s.type = "conflict"
<1>1. PICK pair \in kSubset(2, Timed(S, t)) :
        s = Signal("conflict", pair, 100, 90, Min({Item(i).at : i \in pair}))
  BY DEF Conflicts
<1>2. pair \subseteq Timed(S, t) /\ pair # {}
  BY FS_EmptySet DEF kSubset
<1>3. s.type = "conflict" /\ s.refs = pair /\ s.version = "det-v1" /\ s.repeats = {} /\ s.confidence = 100
  BY <1>1 DEF Signal
<1> QED BY <1>2, <1>3 DEF RuleSignal, Types, Founded, Timed, Events

LEMMA FollowUpsAreRules ==
  ASSUME NEW S, NEW t, NEW s \in FollowUps(S, t)
  PROVE  RuleSignal(s, S) /\ s.type = "follow_up"
<1>1. PICK i \in Sent(S) : s = Signal("follow_up", {i}, 85, Min({40 + 5 * Waiting(i, t), 100}), Null)
  BY DEF FollowUps
<1>2. s.type = "follow_up" /\ s.refs = {i} /\ s.version = "det-v1" /\ s.repeats = {} /\ s.confidence = 85
  BY <1>1 DEF Signal
<1>3. i \in S
  BY <1>1 DEF Sent, Emails
<1> QED BY <1>2, <1>3 DEF RuleSignal, Types, Founded

LEMMA DetectedIsRule ==
  ASSUME NEW S, S \subseteq DOMAIN Catalog, NEW t, NEW s \in Detected(S, t)
  PROVE  RuleSignal(s, S)
BY RequestsAreRules, ScheduleRequestsAreRules, CommitmentsAreRules, DeadlinesAreRules,
   MeetingsAreRules, ConflictsAreRules, FollowUpsAreRules DEF Detected
\* A type is listed by one rule, once for the same evidence.
LEMMA DetectedOnce ==
  ASSUME NEW S, S \subseteq DOMAIN Catalog, NEW t, NEW s1 \in Detected(S, t),
         NEW s2 \in Detected(S, t), Key(s1) = Key(s2)
  PROVE  s1 = s2
<1>1. s1.type = s2.type /\ s1.refs = s2.refs
  BY DEF Key
<1>2. \A s \in Detected(S, t) :
        /\ s.type = "request" => s \in Requests(S)
        /\ s.type = "schedule_request" => s \in ScheduleRequests(S, t)
        /\ s.type = "commitment" => s \in Commitments(S)
        /\ s.type = "deadline" => s \in Deadlines(S, t)
        /\ s.type = "meeting" => s \in Meetings(S, t)
        /\ s.type = "conflict" => s \in Conflicts(S, t)
        /\ s.type = "follow_up" => s \in FollowUps(S, t)
  BY RequestsAreRules, ScheduleRequestsAreRules, CommitmentsAreRules, DeadlinesAreRules,
     MeetingsAreRules, ConflictsAreRules, FollowUpsAreRules DEF Detected
<1>3. s1.type \in Types
  BY DetectedIsRule DEF RuleSignal
<1>4. CASE s1.type = "request"
  <2> DEFINE Made(i) == IF Item(i).cue = "strong" THEN Signal("request", {i}, 85, 60, Item(i).due)
                        ELSE Signal("request", {i}, 45, 30, Item(i).due)
  <2>1. \E i \in S : s1 = Made(i)
    BY <1>2, <1>4 DEF Requests, Personal, Inbox, Emails
  <2>2. \E i \in S : s2 = Made(i)
    BY <1>1, <1>2, <1>4 DEF Requests, Personal, Inbox, Emails
  <2>3. \A i \in S : Made(i).refs = {i}
    BY DEF Signal
  <2> HIDE DEF Made
  <2> QED BY <1>1, <2>1, <2>2, <2>3
<1>5. CASE s1.type = "schedule_request"
  <2> DEFINE Made(i) == IF Executable(i, t)
                        THEN Signal("schedule_request", {i}, 90, 60, Item(i).starts)
                        ELSE Signal("schedule_request", {i}, 45, 30, Null)
  <2>1. \E i \in S : s1 = Made(i)
    BY <1>2, <1>5 DEF ScheduleRequests, Personal, Inbox, Emails
  <2>2. \E i \in S : s2 = Made(i)
    BY <1>1, <1>2, <1>5 DEF ScheduleRequests, Personal, Inbox, Emails
  <2>3. \A i \in S : Made(i).refs = {i}
    BY DEF Signal
  <2> HIDE DEF Made
  <2> QED BY <1>1, <2>1, <2>2, <2>3
<1>6. CASE s1.type = "commitment"
  <2> DEFINE Made(i) == IF Item(i).due # Null THEN Signal("commitment", {i}, 80, 60, Item(i).due)
                        ELSE Signal("commitment", {i}, 60, 40, Null)
  <2>1. \E i \in S : s1 = Made(i)
    BY <1>2, <1>6 DEF Commitments, Sent, Emails
  <2>2. \E i \in S : s2 = Made(i)
    BY <1>1, <1>2, <1>6 DEF Commitments, Sent, Emails
  <2>3. \A i \in S : Made(i).refs = {i}
    BY DEF Signal
  <2> HIDE DEF Made
  <2> QED BY <1>1, <2>1, <2>2, <2>3
<1>7. CASE s1.type = "deadline"
  <2> DEFINE Made(i) == IF Item(i).kind = "email" THEN Signal("deadline", {i}, 70, 60, Item(i).due)
                        ELSE Signal("deadline", {i}, 90, 80, Item(i).at)
  <2>1. \A s \in Deadlines(S, t) : \E i \in S : s = Made(i)
    <3>1. TAKE s \in Deadlines(S, t)
    <3>2. CASE \E i \in Personal(S) : s = Signal("deadline", {i}, 70, 60, Item(i).due)
      BY <3>2 DEF Personal, Inbox, Emails
    <3>3. CASE \E i \in Events(S) : s = Signal("deadline", {i}, 90, 80, Item(i).at)
      BY <3>3 DEF Events
    <3> HIDE DEF Made
    <3> QED BY <3>2, <3>3 DEF Deadlines
  <2>2. \A i \in S : Made(i).refs = {i}
    BY DEF Signal
  <2> HIDE DEF Made
  <2>3. PICK i \in S : s1 = Made(i)
    BY <1>2, <1>7, <2>1
  <2>4. PICK j \in S : s2 = Made(j)
    BY <1>1, <1>2, <1>7, <2>1
  <2> QED BY <1>1, <2>2, <2>3, <2>4
<1>8. CASE s1.type = "meeting"
  <2> DEFINE Made(i) == Signal("meeting", {i}, 95, IF Item(i).at - t < Day THEN 50 ELSE 30, Item(i).at)
  <2>1. \E i \in S : s1 = Made(i)
    BY <1>2, <1>8 DEF Meetings, Timed, Events
  <2>2. \E i \in S : s2 = Made(i)
    BY <1>1, <1>2, <1>8 DEF Meetings, Timed, Events
  <2>3. \A i \in S : Made(i).refs = {i}
    BY DEF Signal
  <2> HIDE DEF Made
  <2> QED BY <1>1, <2>1, <2>2, <2>3
<1>9. CASE s1.type = "conflict"
  <2> DEFINE Made(pair) == Signal("conflict", pair, 100, 90, Min({Item(i).at : i \in pair}))
  <2>1. \E pair \in SUBSET S : s1 = Made(pair)
    BY <1>2, <1>9 DEF Conflicts, kSubset, Timed, Events
  <2>2. \E pair \in SUBSET S : s2 = Made(pair)
    BY <1>1, <1>2, <1>9 DEF Conflicts, kSubset, Timed, Events
  <2>3. \A pair \in SUBSET S : Made(pair).refs = pair
    BY DEF Signal
  <2> HIDE DEF Made
  <2> QED BY <1>1, <2>1, <2>2, <2>3
<1>10. CASE s1.type = "follow_up"
  <2> DEFINE Made(i) == Signal("follow_up", {i}, 85, Min({40 + 5 * Waiting(i, t), 100}), Null)
  <2>1. \E i \in S : s1 = Made(i)
    BY <1>2, <1>10 DEF FollowUps, Sent, Emails
  <2>2. \E i \in S : s2 = Made(i)
    BY <1>1, <1>2, <1>10 DEF FollowUps, Sent, Emails
  <2>3. \A i \in S : Made(i).refs = {i}
    BY DEF Signal
  <2> HIDE DEF Made
  <2> QED BY <1>1, <2>1, <2>2, <2>3
<1> QED BY <1>3, <1>4, <1>5, <1>6, <1>7, <1>8, <1>9, <1>10 DEF Types

-----------------------------------------------------------------------------
(* The rows that a generation makes.                                       *)

\* A signal of the rules or of the model, before it is scored.
SignalIsSound(s, S) ==
  /\ s.type \in Types /\ s.refs # {} /\ s.refs \subseteq S /\ s.confidence \in Int
  /\ s.type \in {"deadline", "commitment"} => s.due \in Int \cup {Null}
  /\ s.type = "schedule_request" => \E i : s.refs = {i} /\ Item(i).kind = "email"
  /\ s.version = "det-v1" => Founded(s.type, s.refs)

\* An accepted claim.
LEMMA ClaimIsSound ==
  ASSUME NEW S, NEW c \in Claims, c.refs \subseteq S, NEW confidence \in Int,
         NEW s, s = [type |-> c.type, refs |-> c.refs, repeats |-> c.repeats, version |-> "llm-v1",
                     confidence |-> confidence, urgency |-> 50, due |-> c.due]
  PROVE  SignalIsSound(s, S)
<1>1. /\ c.refs # {} /\ c.due \in Int \cup {Null}
      /\ c.type \in {"request", "commitment", "deadline", "follow_up", "meeting", "conflict"}
  BY ClaimsAssumption
<1>2. /\ s.type = c.type /\ s.refs = c.refs /\ s.version = "llm-v1" /\ s.confidence = confidence
      /\ s.due = c.due
  OBVIOUS
<1> QED BY <1>1, <1>2 DEF SignalIsSound, Types

\* The columns that acceptance changes, and those it leaves.
LEMMA ColumnsOfAccepted ==
  ASSUME NEW A, NEW B, NEW C, NEW D, NEW E, NEW F, NEW G, NEW confidence,
         NEW c \in [type : A, refs : B, repeats : C, version : D, confidence : E, urgency : F,
                    due : G],
         NEW s, s = [c EXCEPT !.version = "llm-v1", !.confidence = confidence, !.urgency = 50]
  PROVE  s = [type |-> c.type, refs |-> c.refs, repeats |-> c.repeats, version |-> "llm-v1",
              confidence |-> confidence, urgency |-> 50, due |-> c.due]
OBVIOUS

LEMMA AcceptedIsSound ==
  ASSUME NEW S, NEW claims \in SUBSET Claims, NEW s \in Accepted(claims, S)
  PROVE  SignalIsSound(s, S)
<1>1. PICK c \in Claims :
        /\ c.refs \subseteq S
        /\ s = [c EXCEPT !.version = "llm-v1", !.confidence = Min({@, 90}), !.urgency = 50]
  BY DEF Accepted
<1>2. Min({c.confidence, 90}) \in Int
  BY ClaimsAssumption DEF Min
<1>3. PICK confidence \in Int : confidence = Min({c.confidence, 90})
  BY <1>2
<1>4. s = [type |-> c.type, refs |-> c.refs, repeats |-> c.repeats, version |-> "llm-v1",
           confidence |-> confidence, urgency |-> 50, due |-> c.due]
  <2>1. s = [c EXCEPT !.version = "llm-v1", !.confidence = confidence, !.urgency = 50]
    BY <1>1, <1>3
  <2>2. c \in [type : {"request", "commitment", "deadline", "follow_up", "meeting", "conflict"},
               refs : SUBSET DOMAIN Catalog, repeats : SUBSET ((DOMAIN Catalog) \X (2..5)),
               version : {"llm-v1"}, confidence : 0..100,
               urgency : Int, due : Int \cup {Null}]
    BY ClaimsAssumption
  <2> QED BY <2>1, <2>2, ColumnsOfAccepted
<1> QED BY <1>1, <1>4, ClaimIsSound

\* A claim is accepted under its key, whatever its confidence was.
LEMMA AcceptedOnce ==
  ASSUME NEW S, NEW claims \in ClaimSets, NEW s1 \in Accepted(claims, S),
         NEW s2 \in Accepted(claims, S), Key(s1) = Key(s2)
  PROVE  s1 = s2
<1> DEFINE Of(c) == [c EXCEPT !.version = "llm-v1", !.confidence = Min({@, 90}), !.urgency = 50]
<1>1. \A c \in claims : Key(Of(c)) = Key(c)
  <2> SUFFICES ASSUME NEW c \in claims
               PROVE  Key(Of(c)) = Key(c)
    OBVIOUS
  <2>1. PICK confidence : confidence = Min({c.confidence, 90})
    OBVIOUS
  <2>2. c \in Claims
    BY DEF ClaimSets
  <2>3. Of(c) = [c EXCEPT !.version = "llm-v1", !.confidence = confidence, !.urgency = 50]
    BY <2>1
  <2> HIDE DEF Of
  <2>4. PICK x : x = Of(c)
    OBVIOUS
  <2>5. x.type = c.type /\ x.refs = c.refs /\ x.repeats = c.repeats
    BY <2>2, <2>3, <2>4, ClaimsAssumption
  <2> QED BY <2>4, <2>5 DEF Key
<1>2. PICK c1 \in claims : s1 = Of(c1)
  BY DEF Accepted
<1>3. PICK c2 \in claims : s2 = Of(c2)
  BY DEF Accepted
<1> HIDE DEF Of
<1>4. Key(c1) = Key(c2)
  BY <1>1, <1>2, <1>3
<1>5. \A x, y \in claims : Key(x) = Key(y) => x = y
  BY DEF ClaimSets
<1> QED BY <1>2, <1>3, <1>4, <1>5

LEMMA RowFields ==
  ASSUME NEW s, NEW S, NEW t, NEW r, r = Row(s, S, t)
  PROVE  /\ Columns(r) /\ r.key = <<s.type, s.refs, s.repeats>> /\ r.type = s.type /\ r.refs = s.refs
         /\ r.version = s.version /\ r.confidence = s.confidence /\ r.due = s.due
BY DEF Row, Columns, Key

LEMMA FoundIsSound ==
  ASSUME NEW w, NEW answer \in Answers, w.items \subseteq pool, pool \subseteq DOMAIN Catalog
  PROVE  RowsAreSound(Found(w, answer))
<1> DEFINE S == w.items
           rules == Detected(S, w.at)
           claimed == Accepted(answer.claims, S)
<1>1. answer.claims \in ClaimSets \/ answer.claims = {}
  BY DEF Answers
<1>2. \A s1, s2 \in claimed : Key(s1) = Key(s2) => s1 = s2
  <2>1. CASE answer.claims \in ClaimSets
    BY <2>1, AcceptedOnce
  <2>2. CASE answer.claims = {}
    BY <2>2 DEF Accepted
  <2> QED BY <1>1, <2>1, <2>2
<1>3. \A s \in claimed : SignalIsSound(s, S)
  <2>1. answer.claims \in SUBSET Claims
    BY <1>1 DEF ClaimSets
  <2> QED BY <2>1, AcceptedIsSound
<1>4. \A s \in rules : SignalIsSound(s, S)
  <2>1. \A s \in rules : RuleSignal(s, S)
    BY DetectedIsRule
  <2> QED BY <2>1 DEF RuleSignal, SignalIsSound
<1>5. \A s1, s2 \in rules : Key(s1) = Key(s2) => s1 = s2
  BY DetectedOnce
<1> HIDE DEF S, rules, claimed
<1>6. \A s1, s2 \in Deduplicate(rules, claimed) : Key(s1) = Key(s2) => s1 = s2
  BY <1>2, <1>5 DEF Deduplicate
<1>7. \A r \in Found(w, answer) : \E s \in Deduplicate(rules, claimed) : r = Row(s, S, w.at)
  BY DEF Found, S, rules, claimed
<1>8. OnePerKey(Found(w, answer))
  <2> SUFFICES ASSUME NEW r1 \in Found(w, answer), NEW r2 \in Found(w, answer), r1.key = r2.key
               PROVE  r1 = r2
    BY DEF OnePerKey
  <2>1. PICK s1 \in Deduplicate(rules, claimed) : r1 = Row(s1, S, w.at)
    BY <1>7
  <2>2. PICK s2 \in Deduplicate(rules, claimed) : r2 = Row(s2, S, w.at)
    BY <1>7
  <2>3. r1.key = Key(s1) /\ r2.key = Key(s2)
    BY <2>1, <2>2, RowFields DEF Key
  <2> QED BY <1>6, <2>1, <2>2, <2>3
<1>9. ASSUME NEW r \in Found(w, answer)
      PROVE  RowIsSound(r)
  <2>1. PICK s \in Deduplicate(rules, claimed) : r = Row(s, S, w.at)
    BY <1>7
  <2>2. SignalIsSound(s, S)
    BY <1>3, <1>4 DEF Deduplicate
  <2>3. S \subseteq pool
    BY DEF S
  <2>4. /\ Columns(r) /\ r.key = <<s.type, s.refs, s.repeats>> /\ r.type = s.type /\ r.refs = s.refs
        /\ r.version = s.version /\ r.confidence = s.confidence /\ r.due = s.due
    BY <2>1, RowFields
  <2> QED BY <2>2, <2>3, <2>4 DEF SignalIsSound, RowIsSound
<1> QED BY <1>8, <1>9 DEF RowsAreSound

\* A row keeps its key, and is written with what is left of the evidence.
LEMMA EvidenceOfARow ==
  ASSUME NEW r, RowIsSound(r), NEW refs, refs # {}, refs \subseteq r.key[2],
         NEW x, x = [r EXCEPT !.refs = refs]
  PROVE  /\ RowIsSound(x) /\ x.key = r.key /\ x.refs = refs
         /\ \A more : [x EXCEPT !.refs = more] = [r EXCEPT !.refs = more]
<1>1. Columns(r)
  BY DEF RowIsSound
<1>2. x = [key |-> r.key, type |-> r.type, refs |-> refs, version |-> r.version,
           confidence |-> r.confidence, urgency |-> r.urgency, due |-> r.due,
           score |-> r.score, band |-> r.band]
  BY <1>1 DEF Columns
<1>3. /\ Columns(x) /\ x.key = r.key /\ x.type = r.type /\ x.refs = refs
      /\ x.version = r.version /\ x.confidence = r.confidence /\ x.due = r.due
  BY <1>2 DEF Columns
<1>4. \A more : [x EXCEPT !.refs = more] = [r EXCEPT !.refs = more]
  BY <1>1, <1>2 DEF Columns
<1> QED BY <1>3, <1>4 DEF RowIsSound

\* The same row but for its evidence.
SameMatter(u, f) == u.key = f.key /\ \A more : [u EXCEPT !.refs = more] = [f EXCEPT !.refs = more]

LEMMA UpsertsAreSound ==
  ASSUME NEW rows, RowsAreSound(rows), NEW found, RowsAreSound(found)
  PROVE  /\ RowsAreSound(Upserts(rows, found))
         /\ \A u \in Upserts(rows, found) : \E f \in found : SameMatter(u, f)
         /\ \A f \in found : \E u \in Upserts(rows, found) : SameMatter(u, f)
<1> DEFINE Old(f) == CHOOSE r \in rows : r.key = f.key
           Made(f) == IF \E r \in rows : r.key = f.key THEN [f EXCEPT !.refs = Old(f).refs] ELSE f
<1>1. Upserts(rows, found) = {Made(f) : f \in found}
  BY DEF Upserts
<1>2. ASSUME NEW f \in found
      PROVE  RowIsSound(Made(f)) /\ Made(f).key = f.key /\ SameMatter(Made(f), f)
  <2>1. RowIsSound(f)
    BY DEF RowsAreSound
  <2>2. CASE \E r \in rows : r.key = f.key
    <3>1. PICK old \in rows : old = Old(f) /\ old.key = f.key
      BY <2>2
    <3>2. old.refs # {} /\ old.refs \subseteq f.key[2]
      BY <3>1 DEF RowsAreSound, RowIsSound
    <3>3. Made(f) = [f EXCEPT !.refs = old.refs]
      BY <2>2, <3>1
    <3> HIDE DEF Made
    <3> QED BY <2>1, <3>2, <3>3, EvidenceOfARow DEF SameMatter
  <2>3. CASE ~\E r \in rows : r.key = f.key
    BY <2>1, <2>3 DEF SameMatter
  <2> QED BY <2>2, <2>3
<1> HIDE DEF Made
<1>3. \A r \in Upserts(rows, found) : RowIsSound(r)
  BY <1>1, <1>2
<1>4. OnePerKey(Upserts(rows, found))
  BY <1>1, <1>2 DEF OnePerKey, RowsAreSound
<1> QED BY <1>1, <1>2, <1>3, <1>4 DEF RowsAreSound

LEMMA UpsertedIsSound ==
  ASSUME NEW rows, RowsAreSound(rows), NEW found, RowsAreSound(found)
  PROVE  RowsAreSound(Upserted(rows, found))
<1>1. /\ RowsAreSound(Upserts(rows, found))
      /\ \A u \in Upserts(rows, found) : \E f \in found : u.key = f.key
  BY UpsertsAreSound DEF SameMatter
<1>2. \A r \in Upserted(rows, found) :
        \/ r \in rows /\ \A f \in found : f.key # r.key
        \/ r \in Upserts(rows, found)
  BY DEF Upserted
<1>3. \A r \in Upserted(rows, found) : RowIsSound(r)
  BY <1>1, <1>2 DEF RowsAreSound
<1>4. OnePerKey(Upserted(rows, found))
  BY <1>1, <1>2 DEF RowsAreSound, OnePerKey
<1> QED BY <1>3, <1>4 DEF RowsAreSound

\* What the rules find is in the table, whatever the model answered and
\* whatever was stored.
LEMMA FoundIsWritten ==
  ASSUME NEW w, NEW answer \in Answers, w.items \subseteq pool, pool \subseteq DOMAIN Catalog,
         NEW rows, RowsAreSound(rows)
  PROVE  \A s \in Detected(w.items, w.at) :
           IsAmong(s, w.items, w.at, Upserted(rows, Found(w, answer)))
<1> DEFINE found == Found(w, answer)
<1> SUFFICES ASSUME NEW s \in Detected(w.items, w.at)
             PROVE  \E r \in Upserted(rows, found) : [r EXCEPT !.refs = s.refs] = Row(s, w.items, w.at)
  BY DEF IsAmong
<1>1. PICK f \in found : f = Row(s, w.items, w.at)
  BY DEF Found, Deduplicate
<1>2. RowsAreSound(found)
  BY FoundIsSound
<1> HIDE DEF found
<1>3. PICK u \in Upserts(rows, found) : SameMatter(u, f)
  BY <1>2, UpsertsAreSound
<1>4. [f EXCEPT !.refs = s.refs] = f
  BY <1>1 DEF Row
<1>5. u \in Upserted(rows, found)
  BY DEF Upserted
<1> QED BY <1>1, <1>3, <1>4, <1>5 DEF SameMatter

\* What is in the table is listed, or crowded out of the list.
LEMMA RankedIsFloor ==
  ASSUME NEW items, NEW at, NEW rows, NEW top \in Rankings(rows),
         \A s \in Detected(items, at) : IsAmong(s, items, at, rows)
  PROVE  Floor(items, at, top)
<1> SUFFICES ASSUME NEW s \in Detected(items, at), ~IsAmong(s, items, at, top)
             PROVE  IsCrowdedOut(s, items, at, top)
  BY DEF Floor
<1>1. PICK q \in rows : [q EXCEPT !.refs = s.refs] = Row(s, items, at)
  BY DEF IsAmong
<1>2. q \notin top
  BY <1>1 DEF IsAmong
<1>3. Cardinality(top) = SignalLimit /\ \A r \in top : r.score >= q.score
  BY <1>2 DEF Rankings
<1>4. q.score = Score(s, items, at)
  <2>1. PICK score : score = Score(s, items, at)
    OBVIOUS
  <2>2. Row(s, items, at).score = score
    BY <2>1 DEF Row
  <2>3. [q EXCEPT !.refs = s.refs].score = q.score
    OBVIOUS
  <2> QED BY <1>1, <2>1, <2>2, <2>3
<1> QED BY <1>3, <1>4 DEF IsCrowdedOut
-----------------------------------------------------------------------------
(* The proposals of a brief.                                               *)

LEMMA ExpiryFacts ==
  ASSUME NEW t \in Int, NEW d \in Int \cup {Null}, NEW e, e = Expiry(d, t), e # Null
  PROVE  e > t /\ e <= t + ProposalTTL /\ (d # Null => e <= d)
<1>1. t + ProposalTTL \in Int
  BY DEF ProposalTTL, Day
<1>2. CASE d = Null
  BY <1>1, <1>2 DEF Expiry
<1>3. CASE d # Null
  <2>1. d \in Int
    BY <1>3
  <2>2. PICK m : m = Min({t + ProposalTTL, d})
    OBVIOUS
  <2>3. m \in Int /\ m <= t + ProposalTTL /\ m <= d
    BY <1>1, <2>1, <2>2 DEF Min
  <2>4. e = m /\ m > t
    BY <1>3, <2>2 DEF Expiry
  <2> QED BY <2>3, <2>4
<1> QED BY <1>2, <1>3

\* A usable row explains a proposal that expires by its deadline.
\* When a row may be proposed with a deadline.
MayPropose(r, action, deadline, sources) ==
  /\ RowIsSound(r) /\ deadline \in Int \cup {Null}
  /\ action = "create_task" => deadline = r.due
  /\ r.type = "schedule_request" => \A i \in r.refs : ~OnCalendar(i, sources)

LEMMA UsableExplains ==
  ASSUME NEW b, b.at \in Int, NEW r \in Usable(b.rows, b.sources), NEW deadline, NEW action,
         MayPropose(r, action, deadline, b.sources),
         NEW c, c = Candidate(action, r, deadline, b.at), c.expires # Null
  PROVE  IsExplained(c, b)
<1> USE DEF MayPropose
<1>1. c.action = action /\ c.key = r.key /\ c.expires = Expiry(deadline, b.at)
  BY DEF Candidate
<1>2. /\ c.expires > b.at /\ c.expires <= b.at + ProposalTTL
      /\ deadline # Null => c.expires <= deadline
  BY <1>1, ExpiryFacts
<1>3. /\ r \in b.rows /\ r.refs \subseteq b.sources
      /\ SectionFor(r) # "low_confidence_review"
  BY DEF Usable, Resolves, SectionFor, RowIsSound, LowConfidence
<1>4. ASSUME c.key[1] = "schedule_request", NEW e \in Events(b.sources), NEW i \in c.key[2]
      PROVE  ~(Item(e).title = Item(i).title /\ Item(e).at = Item(i).starts)
  <2>1. r.type = "schedule_request"
    BY <1>1, <1>4 DEF RowIsSound
  <2>2. i \in r.refs
    BY <1>1, <1>4, <2>1 DEF RowIsSound
  <2> QED BY <1>4, <2>1, <2>2 DEF OnCalendar
<1> QED BY <1>1, <1>2, <1>3, <1>4 DEF IsExplained

LEMMA CandidatesAreExplained ==
  ASSUME NEW b, b.at \in Int, \A r \in b.rows : RowIsSound(r), pool \subseteq DOMAIN Catalog,
         NEW c \in Candidates(b.rows, b.sources, b.at)
  PROVE  IsExplained(c, b)
<1>1. c.expires # Null
  BY DEF Candidates
<1>2. CASE c \in TaskCandidates(b.rows, b.sources, b.at)
  <2>1. PICK r \in OfType(Usable(b.rows, b.sources), {"deadline", "commitment"}) :
          c = Candidate("create_task", r, r.due, b.at)
    BY <1>2 DEF TaskCandidates
  <2>2. r \in Usable(b.rows, b.sources) /\ r.type \in {"deadline", "commitment"}
    BY <2>1 DEF OfType
  <2>3. RowIsSound(r)
    BY <2>2 DEF Usable
  <2>4. r.due \in Int \cup {Null}
    BY <2>2, <2>3 DEF RowIsSound
  <2>5. MayPropose(r, "create_task", r.due, b.sources)
    BY <2>2, <2>3, <2>4 DEF MayPropose
  <2> QED BY <1>1, <2>1, <2>2, <2>5, UsableExplains
<1>3. CASE c \in DraftCandidates(b.rows, b.sources, b.at)
  <2>1. PICK r \in OfType(Usable(b.rows, b.sources), {"request", "follow_up"}) :
          c = Candidate("create_gmail_draft", r, Null, b.at)
    BY <1>3 DEF DraftCandidates
  <2>2. r \in Usable(b.rows, b.sources) /\ r.type \in {"request", "follow_up"}
    BY <2>1 DEF OfType
  <2>3. RowIsSound(r)
    BY <2>2 DEF Usable
  <2>4. MayPropose(r, "create_gmail_draft", Null, b.sources)
    BY <2>2, <2>3 DEF MayPropose
  <2> QED BY <1>1, <2>1, <2>2, <2>4, UsableExplains
<1>4. CASE c \in EventCandidates(b.rows, b.sources, b.at)
  <2>1. PICK r \in Schedulable(b.rows, b.sources, b.at) \ Duplicates(b.rows, b.sources, b.at) :
          c = Candidate("create_calendar_event", r, Item(CHOOSE i \in r.refs : TRUE).starts, b.at)
    BY <1>4 DEF EventCandidates
  <2>2. r \in Usable(b.rows, b.sources) /\ r.type = "schedule_request"
    BY <2>1 DEF Schedulable, OfType
  <2>3. RowIsSound(r)
    BY <2>2 DEF Usable
  <2>4. \A i \in r.refs : ~OnCalendar(i, b.sources)
    BY <2>1 DEF Duplicates
  <2>5. PICK i \in r.refs : i = CHOOSE j \in r.refs : TRUE
    BY <2>3 DEF RowIsSound
  <2>6. Item(i).kind = "email" /\ i \in DOMAIN Catalog
    BY <2>2, <2>3, <2>5 DEF RowIsSound
  <2>7. Item(i).starts \in Int \cup {Null}
    BY <2>6, CatalogAssumption DEF Item
  <2>8. c = Candidate("create_calendar_event", r, Item(i).starts, b.at)
    BY <2>1, <2>5
  <2>9. MayPropose(r, "create_calendar_event", Item(i).starts, b.sources)
    BY <2>3, <2>4, <2>7 DEF MayPropose
  <2> QED BY <1>1, <2>2, <2>8, <2>9, UsableExplains
<1>5. CASE c \in PlaceholderCandidates(b.rows, b.sources, b.at)
  <2>1. PICK r \in Placeholders(b.rows, b.sources) :
          c = Candidate("create_calendar_event", r, Item(Placeholder(r)).at, b.at)
    BY <1>5 DEF PlaceholderCandidates
  <2>2. r \in Usable(b.rows, b.sources) /\ r.type = "meeting"
    BY <2>1 DEF Placeholders, OfType
  <2>3. RowIsSound(r)
    BY <2>2 DEF Usable
  <2>4. PICK i \in r.refs : i = Placeholder(r)
    BY <2>1 DEF Placeholders, Placeholder, PlaceholderEvents, Events
  <2>5. Item(i).at \in Int
    BY <2>3, <2>4, CatalogAssumption DEF RowIsSound, Item
  <2>6. c = Candidate("create_calendar_event", r, Item(i).at, b.at)
    BY <2>1, <2>4
  <2>7. MayPropose(r, "create_calendar_event", Item(i).at, b.sources)
    BY <2>2, <2>3, <2>5 DEF MayPropose
  <2> QED BY <1>1, <2>2, <2>6, <2>7, UsableExplains
<1> QED BY <1>2, <1>3, <1>4, <1>5 DEF Candidates

-----------------------------------------------------------------------------
(* The behaviour.                                                          *)

LEMMA LeastOfClock ==
  ASSUME NEW S \in SUBSET Clock, S # {}
  PROVE  Min(S) \in S
<1>1. S \subseteq Nat
  BY ClockAssumption
<1>2. PICK R : R = OpToRel(<, Nat)
  OBVIOUS
<1>3. PICK x \in S : \A y \in S : ~ (<<y, x>> \in R)
  BY <1>1, <1>2, NatLessThanWellFounded, WFMin
<1>4. \A m, n \in Nat : <<m, n>> \in R <=> m < n
  BY <1>2 DEF OpToRel
<1>5. ASSUME NEW y \in S
      PROVE  x <= y
  <2>1. x \in Nat /\ y \in Nat
    BY <1>1
  <2>2. ~(y < x)
    BY <1>3, <1>4, <2>1
  <2> QED BY <2>1, <2>2
<1> QED BY <1>5 DEF Min

LEMMA InitBrief ==
  ASSUME Init
  PROVE  BriefInv
<1>1. now \in Clock
  BY LeastOfClock, ClockAssumption DEF Init
<1>2. RowsAreSound(signals)
  BY DEF Init, RowsAreSound, OnePerKey
<1>3. WorkIsSound(work)
  BY DEF Init, Waits, WorkIsSound
<1> QED BY <1>1, <1>2, <1>3 DEF Init, BriefInv

LEMMA PoolFacts ==
  ASSUME BriefInv
  PROVE  pool \subseteq DOMAIN Catalog /\ now \in Clock /\ Clock \subseteq Int
BY CatalogAssumption, ClockAssumption DEF BriefInv

\* A step, given by what it leaves.
LEMMA BriefMoves ==
  ASSUME BriefInv, UNCHANGED pool, now' \in Clock, stored' \subseteq pool,
         NEW rows, signals' = rows, RowsAreSound(rows),
         NEW w, work' = w, WorkIsSound(w),
         NEW b, brief' = b, b # Null => BriefIsSound(b)
  PROVE  BriefInv'
<1>1. RowsAreSound(signals)'
  BY DEF RowsAreSound, RowIsSound, OnePerKey
<1>2. WorkIsSound(work)'
  BY DEF WorkIsSound, RowsAreSound, RowIsSound, OnePerKey
<1>3. (brief # Null => BriefIsSound(brief))'
  OBVIOUS
<1> QED BY <1>1, <1>2, <1>3 DEF BriefInv

LEMMA TimeKeeps ==
  ASSUME BriefInv, TimePasses
  PROVE  BriefInv'
<1>1. PICK S \in SUBSET Clock : S # {} /\ now' = Min(S)
  <2>1. {u \in Clock : u > now} \in SUBSET Clock
    OBVIOUS
  <2> QED BY <2>1 DEF TimePasses
<1>2. now' \in Clock
  BY <1>1, LeastOfClock
<1> QED BY <1>2, BriefMoves DEF TimePasses, BriefInv

LEMMA SyncsKeeps ==
  ASSUME BriefInv, NEW i, Syncs(i)
  PROVE  BriefInv'
BY BriefMoves DEF Syncs, BriefInv

LEMMA RemovesKeeps ==
  ASSUME BriefInv, NEW i, Removes(i)
  PROVE  BriefInv'
<1> DEFINE Left(r) == [r EXCEPT !.refs = @ \ {i}]
<1>1. PICK rows : rows = signals'
  OBVIOUS
<1>2. rows = {Left(r) : r \in {x \in signals : x.refs # {i}}}
  BY <1>1 DEF Removes
<1>3. RowsAreSound(signals)
  BY DEF BriefInv
<1>4. ASSUME NEW r \in signals, r.refs # {i}
      PROVE  RowIsSound(Left(r)) /\ Left(r).key = r.key
  <2>1. RowIsSound(r)
    BY <1>3 DEF RowsAreSound
  <2>2. PICK refs : refs = r.refs \ {i}
    OBVIOUS
  <2>3. refs # {} /\ refs \subseteq r.key[2]
    BY <1>4, <2>1, <2>2 DEF RowIsSound
  <2>4. Left(r) = [r EXCEPT !.refs = refs]
    BY <2>2
  <2> HIDE DEF Left
  <2> QED BY <2>1, <2>3, <2>4, EvidenceOfARow
<1> HIDE DEF Left
<1>5. RowsAreSound(rows)
  BY <1>2, <1>3, <1>4 DEF RowsAreSound, OnePerKey
<1> QED BY <1>1, <1>5, BriefMoves DEF Removes, BriefInv

LEMMA BeginsKeeps ==
  ASSUME BriefInv, Begins
  PROVE  BriefInv'
<1>1. PICK w : w = [step |-> "extracting", at |-> now, items |-> Listed(stored)]
  OBVIOUS
<1>2. w.step = "extracting" /\ w.at = now /\ w.items = Listed(stored)
  BY <1>1
<1>3. WorkIsSound(w)
  BY <1>2 DEF WorkIsSound, Listed, BriefInv
<1> QED BY <1>1, <1>3, BriefMoves DEF Begins, BriefInv

LEMMA ExtractsKeeps ==
  ASSUME BriefInv, Extracts
  PROVE  BriefInv'
<1>1. PICK answer \in Answers :
        LET found == Found(work, answer)
            writes == Upserts(signals, found) \ signals
        IN /\ work.step = "extracting"
           /\ \E rows \in Rankings(Upserted(signals, found)) :
                work' = [step |-> "composed", at |-> work.at, items |-> work.items,
                         failed |-> answer.failed, writes |-> writes,
                         rows |-> rows, sources |-> Listed(stored)]
           /\ brief' = Null /\ UNCHANGED <<now, pool, stored, signals>>
  BY DEF Extracts
<1>2. PICK found : found = Found(work, answer)
  OBVIOUS
<1>3. work.at \in Clock /\ work.items \subseteq pool /\ RowsAreSound(signals)
  BY <1>1 DEF BriefInv, WorkIsSound
<1>4. RowsAreSound(found)
  BY <1>2, <1>3, PoolFacts, FoundIsSound
<1>5. PICK rows \in Rankings(Upserted(signals, found)) :
        work' = [step |-> "composed", at |-> work.at, items |-> work.items,
                 failed |-> answer.failed, writes |-> Upserts(signals, found) \ signals,
                 rows |-> rows, sources |-> Listed(stored)]
  BY <1>1, <1>2
<1>6. RowsAreSound(rows)
  <2>1. RowsAreSound(Upserted(signals, found))
    BY <1>3, <1>4, UpsertedIsSound
  <2>2. rows \subseteq Upserted(signals, found)
    BY <1>5 DEF Rankings
  <2> QED BY <2>1, <2>2 DEF RowsAreSound, OnePerKey
<1>7. PICK writes : writes = Upserts(signals, found) \ signals
  OBVIOUS
<1>8. RowsAreSound(writes)
  <2>1. RowsAreSound(Upserts(signals, found))
    BY <1>3, <1>4, UpsertsAreSound
  <2> QED BY <1>7, <2>1 DEF RowsAreSound, OnePerKey
<1>9. Floor(work.items, work.at, rows)
  <2>1. \A s \in Detected(work.items, work.at) :
          IsAmong(s, work.items, work.at, Upserted(signals, found))
    BY <1>2, <1>3, PoolFacts, FoundIsWritten
  <2> QED BY <1>5, <2>1, RankedIsFloor
<1>10. PICK w : w = work'
  OBVIOUS
<1>11. /\ w.step = "composed" /\ w.at = work.at /\ w.items = work.items
       /\ w.writes = writes /\ w.rows = rows
  BY <1>5, <1>7, <1>10
<1>12. WorkIsSound(w)
  BY <1>3, <1>6, <1>8, <1>9, <1>11 DEF WorkIsSound
<1> QED BY <1>1, <1>3, <1>10, <1>12, BriefMoves DEF BriefInv

LEMMA WaitsIsSound == WorkIsSound(Waits)
BY DEF WorkIsSound, Waits

LEMMA FailsKeeps ==
  ASSUME BriefInv, Fails
  PROVE  BriefInv'
BY WaitsIsSound, BriefMoves DEF Fails, BriefInv

LEMMA SignalsKeep ==
  ASSUME BriefInv, CommitsSignals
  PROVE  BriefInv'
<1>1. PICK rows : rows = Upserted(signals, work.writes)
  OBVIOUS
<1>2. RowsAreSound(signals) /\ RowsAreSound(work.writes)
  BY DEF BriefInv, WorkIsSound, CommitsSignals
<1>3. RowsAreSound(rows)
  BY <1>1, <1>2, UpsertedIsSound
<1> QED BY <1>1, <1>3, WaitsIsSound, BriefMoves DEF CommitsSignals, BriefInv

LEMMA StatusFacts ==
  ASSUME NEW partial, NEW included, NEW degraded, NEW skipped,
         NEW status, status = BriefStatus(partial, included, degraded, skipped)
  PROVE  /\ status \in {"complete", "empty", "degraded", "partial"}
         /\ status # "partial" => ~partial
         /\ status = "complete" => ~degraded /\ ~skipped
         /\ status = "empty" => included = {}
BY DEF BriefStatus

LEMMA CommitsKeeps ==
  ASSUME BriefInv, Commits
  PROVE  BriefInv'
<1>1. work.step = "composed" /\ UNCHANGED <<now, pool, stored>> /\ work' = Waits
      /\ signals' = Upserted(signals, work.writes)
  BY DEF Commits
<1>2. /\ RowsAreSound(signals) /\ RowsAreSound(work.writes) /\ RowsAreSound(work.rows)
      /\ Floor(work.items, work.at, work.rows) /\ work.at \in Clock
  BY <1>1 DEF BriefInv, WorkIsSound
<1>3. PICK rows : rows = Upserted(signals, work.writes)
  OBVIOUS
<1>4. RowsAreSound(rows)
  BY <1>2, <1>3, UpsertedIsSound
<1> DEFINE Shown(hidden) == Displayed(ComposeSections(work.rows, work.sources), hidden)
           New(hidden, inactive, prose) ==
             [at |-> work.at, items |-> work.items, rows |-> work.rows, sources |-> work.sources,
              inactive |-> inactive, sections |-> Shown(hidden), failed |-> work.failed \/ ~prose,
              candidates |-> Candidates(work.rows, work.sources, work.at),
              status |-> BriefStatus(Partial(work, inactive),
                                     work.rows \ Omitted(work.rows, work.sources),
                                     work.failed \/ ~prose,
                                     Skipped(work.rows, work.sources, work.at) # {})]
<1>5. PICK hidden \in {{}, {"needs_attention", "suggested_actions"}}, inactive \in BOOLEAN :
        \E prose \in ProseAccepted(Shown(hidden)) : brief' = New(hidden, inactive, prose)
  BY Zenon DEF Commits
<1>5a. PICK prose \in ProseAccepted(Shown(hidden)) : brief' = New(hidden, inactive, prose)
  BY <1>5, Zenon
<1>6. PICK b : b = brief'
  OBVIOUS
<1>7. PICK status : status = BriefStatus(Partial(work, inactive),
                                         work.rows \ Omitted(work.rows, work.sources),
                                         work.failed \/ ~prose,
                                         Skipped(work.rows, work.sources, work.at) # {})
  OBVIOUS
<1>8. /\ b.at = work.at /\ b.items = work.items /\ b.rows = work.rows /\ b.sources = work.sources
      /\ b.inactive = inactive /\ b.failed = (work.failed \/ ~prose) /\ b.status = status
      /\ b.sections = Displayed(ComposeSections(work.rows, work.sources), hidden)
      /\ b.candidates = Candidates(work.rows, work.sources, work.at)
  BY <1>5a, <1>6, <1>7
<1>9. BriefIsTyped(b)
  <2>1. DOMAIN b.sections \subseteq Sections
    BY <1>8 DEF Displayed
  <2> QED BY <1>7, <1>8, <2>1, StatusFacts DEF BriefIsTyped
<1>10. BriefIsHonest(b)
  <2>1. /\ status # "partial" => ~Partial(work, inactive)
        /\ status = "complete" => /\ ~(work.failed \/ ~prose)
                                  /\ Skipped(work.rows, work.sources, work.at) = {}
        /\ status = "empty" => work.rows \ Omitted(work.rows, work.sources) = {}
    <3>1. PICK partial : partial = Partial(work, inactive)
      OBVIOUS
    <3>2. PICK included : included = work.rows \ Omitted(work.rows, work.sources)
      OBVIOUS
    <3>3. PICK degraded : degraded = (work.failed \/ ~prose)
      OBVIOUS
    <3>4. PICK skipped : skipped = (Skipped(work.rows, work.sources, work.at) # {})
      OBVIOUS
    <3>5. status = BriefStatus(partial, included, degraded, skipped)
      BY <1>7, <3>1, <3>2, <3>3, <3>4
    <3>6. /\ status # "partial" => ~partial
          /\ status = "complete" => ~degraded /\ ~skipped
          /\ status = "empty" => included = {}
      BY <3>5, StatusFacts, Zenon
    <3> QED BY <3>1, <3>2, <3>3, <3>4, <3>6, Zenon
  <2>2. ~Partial(work, inactive) =>
          /\ ~inactive /\ Omitted(work.rows, work.sources) = {}
          /\ Malformed(work.items, work.at) = {}
    BY DEF Partial
  <2>3. Omitted(work.rows, work.sources) = {} => \A r \in work.rows : r.refs \subseteq work.sources
    BY DEF Omitted, Resolves
  <2> QED BY <1>8, <2>1, <2>2, <2>3 DEF BriefIsHonest
<1>11. ASSUME NEW c \in b.candidates
       PROVE  IsExplained(c, b)
  <2>1. b.at \in Int /\ (\A r \in b.rows : RowIsSound(r))
    BY <1>2, <1>8, PoolFacts DEF RowsAreSound
  <2>2. c \in Candidates(b.rows, b.sources, b.at)
    BY <1>8, <1>11
  <2> QED BY <2>1, <2>2, PoolFacts, CandidatesAreExplained
<1>12. BriefIsSound(b)
  BY <1>2, <1>8, <1>9, <1>10, <1>11 DEF BriefIsSound
<1> QED BY <1>1, <1>3, <1>4, <1>6, <1>12, WaitsIsSound, BriefMoves DEF BriefInv

LEMMA BriefStep ==
  ASSUME BriefInv, [Next]_vars
  PROVE  BriefInv'
<1>1. CASE UNCHANGED vars
  BY <1>1, BriefMoves DEF vars, BriefInv
<1> QED BY <1>1, TimeKeeps, SyncsKeeps, RemovesKeeps, BeginsKeeps, ExtractsKeeps, CommitsKeeps,
        SignalsKeep, FailsKeeps DEF Next

LEMMA BriefIsKept == Spec => []BriefInv
<1>1. Init => BriefInv
  BY InitBrief
<1>2. BriefInv /\ [Next]_vars => BriefInv'
  BY BriefStep
<1> QED BY <1>1, <1>2, PTL DEF Spec

-----------------------------------------------------------------------------
(* The theorems.                                                           *)

\* A brief that is not partial had all its sources and evidence; a complete
\* one had the model too and prepared all its proposals; an empty one hides
\* nothing (brief_composition.py:510).
THEOREM StatusesAreHonest == Spec => []HonestStatus
<1>1. BriefInv => HonestStatus
  BY DEF BriefInv, BriefIsSound, BriefIsHonest, HonestStatus
<1> QED BY <1>1, BriefIsKept, PTL

\* What is proposed is explained by a signal of the same brief with all its
\* evidence, not one left to the user's judgement, expires after the brief
\* and by the signal's deadline, and is no event that the calendar holds
\* (proposal_composition.py:413).
THEOREM ProposalsHaveReasons == Spec => []ProposalsAreExplained
<1>1. BriefInv => ProposalsAreExplained
  BY DEF BriefInv, BriefIsSound, IsExplained, ProposalsAreExplained
<1> QED BY <1>1, BriefIsKept, PTL

\* Over every order of generations, syncs, deletions and answers of the
\* model, with repeated references too: the signals table has one row for a
\* key, what the rules list as a request, a scheduling request or a commitment
\* is never listed by them as a deadline too (detectors.py:452), and a brief has
\* every signal that the rules find, scored as they score it, unless the limit
\* of list_ranked leaves it out for signals that all score as much or more
\* (extraction.py:3, extraction_llm.py:1).
THEOREM SignalsAreTheRules == Spec => []SignalsInv
<1>1. BriefInv => BriefTypeOK
  <2> SUFFICES ASSUME BriefInv PROVE BriefTypeOK
    OBVIOUS
  <2>1. \A r \in signals : r.type \in Types /\ r.refs # {} /\ r.refs \subseteq pool
    BY DEF BriefInv, RowsAreSound, RowIsSound
  <2> QED BY <2>1 DEF BriefInv, RowsAreSound, OnePerKey, WorkIsSound, BriefIsSound, BriefIsTyped,
                      BriefTypeOK
<1>2. BriefInv => MattersAreListedOnce
  <2> SUFFICES ASSUME BriefInv, NEW r1 \in signals, NEW r2 \in signals,
                      r1.version = "det-v1", r1.type = "deadline", r2.version = "det-v1",
                      r2.type \in {"request", "schedule_request", "commitment"}
               PROVE  r1.refs \cap r2.refs = {}
    BY DEF MattersAreListedOnce
  <2>1. RowIsSound(r1) /\ RowIsSound(r2)
    BY DEF BriefInv, RowsAreSound
  <2>2. \A i \in r1.refs : ~ListedElsewhere(i)
    BY <2>1 DEF RowIsSound, Founded
  <2>3. \A i \in r2.refs : ListedElsewhere(i)
    BY <2>1 DEF RowIsSound, Founded
  <2> QED BY <2>2, <2>3
<1>3. BriefInv => RulesAreTheFloor
  BY DEF BriefInv, BriefIsSound, Floor, IsAmong, IsCrowdedOut, RulesAreTheFloor
<1>4. BriefInv => SignalsInv
  BY <1>1, <1>2, <1>3 DEF SignalsInv
<1> QED BY <1>4, BriefIsKept, PTL
=============================================================================
