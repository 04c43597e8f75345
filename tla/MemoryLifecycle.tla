--------------------------- MODULE MemoryLifecycle ---------------------------
(***************************************************************************)
(* What LifeFlow learns of one user's preferred sign-off.                   *)
(* memory_registry.py reduces the drafts the user edited and approved to    *)
(* one value with a confidence, memory_inference.py reconciles the user's   *)
(* only memory item with it in a background job, memory.py lets the user    *)
(* confirm, edit, dismiss and delete the item.  Confirming writes the       *)
(* explicit preference, which is all that ever changes a draft.             *)
(*                                                                         *)
(* A job reads the drafts before it locks the item, and the expiry of       *)
(* decayed candidates (at each read of the API, and daily) takes no lock.   *)
(* The clock counts half-lives of the confidence, 30 days each.             *)
(***************************************************************************)
EXTENDS Naturals, FiniteSets, FiniteSetsExt

CONSTANTS
  Proposals,     \* the user's edited Gmail drafts; numbers, as ids break ties
  Signoffs,      \* recognised sign-offs; numbers, as their order breaks ties
  Workers,       \* arq job slots that may recompute at the same time
  RescanLimit,   \* _RESCAN_LIMIT
  MaxClock, MaxApprovals, MaxRuns   \* bounds: half-lives, approvals, recomputes

ASSUME MemoryIdsAreOrdered == Proposals \subseteq Nat /\ Signoffs \subseteq Nat \ {0}
ASSUME MemoryBounds ==
  /\ RescanLimit \in Nat \ {0}
  /\ MaxClock \in Nat /\ MaxApprovals \in Nat /\ MaxRuns \in Nat

VARIABLES
  clock,      \* now
  enabled,    \* the memory_inference_enabled preference
  explicit,   \* the preferred_email_signoff preference; Unset while there is no row
  draft,      \* Proposals -> the edited draft as the rescan sees it
  item,       \* the user's memory_items row
  evidence,   \* its memory_evidence rows
  job,        \* Workers -> the recompute in progress
  expiry,     \* who expires candidates -> the id of the one it is about to
  seen,       \* what the API last showed the user of the item
  approvals, runs, drawn,   \* approvals, recomputes and item ids so far
  agreed      \* history: the value the user last typed, or was shown and accepted

vars == <<clock, enabled, explicit, draft, item, evidence, job, expiry, seen,
          approvals, runs, drawn, agreed>>

Unset == 0
NoSignoff == 0     \* a body whose closing line is not a recognised sign-off
Expirers == {"read", "cron"}
MemoryStatus == {"candidate", "confirmed", "dismissed", "superseded", "expired"}
NoPrint == [value |-> NoSignoff, ids |-> {}]
NoItem == [id |-> 0, value |-> NoSignoff, status |-> "none", agreeing |-> 0,
           total |-> 0, latest |-> 0, version |-> 0, dismissed |-> NoPrint]
NoView == [id |-> 0, version |-> 0, value |-> NoSignoff]
IdleJob == [step |-> "idle", seen |-> {}, now |-> 0]

\* Confirmed memories are final for confirm, expired ones need new evidence.
Confirmable == {"candidate", "superseded"}
Dismissible == {"candidate", "superseded"}

EvidenceRow == [prop : Proposals, value : Signoffs]
Observation == [prop : Proposals, value : Signoffs, at : 0..MaxClock]

MemoryTypeOK ==
  /\ clock \in 0..MaxClock /\ enabled \in BOOLEAN
  /\ explicit \in Signoffs \cup {Unset}
  /\ draft \in [Proposals -> [state : {"edited", "approved", "closed"},
                              value : Signoffs \cup {NoSignoff}, at : 0..MaxClock]]
  /\ item = NoItem \/
     item \in [id : 1..drawn, value : Signoffs, status : MemoryStatus, agreeing : Nat,
               total : Nat, latest : 0..MaxClock, version : Nat \ {0},
               dismissed : [value : Signoffs \cup {NoSignoff}, ids : SUBSET Proposals]]
  /\ evidence \subseteq EvidenceRow
  /\ job \in [Workers -> [step : {"idle", "gathered"}, seen : SUBSET Observation,
                          now : 0..MaxClock]]
  /\ expiry \in [Expirers -> 0..drawn]
  /\ seen \in [id : 0..drawn, version : Nat, value : Signoffs \cup {NoSignoff}]
  /\ approvals \in 0..MaxApprovals /\ runs \in 0..MaxRuns /\ drawn \in 0..MaxRuns
  /\ agreed \in Signoffs \cup {Unset}

-----------------------------------------------------------------------------
(* memory_registry.py: observations to one value, confidence, fingerprint. *)

\* The newest RescanLimit approved drafts, by edit and then by id.
Rescanned ==
  LET approved == {p \in Proposals : draft[p].state = "approved"}
      Before(p, q) == \/ draft[p].at > draft[q].at
                      \/ draft[p].at = draft[q].at /\ p < q
  IN {p \in approved : Cardinality({q \in approved : Before(q, p)}) < RescanLimit}

\* gather_signoff_observations
Observations ==
  {[prop |-> p, value |-> draft[p].value, at |-> draft[p].at] :
     p \in {q \in Rescanned : draft[q].value # NoSignoff}}

Agreeing(obs, v) == {o \in obs : o.value = v}
Latest(obs) == Max({o.at : o \in obs})

\* Most observed, then most recently observed, then last in lexical order.
Outranks(obs, v, w) ==
  LET n(x) == Cardinality(Agreeing(obs, x))
      l(x) == Latest(Agreeing(obs, x))
  IN \/ n(v) > n(w)
     \/ n(v) = n(w) /\ l(v) > l(w)
     \/ n(v) = n(w) /\ l(v) = l(w) /\ v >= w

DominantValue(obs) ==
  LET values == {o.value : o \in obs}
  IN CHOOSE v \in values : \A w \in values : Outranks(obs, v, w)

\* strength * consistency * freshness < CONFIDENCE_EXPIRY_FLOOR, that is
\* min(1, agreeing / 4) * (agreeing / total) / 2^age < 15/100.  The freshness
\* decays on from the last evaluation, so it depends on latest and now only.
BelowFloor(agreeing, total, latest, now) ==
  LET age == IF now > latest THEN now - latest ELSE 0
      strength == IF agreeing < 4 THEN agreeing ELSE 4
  IN 5 * strength * agreeing < 3 * total * 2^age

\* evidence_fingerprint: a hash, so equal exactly when its material is.
Fingerprint(v, ids) == [value |-> v, ids |-> ids]

Evaluated(obs) ==
  LET v == DominantValue(obs)
      agreeing == Agreeing(obs, v)
  IN [value |-> v, agreeing |-> Cardinality(agreeing), total |-> Cardinality(obs),
      latest |-> Latest(agreeing),
      print |-> Fingerprint(v, {o.prop : o \in agreeing})]

-----------------------------------------------------------------------------
(* memory_inference.py: one recompute on the locked item.                  *)

Refreshed(it, ev) ==
  [it EXCEPT !.agreeing = ev.agreeing, !.total = ev.total, !.latest = ev.latest]

\* Sticky dismissal: reconsidered once the fingerprint differs.
Reconsidered(it, ev) ==
  IF it.dismissed = ev.print THEN it
  ELSE [it EXCEPT !.status = "candidate", !.value = ev.value, !.dismissed = NoPrint]

\* A confirmed item gives way when its preference is gone or another value.
Reaffirmed(it, ev, pref) ==
  IF pref = Unset THEN [it EXCEPT !.status = "candidate", !.value = ev.value]
  ELSE IF pref # it.value THEN [it EXCEPT !.status = "superseded"]
  ELSE it

\* Mutant of Suggested: an already superseded memory takes the ordinary path.
SuggestedInTurn(it, ev, pref, now) ==
  [it EXCEPT !.value = ev.value,
             !.status = IF pref # Unset /\ it.status # "superseded" THEN "superseded"
                        ELSE IF BelowFloor(ev.agreeing, ev.total, ev.latest, now)
                          THEN "expired"
                        ELSE "candidate"]

\* A suggestion is inactive beside a preference and expires below the floor.
Suggested(it, ev, pref, now) ==
  [it EXCEPT !.value = ev.value,
             !.status = IF pref # Unset THEN "superseded"
                        ELSE IF BelowFloor(ev.agreeing, ev.total, ev.latest, now)
                          THEN "expired"
                        ELSE "candidate"]

Reconciled(it, ev, pref, now) ==
  LET fresh == Refreshed(it, ev)
  IN CASE it.status = "dismissed" -> Reconsidered(fresh, ev)
       [] it.status = "confirmed" -> Reaffirmed(fresh, ev, pref)
       [] OTHER -> Suggested(fresh, ev, pref, now)

\* Mutant of Material: a new dominant value is no reason for a new version.
MaterialStatus(before, after) ==
  after.status # before.status \/ after.status = "expired"

\* What _apply_lifecycle returns: an expiry by recompute always counts.
Material(before, after) ==
  \/ after.status # before.status \/ after.value # before.value
  \/ after.status = "expired"

Created(ev) ==
  [NoItem EXCEPT !.id = drawn + 1, !.value = ev.value, !.status = "candidate",
                 !.version = 1]

\* Mutant of Recorded: every contributing proposal gets a row.
RecordedAgain(rows, obs) == rows \cup {[prop |-> o.prop, value |-> o.value] : o \in obs}

\* _record_evidence: a proposal that has a row keeps it, whatever it says now.
Recorded(rows, obs) ==
  rows \cup {[prop |-> o.prop, value |-> o.value] :
               o \in {n \in obs : \A r \in rows : r.prop # n.prop}}

-----------------------------------------------------------------------------
Init ==
  /\ clock = 0 /\ enabled = FALSE /\ explicit = Unset
  /\ draft = [p \in Proposals |-> [state |-> "edited", value |-> NoSignoff, at |-> 0]]
  /\ item = NoItem /\ evidence = {}
  /\ job = [w \in Workers |-> IdleJob]
  /\ expiry = [e \in Expirers |-> 0]
  /\ seen = NoView
  /\ approvals = 0 /\ runs = 0 /\ drawn = 0
  /\ agreed = Unset

HalfLifePasses ==
  /\ clock < MaxClock /\ clock' = clock + 1
  /\ UNCHANGED <<enabled, explicit, draft, item, evidence, job, expiry, seen, approvals,
                 runs, drawn, agreed>>

(* The drafts the evidence comes from. *)

\* The user edits the draft (again), ending it with v, and approves it.
Approves(p, v) ==
  /\ draft[p].state # "closed" /\ approvals < MaxApprovals
  /\ approvals' = approvals + 1
  /\ draft' = [draft EXCEPT ![p] = [state |-> "approved", value |-> v, at |-> clock]]
  /\ UNCHANGED <<clock, enabled, explicit, item, evidence, job, expiry, seen, runs, drawn,
                 agreed>>

\* An approved draft is edited again, which takes back its approval; or it
\* fails, expires, or is minimised by a deletion, and is evidence no more.
LeavesEvidence(p, to) ==
  /\ draft[p].state = "approved"
  /\ draft' = [draft EXCEPT ![p] = [state |-> to, value |-> NoSignoff, at |-> 0]]
  /\ UNCHANGED <<clock, enabled, explicit, item, evidence, job, expiry, seen, approvals,
                 runs, drawn, agreed>>

(* The recompute: the job an approval pushes, or a step of an imported-data  *)
(* deletion.  A push is best effort and a job can be lost, so a recompute    *)
(* may follow an approval late or never.                                     *)

\* Paused inference ends the job; else it reads the drafts, without a lock.
Gathers(w) ==
  /\ job[w].step = "idle" /\ runs < MaxRuns /\ enabled
  /\ runs' = runs + 1
  /\ job' = [job EXCEPT ![w] = [step |-> "gathered", seen |-> Observations, now |-> clock]]
  /\ UNCHANGED <<clock, enabled, explicit, draft, item, evidence, expiry, seen, approvals,
                 drawn, agreed>>

\* The item is locked, or created (the row of a winner is locked instead),
\* its evidence recorded, its status reconciled; then all of it is committed.
Reconciles(w) ==
  /\ job[w].step = "gathered"
  /\ job' = [job EXCEPT ![w] = IdleJob]
  /\ IF job[w].seen = {} THEN UNCHANGED <<item, evidence, drawn>>
     ELSE LET ev == Evaluated(job[w].seen)
              created == item = NoItem
              before == IF created THEN Created(ev) ELSE item
              after == Reconciled(before, ev, explicit, job[w].now)
          IN /\ evidence' = Recorded(evidence, job[w].seen)
             /\ item' = IF ~created /\ Material(before, after)
                          THEN [after EXCEPT !.version = @ + 1] ELSE after
             /\ drawn' = IF created THEN drawn + 1 ELSE drawn
  /\ UNCHANGED <<clock, enabled, explicit, draft, expiry, seen, approvals, runs,
                 agreed>>

\* The worker dies; its transaction is rolled back.
WorkerDies(w) ==
  /\ job[w].step = "gathered"
  /\ job' = [job EXCEPT ![w] = IdleJob]
  /\ UNCHANGED <<clock, enabled, explicit, draft, item, evidence, expiry, seen, approvals,
                 runs, drawn, agreed>>

(* Expiry of decayed candidates: at each read of the API and once a day. *)

\* Mutant of Stale: the confidence stored at the last recompute.
StaleWhenStored(it) ==
  it.status = "candidate" /\ BelowFloor(it.agreeing, it.total, it.latest, it.latest)

\* effective_confidence < CONFIDENCE_EXPIRY_FLOOR for a candidate
Stale(it) ==
  it.status = "candidate" /\ BelowFloor(it.agreeing, it.total, it.latest, clock)

\* A decayed candidate is read here, without a lock, and written below.
ReadsStale(e) ==
  /\ expiry[e] = 0 /\ Stale(item)
  /\ expiry' = [expiry EXCEPT ![e] = item.id]
  /\ UNCHANGED <<clock, enabled, explicit, draft, item, evidence, job, seen, approvals,
                 runs, drawn, agreed>>

View(it) == [id |-> it.id, version |-> it.version, value |-> it.value]

\* The UPDATE names the row by its key alone; no row is an error (a 500, or
\* the end of the daily pass).  A GET then shows what it wrote.
WritesExpired(e) ==
  /\ expiry[e] # 0
  /\ expiry' = [expiry EXCEPT ![e] = 0]
  /\ IF item.id = expiry[e]
       THEN /\ item' = [item EXCEPT !.status = "expired"]
            /\ seen' = IF e = "read" THEN View(item) ELSE seen
       ELSE UNCHANGED <<item, seen>>
  /\ UNCHANGED <<clock, enabled, explicit, draft, evidence, job, approvals, runs, drawn,
                 agreed>>

\* A GET with nothing to expire.
Shows ==
  /\ expiry["read"] = 0 /\ ~Stale(item)
  /\ seen' = View(item)
  /\ UNCHANGED <<clock, enabled, explicit, draft, item, evidence, job, expiry, approvals,
                 runs, drawn, agreed>>

(* The user, on the item as the API last showed it. *)

\* _load: the row locked, at the version the request expects.
Loaded(view) ==
  item # NoItem /\ view.id = item.id /\ view.version = item.version

Elsewhere == <<clock, enabled, draft, job, expiry, seen, approvals, runs, drawn>>

\* The item, the preference and the audit event in one transaction.
ConfirmsAs(v) ==
  /\ Loaded(seen) /\ item.status \in Confirmable
  /\ item' = [item EXCEPT !.value = v, !.status = "confirmed", !.version = @ + 1]
  /\ explicit' = v
  /\ UNCHANGED evidence
  /\ UNCHANGED Elsewhere

Confirm == ConfirmsAs(item.value) /\ agreed' = seen.value
Edit(v) == ConfirmsAs(v) /\ agreed' = v

\* The fingerprint of the item's value and of the rows that agree with it.
Dismiss ==
  /\ Loaded(seen) /\ item.status \in Dismissible
  /\ item' = [item EXCEPT !.status = "dismissed", !.version = @ + 1,
                !.dismissed = Fingerprint(item.value,
                   {r.prop : r \in {n \in evidence : n.value = item.value}})]
  /\ UNCHANGED <<explicit, evidence, agreed>>
  /\ UNCHANGED Elsewhere

\* DELETE of one item, at any version, or of all; its evidence goes with it.
Delete ==
  /\ item # NoItem
  /\ item' = NoItem /\ evidence' = {}
  /\ UNCHANGED <<explicit, agreed>>
  /\ UNCHANGED Elsewhere

\* PUT /preferences/preferred_email_signoff
SetSignoff(v) ==
  /\ explicit' = v /\ agreed' = v
  /\ UNCHANGED <<item, evidence>>
  /\ UNCHANGED Elsewhere

TogglesInference ==
  /\ enabled' = ~enabled
  /\ UNCHANGED <<clock, explicit, draft, item, evidence, job, expiry, seen, approvals, runs,
                 drawn, agreed>>

Next ==
  \/ HalfLifePasses \/ Shows \/ Confirm \/ Dismiss \/ Delete \/ TogglesInference
  \/ \E p \in Proposals :
       \/ \E v \in Signoffs \cup {NoSignoff} : Approves(p, v)
       \/ \E to \in {"edited", "closed"} : LeavesEvidence(p, to)
  \/ \E w \in Workers : Gathers(w) \/ Reconciles(w) \/ WorkerDies(w)
  \/ \E e \in Expirers : ReadsStale(e) \/ WritesExpired(e)
  \/ \E v \in Signoffs : Edit(v) \/ SetSignoff(v)

\* The daily pass runs again and again, and ends.
DailyPass == ReadsStale("cron") \/ WritesExpired("cron")
Spec == Init /\ [][Next]_vars
FairSpec == Spec /\ WF_vars(DailyPass)

-----------------------------------------------------------------------------
(* Properties.                                                             *)

\* Only what the user typed, or was shown and confirmed, ever becomes the
\* sign-off of their drafts: no recompute between the page and the click
\* makes a confirmation mean another value (memory.py _load, confirm).
OnlyConsentedSignoffs == explicit = agreed

\* A memory says it is confirmed, or overridden, only beside an explicit
\* preference; confirming never leaves one without the other.
ConfirmedHasAuthority ==
  item.status \in {"confirmed", "superseded"} => explicit # Unset

\* However many recomputes rescan it, a proposal counts once in the stored
\* evidence (_record_evidence, uq_memory_evidence_item_source).
EvidenceCountsOnce ==
  \A r, s \in evidence : r.prop = s.prop => r = s

\* What the item says of itself is so: its status and its evidence.
MemoryInv == MemoryTypeOK /\ ConfirmedHasAuthority /\ EvidenceCountsOnce

Again(it, ev) == Reconciled(it, ev, explicit, clock)
Visible(it) == <<it.status, it.value>>

\* With the same drafts and the same preference a third recompute changes
\* nothing the user sees: the statuses do not chase each other.
RecomputeSettles ==
  item # NoItem /\ Observations # {} =>
    LET ev == Evaluated(Observations)
        twice == Again(Again(item, ev), ev)
    IN Visible(Again(twice, ev)) = Visible(twice)

\* memory_inference.py says a recompute reconciles idempotently: the second
\* of two in a row would find nothing left to change.
RecomputeIsIdempotent ==
  item # NoItem /\ Observations # {} =>
    LET ev == Evaluated(Observations)
    IN Visible(Again(Again(item, ev), ev)) = Visible(Again(item, ev))

\* A candidate on show that the floor should have ended.
LooksActive ==
  item.status = "candidate" /\ BelowFloor(item.agreeing, item.total, item.latest, clock)

\* A candidate whose confidence has decayed is not left standing, even if
\* its owner never opens the settings again (expire_all_stale_memory).
StaleCandidatesExpire == []<>~LooksActive

\* memory_inference.py says of the daily pass that confirmed memories are
\* never touched by it.
ConfirmedIsNotExpired ==
  [][item.status = "confirmed" => item'.status # "expired"]_vars

\* A dismissed memory comes back only for evidence that was not there: some
\* draft now says what no recorded row of the item says.
DismissalSticks ==
  [][item.status = "dismissed" /\ item'.status = "candidate"
       => \E w \in Workers : \E o \in job[w].seen :
            [prop |-> o.prop, value |-> o.value] \notin evidence]_vars

=============================================================================
