--------------------------- MODULE EvidenceDeletion ----------------------------
(***************************************************************************)
(* What a running deletion does to the user's data: deletion_planner.py    *)
(* (the evidence graph and its decisions), account_deletion.py and         *)
(* retention.py, beside the requests that go on: syncs, generations,       *)
(* edits, approvals, executions.  How an operation is previewed, confirmed,*)
(* claimed and recovered is the module DeletionEngine; here it is          *)
(* confirmed, and an attempt ends or dies.                                 *)
(*                                                                         *)
(* A batch is a transaction at READ COMMITTED.  The one that decides is    *)
(* split where others may commit: it reads the evidence, then the rows     *)
(* that cite it, then writes.  The rest of a batch is one step.            *)
(*                                                                         *)
(* Contents are abstract: "old" was written before the operation decided   *)
(* about its row, "late" after it, "none" is the empty tombstone.          *)
(***************************************************************************)
EXTENDS Integers, FiniteSets, FiniteSetsExt

CONSTANTS
  Items,        \* external ids
  HomeOf,       \* Items -> the connected account they come from
  Scope,        \* the account whose imported data are deleted
  Signals, Proposals,
  RefsOf,       \* signal or proposal -> the items it is derived from
  Pools,        \* the sets of signals and proposals that a user may have
  Confirmed, LastDay,  \* the snapshot of the plan, a bound on the clock
  ItemHorizon, ProposalHorizon,
  BatchSize, MaxCrashes,
  CountBound,   \* bound on the deleted items that are counted
  Null

ASSUME BatchAssumption == BatchSize \in Nat \ {0}
ASSUME DaysAreNumbers == {Confirmed, LastDay, ItemHorizon, ProposalHorizon} \subseteq Nat
ASSUME EvidenceIsGiven == \A x \in Signals \cup Proposals : RefsOf[x] # {} /\ RefsOf[x] \subseteq Items

VARIABLES
  type,         \* what is deleted: imported data, expired data, the account
  now,
  pool,
  stored,       \* Items -> created_at, Null when there is no row
  fetched,      \* the item that a sync in progress will store
  connected,    \* the ConnectedAccount rows are there
  signal,       \* Signals -> row
  proposal,     \* Proposals -> row, with its execution
  gen,          \* the items that a generation in progress has read
  admitted,     \* requests that passed the guard before the account was blocked
  op,           \* the operation's cursor and the batch in progress
  counts,       \* deleted_counts_json
  plan          \* the counts confirmed, Null once anything else has moved

data == <<stored, signal, proposal, connected>>
vars == <<type, now, pool, fetched, gen, admitted, op, counts, plan, data>>

Statuses == {"absent", "proposed", "edited", "closed", "approved", "executing", "ended"}
Contents == {"none", "old", "late"}
Requests == {"edit", "approve", "execute", "sync", "generate"}

\* approved_at, payload_json, approved_payload_json, source_refs; the outcome,
\* executed_payload_json and result_json of the execution.
NoProposal == [status |-> "absent", approved |-> FALSE, payload |-> "none", snapshot |-> "none",
               refs |-> {}, outcome |-> "none", executed |-> "none", result |-> "none", made |-> 0]
Offered(p, made, content) ==
  [NoProposal EXCEPT !.status = "proposed", !.payload = content, !.refs = RefsOf[p], !.made = made]
ApprovedRow(row, content) ==
  [row EXCEPT !.status = "approved", !.approved = TRUE, !.snapshot = content]
Attempted(row, content) == [row EXCEPT !.status = "executing", !.outcome = "pending", !.executed = content]

NoSignal == [there |-> FALSE, refs |-> {}, late |-> FALSE]
Row(s, late) == [there |-> TRUE, refs |-> RefsOf[s], late |-> late]

Live == {i \in Items : stored[i] # Null}
Unresolved == {"pending", "uncertain"}
Unapproved == {"proposed", "edited", "closed"}

-----------------------------------------------------------------------------
(* The planner's decisions.                                                *)

\* The cutoff of retention is the attempt's, not the operation's snapshot.
Cutoff == IF type = "imported" THEN Confirmed ELSE op.at - ItemHorizon

InScope(i) ==
  /\ stored[i] # Null /\ stored[i] <= Cutoff
  /\ type = "imported" => HomeOf[i] = Scope
Removed == {i \in Items : InScope(i)}

\* Mutant of SignalFate: the surviving evidence is not pruned.
SignalFateUnpruned(refs, removed, surviving) ==
  IF refs \cap removed = {} \/ refs \cap surviving # {} THEN "untouched" ELSE "deleted"
\* classify_signals
SignalFate(refs, removed, surviving) ==
  IF refs \cap removed = {} THEN "untouched"
  ELSE IF refs \cap surviving # {} THEN "pruned" ELSE "deleted"

\* Mutant of ProposalFate: the status alone is asked.
ProposalFateByStatus(row, removed, surviving) ==
  IF row.refs \cap removed = {} THEN "untouched"
  ELSE IF row.outcome \in Unresolved THEN "preserved"
  ELSE IF row.outcome # "none" THEN "minimised"
  ELSE IF row.status \in Unapproved /\ row.refs \cap surviving = {} THEN "deleted"
  ELSE IF row.approved THEN "minimised" ELSE "pruned"
\* classify_proposals
ProposalFate(row, removed, surviving) ==
  IF row.refs \cap removed = {} THEN "untouched"
  ELSE IF row.outcome \in Unresolved THEN "preserved"
  ELSE IF row.outcome # "none" \/ row.approved THEN "minimised"
  ELSE IF row.status \in Unapproved /\ row.refs \cap surviving = {} THEN "deleted"
  ELSE "pruned"

\* _delete_age_based_categories
Expired(row) ==
  /\ type = "retention"
  /\ row.status \in Unapproved /\ ~row.approved /\ row.outcome \notin Unresolved
  /\ row.made <= op.at - ProposalHorizon

\* SQLAlchemy writes the attributes that differ from what the batch loaded.
Assigned(loaded, new, current) == IF loaded = new THEN current ELSE new

\* Mutant of Minimised: the approved snapshot is forgotten.
MinimisedPayload(row, seen) ==
  [row EXCEPT !.payload = Assigned(seen.payload, "none", @), !.refs = Assigned(seen.refs, {}, @),
              !.executed = Assigned(seen.executed, "none", @), !.result = Assigned(seen.result, "none", @)]
\* minimise_proposal and minimise_execution
Minimised(row, seen) ==
  [row EXCEPT !.payload = Assigned(seen.payload, "none", @),
              !.snapshot = Assigned(seen.snapshot, "none", @),
              !.refs = Assigned(seen.refs, {}, @),
              !.executed = Assigned(seen.executed, "none", @),
              !.result = Assigned(seen.result, "none", @)]

Fated(fates, names, fate) == Cardinality({n \in names : fates[n] = fate})
\* "recomputed" is recomputed_signals, "pruned" is source_reference_removed.  An
\* erased account's executions are counted with their proposals, one for each:
\* planned as retained_execution_tombstones, reported as action_executions.
NoCounts == [items |-> 0, signals |-> 0, proposals |-> 0, minimised |-> 0, preserved |-> 0,
             recomputed |-> 0, pruned |-> 0]

\* count_account_deletion_plan
AccountPlan ==
  LET there == {p \in Proposals : proposal[p].status # "absent"}
      attempted == {p \in there : proposal[p].outcome # "none"}
  IN [NoCounts EXCEPT !.items = Cardinality(Live),
                      !.signals = Cardinality({s \in Signals : signal[s].there}),
                      !.proposals = Cardinality(there \ attempted),
                      !.minimised = Cardinality(attempted)]

\* count_imported_data_plan
ImportedPlan(removed, surviving) ==
  LET signalFate == [s \in Signals |-> SignalFate(signal[s].refs, removed, surviving)]
      fate == [p \in Proposals |-> ProposalFate(proposal[p], removed, surviving)]
  IN [items |-> Cardinality(removed),
      signals |-> Fated(signalFate, Signals, "deleted"),
      proposals |-> Fated(fate, Proposals, "deleted"),
      minimised |-> Fated(fate, Proposals, "minimised"),
      preserved |-> Fated(fate, Proposals, "preserved"),
      recomputed |-> Fated(signalFate, Signals, "pruned"),
      pruned |-> Fated(fate, Proposals, "pruned")]

\* Mutant of Plan: what is removed counts as surviving.
PlanEverySurvivor == IF type = "account" THEN AccountPlan ELSE ImportedPlan(Removed, Live)
\* What is counted when the user confirms.  There is none for retention.
Plan == IF type = "account" THEN AccountPlan ELSE ImportedPlan(Removed, Live \ Removed)

-----------------------------------------------------------------------------
(* The batches of an attempt.                                              *)

FirstPhase == IF type = "account" THEN "credentials" ELSE "derived"
Idle == [phase |-> FirstPhase, step |-> "idle", at |-> Confirmed, removed |-> {}, surviving |-> {},
         seen |-> Null, signals |-> Null, crashes |-> 0]
Between(phase) == [op EXCEPT !.phase = phase, !.step = "ready", !.removed = {}, !.surviving = {},
                             !.seen = Null, !.signals = Null]

\* Has the operation decided about proposals, about signals?
Decided == op.phase \in {"sources", "finalise", "done"} \/ op.step = "classified"
DecidedSignals == op.phase \in {"sources", "minimise", "finalise", "done"} \/ op.step = "classified"
Content == IF Decided THEN "late" ELSE "old"

Others == UNCHANGED <<type, now, pool, fetched, gen, admitted, plan>>

\* Mutant of Claimable: recovery does not put an operation back that has begun.
ClaimableAtFirst == op.step = "idle" /\ op.phase = FirstPhase
Claimable == op.step = "idle" /\ op.phase # "done"

\* claim_operation; `now` is the attempt's until it ends, retention computes
\* with it.
Claims ==
  /\ Claimable
  /\ op' = [op EXCEPT !.step = "ready", !.at = IF type = "retention" THEN now ELSE @]
  /\ Others /\ UNCHANGED <<counts, data>>

\* run_derived_cleanup and run_retention_step read the evidence.
ReadsEvidence ==
  /\ op.step = "ready" /\ op.phase = "derived"
  /\ op' = [op EXCEPT !.step = "read", !.removed = Removed, !.surviving = Live \ Removed]
  /\ Others /\ UNCHANGED <<counts, data>>

\* The rows and their executions are read, and the decisions taken.
Classifies ==
  /\ \/ op.step = "read" /\ op.phase = "derived"
     \/ op.step = "ready" /\ op.phase = "minimise"
  /\ op' = [op EXCEPT !.step = "classified", !.seen = proposal, !.signals = signal]
  /\ Others /\ UNCHANGED <<counts, data>>

\* apply_derived_decisions, then the age-based categories.  A proposal that
\* is deleted takes its execution with it.  What is pruned is counted as one,
\* signals and proposals.
AppliesDerived ==
  LET signalFate == [s \in Signals |-> SignalFate(op.signals[s].refs, op.removed, op.surviving)]
      fate == [p \in Proposals |-> ProposalFate(op.seen[p], op.removed, op.surviving)]
      gone == {p \in Proposals : fate[p] = "deleted" \/ Expired(op.seen[p])}
  IN /\ op.step = "classified" /\ op.phase = "derived"
     /\ signal' = [s \in Signals |->
          CASE signalFate[s] = "deleted" -> NoSignal
            [] signalFate[s] = "pruned" -> [signal[s] EXCEPT !.refs = op.signals[s].refs \cap op.surviving]
            [] OTHER -> signal[s]]
     /\ proposal' = [p \in Proposals |->
          CASE p \in gone -> NoProposal
            [] p \notin gone /\ fate[p] \in {"minimised", "preserved"} -> Minimised(proposal[p], op.seen[p])
            [] p \notin gone /\ fate[p] = "pruned" ->
                 [proposal[p] EXCEPT !.refs = op.seen[p].refs \cap op.surviving]
            [] OTHER -> proposal[p]]
     /\ counts' = [counts EXCEPT
          !.signals = @ + Fated(signalFate, Signals, "deleted"),
          !.proposals = @ + Cardinality(gone),
          !.minimised = @ + Fated(fate, Proposals, "minimised"),
          !.preserved = @ + Fated(fate, Proposals, "preserved"),
          !.pruned = @ + Fated(signalFate, Signals, "pruned") + Fated(fate, Proposals, "pruned")]
     /\ op' = [Between("sources") EXCEPT !.removed = op.removed]
     /\ Others /\ UNCHANGED <<stored, connected>>

Erases(items) ==
  /\ stored' = [i \in Items |-> IF i \in items THEN Null ELSE stored[i]]
  /\ counts' = [counts EXCEPT !.items = Min({@ + Cardinality(items), CountBound})]

\* Batches are taken in the order of random ids.
Batches(S) == kSubset(Min({BatchSize, Cardinality(S)}), S)

\* delete_source_items_batch, until it finds nothing.
DeletesSources ==
  /\ op.step = "ready" /\ op.phase = "sources"
  /\ IF Removed = {}
       THEN op' = [Between("done") EXCEPT !.step = "idle", !.at = Confirmed, !.removed = op.removed] /\ UNCHANGED <<stored, counts>>
       ELSE op' = op /\ \E batch \in Batches(Removed) : Erases(batch)
  /\ Others /\ UNCHANGED <<signal, proposal, connected>>

ErasesCredentials ==
  /\ op.step = "ready" /\ op.phase = "credentials"
  /\ connected' = FALSE
  /\ op' = Between("product")
  /\ Others /\ UNCHANGED <<counts, stored, signal, proposal>>

\* The items in batches, then everything else of the user.
ErasesProduct ==
  /\ op.step = "ready" /\ op.phase = "product"
  /\ IF Live # {}
       THEN /\ \E batch \in Batches(Live) : Erases(batch)
            /\ UNCHANGED <<op, signal>>
       ELSE /\ op' = Between("minimise")
            /\ signal' = [s \in Signals |-> NoSignal]
            /\ counts' = [counts EXCEPT !.signals = @ + Cardinality({s \in Signals : signal[s].there})]
            /\ UNCHANGED stored
  /\ Others /\ UNCHANGED <<proposal, connected>>

\* The proposals with an execution are kept.
Retained(seen) == {p \in Proposals : seen[p].outcome # "none"}
AppliesMinimise ==
  LET retained == Retained(op.seen)
      gone == {p \in Proposals \ retained : op.seen[p].status # "absent"}
  IN /\ op.step = "classified" /\ op.phase = "minimise"
     /\ proposal' = [p \in Proposals |->
          IF p \in gone THEN NoProposal
          ELSE IF p \in retained THEN Minimised(proposal[p], op.seen[p]) ELSE proposal[p]]
     /\ counts' = [counts EXCEPT !.proposals = @ + Cardinality(gone),
                                 !.minimised = @ + Cardinality(retained)]
     /\ op' = Between("finalise")
     /\ Others /\ UNCHANGED <<stored, signal, connected>>

\* The user becomes a random name; nobody signs in as it.
Finalises ==
  /\ op.step = "ready" /\ op.phase = "finalise"
  /\ op' = [Between("done") EXCEPT !.step = "idle"]
  /\ Others /\ UNCHANGED <<counts, data>>

Again(content) == IF content = "late" THEN "old" ELSE content
Undecided(row) == [row EXCEPT !.payload = Again(@), !.snapshot = Again(@),
                              !.executed = Again(@), !.result = Again(@)]

\* The worker dies: the batch in progress is rolled back, and what was
\* written meanwhile will be decided about again.
Dies ==
  /\ op.step # "idle" /\ op.crashes < MaxCrashes
  /\ op' = [Between(op.phase) EXCEPT !.step = "idle", !.at = Confirmed, !.crashes = @ + 1,
                                     !.removed = IF op.phase = "sources" THEN op.removed ELSE {}]
  /\ signal' = IF op.step = "classified" /\ op.phase = "derived"
                 THEN [s \in Signals |-> [signal[s] EXCEPT !.late = FALSE]] ELSE signal
  /\ proposal' = IF op.step = "classified" THEN [p \in Proposals |-> Undecided(proposal[p])] ELSE proposal
  /\ Others /\ UNCHANGED <<counts, stored, connected>>

Works ==
  \/ Claims \/ ReadsEvidence \/ Classifies \/ AppliesDerived \/ DeletesSources
  \/ ErasesCredentials \/ ErasesProduct \/ AppliesMinimise \/ Finalises

-----------------------------------------------------------------------------
(* The requests beside it.                                                 *)

\* require_active_account: an account under deletion starts nothing new.
Admitted(request) ==
  /\ type = "account" => request \in admitted
  /\ admitted' = IF type = "account" THEN admitted \ {request} ELSE admitted
  /\ plan' = Null
\* get_current_user: what an account under deletion may still do.
SignedIn == (type = "account" => op.phase # "done") /\ plan' = Null /\ UNCHANGED admitted
Proceeds == plan' = Null /\ UNCHANGED admitted
Elsewhere == UNCHANGED <<type, pool, op, counts, connected>>

Changes(p, row) ==
  /\ proposal' = [proposal EXCEPT ![p] = row]
  /\ Elsewhere /\ UNCHANGED <<now, stored, fetched, signal, gen>>

Open == {"proposed", "edited", "approved"}
\* _clear_approval
Unsigned(row, status) == [row EXCEPT !.status = status, !.approved = FALSE, !.snapshot = "none"]

\* ActionProposalService
Edited(p) ==
  /\ proposal[p].status \in Open
  /\ Changes(p, [Unsigned(proposal[p], "edited") EXCEPT !.payload = Content])

\* A payload that was emptied does not parse.
Approved(p) ==
  /\ proposal[p].status \in {"proposed", "edited"} /\ proposal[p].payload # "none"
  /\ Changes(p, ApprovedRow(proposal[p], Content))

Rejected(p) ==
  /\ proposal[p].status \in Open
  /\ Changes(p, IF proposal[p].status = "approved" THEN Unsigned(proposal[p], "closed")
                ELSE [proposal[p] EXCEPT !.status = "closed"])

\* What is due expires; an approval is kept.
Lapsed(p) ==
  /\ proposal[p].status \in Open
  /\ Changes(p, [proposal[p] EXCEPT !.status = "closed"])

\* The attempt is committed before the call; a context that has changed,
\* its evidence being gone, ends the approval.
Executed(p) ==
  /\ proposal[p].status = "approved" /\ proposal[p].payload # "none" /\ proposal[p].snapshot # "none"
  /\ \/ Changes(p, Attempted(proposal[p], Content))
     \/ Changes(p, Unsigned(proposal[p], "edited"))

\* The endpoints.
Edits(p) == Admitted("edit") /\ Edited(p)
Approves(p) == Admitted("approve") /\ Approved(p)
Rejects(p) == SignedIn /\ Rejected(p)
Lapses(p) == SignedIn /\ Lapsed(p)
Executes(p) == Admitted("execute") /\ Executed(p)

\* The executor comes back, if its row is still there: it has succeeded or
\* failed, or cannot tell.
Finishes(p) ==
  \E outcome \in {"terminal", "uncertain"} :
    /\ Proceeds /\ proposal[p].outcome = "pending"
    /\ Changes(p, [proposal[p] EXCEPT !.outcome = outcome, !.result = Content,
                                      !.status = IF outcome = "uncertain" THEN @ ELSE "ended"])

\* created_at is when the transaction began.
SyncBegins(i) ==
  /\ Admitted("sync") /\ connected /\ fetched = Null /\ stored[i] = Null
  /\ fetched' = [item |-> i, created |-> now]
  /\ Elsewhere /\ UNCHANGED <<now, stored, signal, proposal, gen>>

\* The account must still be there: a foreign key.
SyncEnds ==
  /\ Proceeds /\ fetched # Null /\ fetched' = Null
  /\ \/ connected /\ stored' = [stored EXCEPT ![fetched.item] = fetched.created]
     \/ UNCHANGED stored
  /\ Elsewhere /\ UNCHANGED <<now, signal, proposal, gen>>

\* BriefPipeline, seen from here: what is found in the items that were read
\* is stored unless it is; a proposal the user has not touched is renewed.
GenerationBegins ==
  /\ Admitted("generate") /\ gen = Null
  /\ gen' = Live
  /\ Elsewhere /\ UNCHANGED <<now, stored, fetched, signal, proposal>>

Renewable(p) == p \in pool /\ RefsOf[p] \subseteq gen /\ proposal[p].status \in {"absent", "proposed"}
Renewed(p) == Offered(p, IF proposal[p].status = "absent" THEN now ELSE proposal[p].made, Content)

GenerationCommits ==
  \E offered \in SUBSET Proposals :
    /\ Proceeds /\ gen # Null /\ gen' = Null
    /\ \A p \in offered : Renewable(p)
    /\ signal' = [s \in Signals |-> IF s \in pool /\ RefsOf[s] \subseteq gen /\ ~signal[s].there
                                     THEN Row(s, DecidedSignals) ELSE signal[s]]
    /\ proposal' = [p \in Proposals |-> IF p \in offered THEN Renewed(p) ELSE proposal[p]]
    /\ Elsewhere /\ UNCHANGED <<now, stored, fetched>>

GenerationFails ==
  /\ Proceeds /\ gen # Null /\ gen' = Null
  /\ Elsewhere /\ UNCHANGED <<now, stored, fetched, signal, proposal>>

\* Only retention computes with the day; for the others every day after the
\* snapshot is the same.
TimePasses ==
  /\ Proceeds /\ type = "retention" /\ now < LastDay /\ now' = now + 1
  /\ Elsewhere /\ UNCHANGED <<stored, fetched, signal, proposal, gen>>

-----------------------------------------------------------------------------
(* The specification.                                                      *)

\* What a proposal may be when the user confirms; p was offered on day 0.
InitialRows(p) ==
  LET offered == Offered(p, 0, "old")
      approved == ApprovedRow(offered, "old")
      attempted == Attempted(approved, "old")
  IN {NoProposal, offered, approved, attempted,
      [offered EXCEPT !.status = "closed"], [approved EXCEPT !.status = "closed"],
      [attempted EXCEPT !.outcome = "uncertain", !.result = "old"],
      [attempted EXCEPT !.outcome = "terminal", !.result = "old", !.status = "ended"]}

Init ==
  /\ type \in {"imported", "retention", "account"}
  /\ now = Confirmed + 1
  /\ pool \in Pools
  /\ stored \in [Items -> {Null} \cup 0..Confirmed]
  /\ fetched \in {Null} \cup [item : {i \in Items : stored[i] = Null}, created : {Confirmed}]
  /\ connected = TRUE
  /\ signal = [s \in Signals |-> IF s \in pool /\ RefsOf[s] \subseteq Live THEN Row(s, FALSE) ELSE NoSignal]
  /\ proposal \in {f \in [Proposals -> UNION {InitialRows(p) : p \in Proposals}] :
       \A p \in Proposals : f[p] \in IF p \in pool /\ RefsOf[p] \subseteq Live THEN InitialRows(p) ELSE {NoProposal}}
  /\ gen = Null
  /\ admitted \in IF type = "account" THEN {r \in SUBSET Requests : Cardinality(r) <= 1} ELSE {{}}
  /\ op = Idle
  /\ counts = NoCounts
  /\ plan = Plan

Next ==
  \/ Works \/ Dies
  \/ \E p \in Proposals : Edits(p) \/ Approves(p) \/ Rejects(p) \/ Lapses(p) \/ Executes(p) \/ Finishes(p)
  \/ \E i \in Items : SyncBegins(i)
  \/ SyncEnds \/ GenerationBegins \/ GenerationCommits \/ GenerationFails \/ TimePasses

\* The job runs, and recovery starts it again.
Spec == Init /\ [][Next]_vars /\ WF_vars(Works)

-----------------------------------------------------------------------------
(* Properties.                                                             *)

EvidenceTypeOK ==
  /\ op.phase \in {"derived", "sources", "credentials", "product", "minimise", "finalise", "done"}
  /\ op.step \in {"idle", "ready", "read", "classified"}
  /\ \A s \in Signals : signal[s].there => s \in pool /\ signal[s].refs # {} /\ signal[s].refs \subseteq RefsOf[s]
  /\ \A p \in Proposals :
       LET row == proposal[p]
       IN /\ row.status \in Statuses /\ row.refs \subseteq RefsOf[p]
          /\ {row.payload, row.snapshot, row.executed, row.result} \subseteq Contents
          /\ row.status \in {"proposed", "edited"} => ~row.approved
          /\ row.outcome # "none" <=> row.status \in {"executing", "ended"}

\* The history that the operation has seen is never deleted: no proposal with
\* an attempt, and, unless the account goes, none that was approved, lapsed
\* ones included (deletion_planner.py:18).
SeenHistoryIsKept ==
  [][\A p \in Proposals :
       proposal[p].status # "absent" /\ proposal'[p].status = "absent" =>
         /\ op.seen[p].outcome = "none"
         /\ type # "account" => ~op.seen[p].approved]_vars

\* Once the decisions are applied, and whatever commits while they are taken,
\* no signal or proposal older than them cites what is deleted, none is left
\* without evidence but the tombstones, and a tombstone has no content older
\* than them (deletion_planner.py:13 and :20).
OldCitationsArePruned ==
  type # "account" /\ op.phase \in {"sources", "done"} =>
    /\ \A s \in Signals : signal[s].there /\ ~signal[s].late => signal[s].refs \cap op.removed = {}
    /\ \A p \in Proposals :
         LET row == proposal[p]
         IN /\ row.payload # "late" => row.refs \cap op.removed = {}
            /\ row.refs = {} => "old" \notin {row.payload, row.snapshot, row.executed, row.result}

\* An erased account holds no imported item, and nothing else but tombstones
\* and what a request admitted before the confirmation wrote after its kind
\* of rows was erased (account_deletion.py:190).
ErasedHoldsOnlyLateWrites ==
  type = "account" /\ op.phase = "done" =>
    /\ Live = {} /\ ~connected
    /\ \A s \in Signals : signal[s].there => signal[s].late
    /\ \A p \in Proposals :
         LET row == proposal[p]
         IN /\ "old" \notin {row.payload, row.snapshot, row.executed, row.result}
            /\ row.status # "absent" => row.outcome # "none" \/ row.payload = "late"

\* Nothing but what is late is left of what was deleted.
LeftoversAreLate ==
  /\ EvidenceTypeOK
  /\ OldCitationsArePruned
  /\ ErasedHoldsOnlyLateWrites

\* As much as the user confirmed is deleted, kept and pruned, over every batch
\* and death of the worker, when nothing else has moved
\* (deletion_planner.py:253): what loses a reference is planned under two
\* categories and reported under one, and only their sum agrees.
PlanIsWhatHappens ==
  plan # Null /\ op.phase = "done" /\ type # "retention" =>
    /\ counts.items = plan.items /\ counts.signals = plan.signals
    /\ counts.proposals = plan.proposals /\ counts.minimised = plan.minimised
    /\ counts.preserved = plan.preserved
    /\ counts.pruned = plan.recomputed + plan.pruned

\* A confirmed operation ends, although syncs go on and import again what it
\* deletes (deletion_planner.py:94).
DeletionEnds == <>(op.phase = "done")

(* Refuted: see the README.                                                *)

\* "a pending or uncertain ActionExecution is never deleted"
\* (deletion_planner.py:19): one that begins after its proposal was
\* classified is, by the cascade.
UnresolvedIsKept ==
  [][\A p \in Proposals : proposal[p].outcome \in Unresolved => proposal'[p].outcome # "none"]_vars

\* "preview counts equal what actually happens" (deletion_planner.py:254), each
\* category of them: a pruned signal is planned as recomputed_signals and
\* reported as source_reference_removed.
EachCategoryIsAsPlanned ==
  plan # Null /\ op.phase = "done" /\ type # "retention" => counts = plan

\* "never keep a dangling reference to deleted content" (deletion_planner.py:154):
\* a generation that read the items before stores them again.
NothingDangles ==
  type # "account" /\ op.phase = "done" =>
    /\ \A s \in Signals : signal[s].refs \subseteq Live
    /\ \A p \in Proposals : proposal[p].refs \subseteq Live

\* "preserved (minimised) so the unresolved outcome stays explainable"
\* (deletion_planner.py:20): an empty payload does not parse, and one such row
\* fails the whole list of GET /action-proposals (action_proposals.py:298).
HistoryStaysReadable ==
  \A p \in Proposals : proposal[p].status # "absent" => proposal[p].payload # "none"

\* "a signal is deleted only when none of its evidence refs survive"
\* (deletion_planner.py:152): evidence imported between the two reads does not
\* count as surviving.
SupportedSignalsStay ==
  [][\A s \in Signals : signal[s].there /\ ~signal'[s].there /\ type # "account" =>
        signal[s].refs \subseteq op.removed \cup {i \in Items : stored[i] = Null}]_vars

\* Only what the decisions covered is deleted ("so the removed/surviving sets
\* are stable across a crash-resume", deletion_planner.py:308): the cutoff of
\* retention moves with the attempt, and a sync begun before the snapshot
\* stores an item with an earlier created_at.
SourcesAsDecided ==
  [][\A i \in Items : stored[i] # Null /\ stored'[i] = Null /\ type # "account" => i \in op.removed]_vars

\* An erased account holds nothing but tombstones.
ErasedHoldsNothing ==
  type = "account" /\ op.phase = "done" => \A s \in Signals : ~signal[s].there
=============================================================================
