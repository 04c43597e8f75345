# LifeFlow AI: a TLA+ verification project

LifeFlow AI reads a user's mail and calendar, composes a daily brief, proposes
actions (a task, a Gmail draft, a calendar event) and, after the user has
approved one, carries it out in the user's Google account.  The server is
FastAPI over PostgreSQL with an arq/Redis worker; the code is
`src/apps/api/src/lifeflow_api/` (file names below are relative to it).

This project models the parts of it where several requests, a worker and
periodic jobs change the same rows, and the rules that decide what a brief says
and what is proposed.  It checks them with TLC on small instances, and proves
with TLAPS, for any number of rows, requests and workers, the safety properties
of the components that share database rows: the approval pipeline and its
refinement of an abstract promise, the deletion engine and what it leaves behind,
scheduled briefs, memory, synchronisation, credentials and brief composition.

## 1. Inventory

What the whole system has in common, and every module below relies on:

* one transaction per request at READ COMMITTED (`deps.py:14-25`), rolled back
  when the request fails; a `SELECT` takes no lock unless it says
  `FOR UPDATE`; another transaction's commit is visible to the next statement;
* sessions have `expire_on_commit=False`, and an `UPDATE` of a changed object
  writes the *changed columns* by primary key, whatever the row has become;
* the worker runs a job once (`max_tries` is 1): a job whose process dies, or
  that exceeds arq's 300 s, is gone;
* three cron jobs run every minute (scheduled briefs, deletion operations,
  stale executions) and one daily (memory expiry).

| Component (source) | State it keeps | Operations | What is hard about it | What makes it correct |
|---|---|---|---|---|
| Action proposals (`action_proposal_service.py`, `action_policy.py`, `action_proposals.py`) | `ActionProposal` rows: status, version, payload, approved snapshot, expiry; one `ActionExecution` per proposal | generate from a brief, GET, edit, approve, reject, execute; the sweep of stale attempts | `execute` commits in the middle, releases its locks and calls Google; duplicates, crashes, lost answers, a sweep without locks | at most one write per proposal; only approved content is written; the rows tell the truth |
| Execution context (`execution_context.py`) | none (pure) | `resolve_execution_context` | it is recomputed at approve and execute from rows that change in between | demo evidence never reaches Google; a context change withdraws the approval |
| Connected account and tokens (`accounts.py`, `connected_accounts.py`) | one `ConnectedAccount` row per provider: status, scopes, authorisation revision, ciphertexts | OAuth callback, disconnect, token acquisition and refresh | callback and disconnect work on an unlocked read | a write happens under the authorisation that was approved; a disconnected account has no tokens |
| Executors and Google clients (`action_executors.py`, `google_wiring.py`, `google/`) | none of their own | draft or event creation, read-back | the write may be applied although the answer is lost | an outcome is never guessed |
| Durable deletion engine (`deletion.py`, `deletion_ops.py`, `privacy_deletion.py`) | `data_deletion_operations` rows: state, version, preview, fingerprint, heartbeat, attempts, cursor; `users.account_state` | preview, confirm, refresh, cancel; claim, batches, finish; recovery, drain | a queue that loses and duplicates jobs, dying workers, confirm against cancel against claim, stale users | what was confirmed is what runs, once, to the end; a cancelled operation destroyed nothing |
| Deletion planner, account erasure, retention (`deletion_planner.py`, `account_deletion.py`, `retention.py`) | the user's own rows | plan and counts; prune, minimise, delete in batches; the scan that creates retention operations | decisions are taken from three reads and applied later, while syncs, generations and executions commit | history that was acted on is kept, nothing older cites what is gone, the counts are those confirmed |
| Scheduled briefs (`scheduled_briefs.py`) | `scheduled_brief_runs`, one per user and local day | dispatch tick, stale recovery, generation job; the instant of a local time | job enqueued before the row is committed, retries, clocks that change | one brief per user and day, none lost, at the time set |
| arq worker (`worker_app.py`) | the Redis queue | cron ticks and job bodies | see the components it calls | |
| Memory inference (`memory.py`, `memory_inference.py`, `memory_registry.py`) | one memory item per user with its evidence: candidate, confirmed, dismissed, superseded, expired; the explicit preference | recompute, confirm, edit, dismiss, delete, expiry of decayed candidates | a recompute reads before it locks, expiry never locks, the user acts on an older page | only what the user typed or was shown becomes a preference |
| Google synchronisation (`google_sync.py`, `google_sync_cursor.py`, `connectors/google_*.py`, `ingestion.py`) | cursor per account and feed, source items | windowed and incremental sync, continuation, full resync | bounded pages, expired histories, refused tokens, a failure after half the feeds | the committed position runs ahead of what was imported only where a listing passes something by |
| Brief composition (`detectors.py`, `extraction.py`, `extraction_llm.py`, `priority.py`, `brief_composition.py`, `proposal_composition.py`) | `signals`, `briefs` | rules, the model's additions, score, upsert, sections, status, candidates | rows outlive what they were found in; items come and go while the model answers; nothing deactivates a signal | what the rules find is in the brief, unless it is full of better; its status and its proposals say no more than it knows |
| Written days and times (`deadline_phrases.py`, `scheduling_phrases.py`) | none (pure) | due phrases, scheduling requests | ends of months and years, twelve o'clock, half-stated ranges | the day and the event that were written |
| Credential rotation and encryption (`credential_rotation.py`, `security/`) | key id beside each ciphertext; the deployed key ring | re-encrypt in batches, verify a retirement, gate the sign-in to Google | against consents, disconnects, refreshes, erasures and its own interruption | no token lost, none left on a retired key |
| Rate limiting (`rate_limiter.py`, `rate_limit_policy.py`, `rate_limit_deps.py`) | one token bucket in Redis per policy and subject | charge a token, refill, expire | expired buckets, outages, overrides, budgets that meet other time limits | the burst and then the rate, and an honest waiting time |
| OAuth initiation (`oauth_state.py`, `oauth_initiation.py`) | state and PKCE verifier in the signed session cookie | begin, callback | one browser's own data | |
| Retry and failure taxonomy (`retry.py`, `failure_taxonomy.py`) | none | classify, back off, give up | delays, a budget and a number of attempts bound each other | what may pass is repeated, nothing else, and not for ever |
| Sign-in, CSRF, preferences, privacy export, audit, evidence freshness, shell, LLM, demo data, web client, migrations and tests | | | presentation, configuration, I/O | |

The components interact through the database rows (proposals read account rows
at approve, execute and token acquisition; syncs store the items that signals
and proposals cite; deletion changes `account_state`, the accounts, the items
and, by cascade, proposals and executions; rotation rewrites the ciphertexts
that token acquisition reads), through Redis jobs (cron to worker, approvals to
memory recomputes), through the web client (which sends back the version and the
context it displayed) and by calls to Google.  `PROJECT.json` lists each
component with its status and, under `hazards`, every place in the code where a
test would hardly reach what can go wrong.

## 2. Plan

1. **ProposalExecution** with ConnectedAccount and ExecutionContext, the
   abstract specification ExternalAction, and the refinement. *Modelled, checked,
   proved.*
2. **DeletionEngine** and **ScheduledBriefs**: durable rows, a queue that may lose
   jobs, workers and a cron tick that die. *Modelled, checked, proved.*
3. **EvidenceDeletion**: what the running operation does to the rows, beside the
   requests that go on. *Modelled, checked, proved.*
4. **MemoryLifecycle**, **GoogleSync**, **Credentials**: one shared row each.
   *Modelled, checked, proved.*
5. **BriefPipeline**. *Modelled, checked, proved.*
6. **Rules** over **WrittenTimes**, **ProviderCalls** and **RateLimits**: the rules
   without state. *Modelled, checked, proved.*
7. Left to model: the address of an anonymous client behind proxies, and the
   sign-in.

The order is by what a user would lose: first what is written to somebody's
Google account, then what is erased, then what is delivered late or twice, then
what is said wrongly.  Runs are chosen so that each answers a question no other
run answers.
## 3. Modules and how they correspond to the code

`PROJECT.json` maps every definition to the lines it models.

### ExecutionContext
`ResolveExecutionContext(type, accounts, evidence)` is
`resolve_execution_context`. The code hashes the result; the model keeps the
record of the hashed fields, which is equal exactly when the hash is (collision
excepted).

### ConnectedAccount
The account row, `accountLock` (which execution holds it `FOR UPDATE`) and the
requests in progress. `store_tokens` and `disconnect` are two steps each,
because they write back an unlocked read; `Written` is SQLAlchemy's rule that
only changed columns are written. `RevokedBySync` is the refresh of a sync.

### ProposalExecution
`proposal` and `execution` are the committed rows, `rowLock` the row locks,
`worker` the approve and execute requests in flight, `sweep` what the periodic
sweep has selected, `screen` what the browser shows (the version, payload and
context a click sends back). `clicks` and `writes` are history: what the user
agreed to, and what Google has applied.

A request that locks its row first and reads nothing else that can change is
one action (`Edit`, `Reject`, `Replay`, `Invalidate`, `ExpireIfDue`). `approve`
is `ApproveBegin`, `ApproveCommit`, since an account read before the commit may
be stale at the commit. `execute` is `ExecuteBegin`, `Checkpoint` (the durable
pending attempt, after which no proposal lock is held), then by context
`RunSimulated`, or `RefusedByRegistry`, or `AcquireToken` (lock and compare the
account row), `ProviderCall` (applied or not, answered or not), `Verify`, and
`Finish`. `Crash` ends a request at any step. The stale-attempt sweep is
`SweepSelect` and `SweepCommit`, without locks, as in the code.

Time is two flags per row: `Lapse` (the proposal is due) and `Age` (an attempt
is older than `STALE_PENDING_AGE`). `Age` may come while the attempt is still
running: 120 s are less than the sum of the timeouts of a token refresh, a
write and a read-back behind a lock, so the race with the sweep is real.

### ExternalAction
The abstract promise, one variable: content is offered, agreed to, attempted at
most once, applied at most once, reported done only if applied (or simulated)
and refused only if not. `Pipeline` in ProposalExecution is the refinement
mapping.

### DeletionEngine
`row` is the table, `plan` what the planner would decide now (a model value:
two plans differ when the fingerprint does), `jobs` the queue as a count per
operation, `worker` the arq job slots, `tick` the cron tick with what it has
changed but not committed, `handler` the requests in flight with the user they
loaded, `screen` the preview the user looks at.

* A preview that finds an active operation returns it (`PreviewReused`);
  otherwise the records are read once for the counts (`PreviewCounted`) and
  again for the fingerprint (`PreviewCreated`): separate statements.
* `confirm_operation` locks the row: `ConfirmAccepted`, `ConfirmRefused`, or the
  plan has changed and the preview is refreshed, again by two readings
  (`ConfirmFindsChange`, `ConfirmRefreshes`).
* `cancel_operation` does not lock: `CancelRead`, `CancelCommit`. Both write
  `account_state` on the user loaded when the request began, so `Assigned`
  decides whether the column is written at all.
* The worker takes a job (`TakeJob`), claims by one conditional `UPDATE`
  (`Claim`), commits one batch at a time with the cursor (`Batch`), and ends
  (`FinishRun`). A run that finds the account deleted, by another operation, ends
  at once (`Moot`). `WorkerDies` at any step; the job is not run again.
* The tick: `RetentionScan` (its own commit), then `TickBegins` selects stale
  running rows, `TickGivesUp` or `TickRequeues` each (the job is pushed *before*
  the commit), `TickFlushes` (the second `SELECT` flushes the changes and so
  locks the rows), `TickDrains` never-enqueued ones, `TickCommits`. `TickDies`
  loses the changes, not the pushed jobs.
* `HeartbeatAges`: `heartbeat_at` is the time the job started and is assigned
  again unchanged at every batch (`deletion.py:546`), so what keeps a live
  run's heartbeat fresh is only that arq ends the job (300 s) before the
  default timeout (10 min). `TimeoutCoversJob` says so; the setting accepts any
  positive number of minutes.

### ScheduledBriefs
A slot is a user and a local date. `row` is its committed run, `due` where now
is relative to the scheduled instant, `jobs` what Redis knows of each job id
(slot and attempt): queued, taken, or kept for an hour after the job ended; in
all three an enqueue of the same id is refused, which the code counts as
enqueued (`Pushed`). `worker` is the job slots, `tick` the cron tick with what
it has changed but not committed. `briefs` and `belated` are history.

* A tick is one transaction: `TickPlans` (`plan_dispatch`), `TickEnqueues` per
  new run, `TickSelectsStale`, then `TickGivesUp` or `TickRequeues` per stale
  run, `TickSelectsPending` (the flush before it locks the recovered rows),
  `TickDrains`, `TickCommits`. Every push precedes the commit, so each is a step
  that workers can overtake. `drawn` counts the row ids drawn: after `TickDies`
  the next row for the slot is another row, and the job pushed for the first,
  whose id it uses up, finds nothing.
* A job is `TakeJob`, `Claim` (a conditional `UPDATE` by row id), `CheckRun`, then
  `GenerationSucceeds` (brief and run in one commit) or `GenerationFails`. A
  retry is two commits: pending without `enqueued_at`; then, after `PushRetry`,
  `MarkEnqueued` by primary key. `WorkerDies` at any step.
* `StartAges`: a run turns stale only when no live job generates it, since arq
  ends a job after 300 s and `STALE_RUNNING_THRESHOLD` is ten minutes.
* `ScheduleMoves` puts `due` anywhere, at any time: the clock, or the user
  setting another briefing time or time zone.

### EvidenceDeletion
What a confirmed operation of DeletionEngine does to the user's data. `stored`
is the imported items with the day they came, `signal` and `proposal` the rows
that cite them (a proposal with its execution), `op` the cursor and the batch in
progress, `counts` what is reported and `plan` what was confirmed, as long as
nothing else has moved. Both have the code's categories: a pruned signal is planned as
`recomputed` and a pruned proposal as `pruned`, and both are reported as `pruned`.

* The batch that decides reads the evidence (`ReadsEvidence`), then the rows
  (`Classifies`), then writes (`AppliesDerived`, for an account
  `AppliesMinimise`): others commit in between. `Assigned` is again SQLAlchemy's
  rule for unchanged columns. `DeletesSources`, `ErasesCredentials`,
  `ErasesProduct` and `Finalises` are one step per batch. `Claims` fixes the
  time retention computes with, so each attempt has its own cutoff; `Dies` rolls
  the batch back.
* Beside it run one sync, one generation and the proposal's requests. An account
  under deletion admits nothing new, but what was admitted before goes on
  (`admitted`).
* Contents are `old` (before the decision about the row) or `late`, which is
  all that the properties tell apart.

### MemoryLifecycle
`draft` is the edited drafts as the rescan sees them, `item` and `evidence` the
rows, `job` the recomputes, `expiry` who is about to expire a candidate, `seen`
what the API last showed, `agreed` the history of what the user accepted.

A recompute is `Gathers` (the drafts, without a lock) and `Reconciles` (the item
locked, `Reconciled` its new state). Expiry, by a read of the API or by the daily
pass, is `ReadsStale` and `WritesExpired`. `Confirm`, `Edit`, `Dismiss` and
`Delete` carry the version of the view the user looks at (`Loaded`). The clock
counts half-lives, in which the confidence is exact.

### GoogleSync
A mailbox is the sequence of its changes and a position in it stands for a
historyId or a syncToken. `cursor` is `GoogleSyncCursor`: what is committed, and
a continuation's token with the listing (`base`) it belongs to. A request
`Reads` the account, `Locks` the row, lists pages (`ListsPage`), resolves them,
may be refused a token or history and restart (`IsRefused`, `Restarts`), reads
the profile's position when a Gmail window is complete, and `Commits`. A calendar
window ends at `until`, as it was at its first page (`BaseOf`, kept in the base of a
continuation as `encode_window` does): what is `ahead` of it is not listed, and is
no change when its day comes near (`Nears`). `exposed` and `overlooked` are history:
what the two kinds of window have passed by.
`CalendarFails` commits the mail alone. `Arrives`, `WindowMoves`, `Nears`,
`HistoryExpires` and `Goes` are Google's and the clock's.

### Credentials
Configuration 1 holds the old key, 2 the new one and the old to read, 3 the new
one only; `Deploys` moves on and ends the requests of the process it replaces.
`row` has envelope and key id per field. A consent or disconnect (`Begins`, then
`Stores` or `Disconnects`) writes an unlocked read; a token refresh holds the
row. The rotation script is `BeginsRotation`, `SelectsBatch` (skips locked
rows), `CommitsBatch` (a row one of whose fields cannot be opened is blocked,
what was migrated stays), `EndsRotation`, `Interrupted`. `Verifies` is
`verify_key_retirement_safe`, `ClearToConnect` the connection gate.

### BriefPipeline
`stored` is the items, `signals` the table, `work` the generation in progress,
`brief` what the last step committed with what it was composed from. A generation
`Begins` (reads the items), `Extracts` after the model has answered or failed
(rules, deduplication, score, upsert, then as many signals as `list_ranked` gives,
by score, and the items, read again), and
`Commits` brief and proposals; `CommitsSignals` is the failure after the first
commit. `Syncs` and `Removes` go on meanwhile. `Detected`, `Score`,
`ComposeSections`, `BriefStatus` and `Candidates` are the rules as operators over
an item's attributes. A model's answer is up to `MaxClaims` claims, one for each key
(`deduplicate` would drop a second). A claim cites a set of items; `repeats` says
which of them are in its list more than once, because the key is of the list.

### Rules
The rules that keep no state, one case per behaviour: `written` is the case and
`reading` what the rule made of it. The operators are in three modules, and the
properties in Rules state what they must mean independently of the code.

* **WrittenTimes**: `ParseDuePhrase` of what the patterns found in an email,
  `ParseSchedulingRequest`, and for a briefing time `ResolveLocal` and `Planned`,
  over zones whose offset changes once.
* **ProviderCalls**: what an HTTP status or none is taken for (`GmailAnswer`,
  `CalendarAnswer`, `TokenAnswer`), what may be repeated and when it is given up
  (`RetryRead`), the comparison of what Google stored with what was approved
  (`DraftMatches`, `EventMatches`), and the outcome of the two executors
  (`CreateDraft`, `InsertEvent`). What Google has done is not read off
  that classification but off the status (`Told` in Rules): done if accepted, not done
  if rejected with a 4xx, and open after 408, 429, any 5xx and no answer.
  ProposalExecution has the same call with its outcomes chosen freely, as one step
  among other requests.
* **RateLimits**: the sixteen policies, their overrides, and the script over a
  sequence of requests, between which Redis may be unreachable or answer late.
  The script is atomic in Redis and reads its clock, so requests of one subject
  are a sequence.

### Abstracted
Payloads, plans, accounts and rows are members of small sets. Audit rows,
metrics, logs and messages are left out. Module by module:

* DeletionEngine, ScheduledBriefs: a cron tick does not overlap the previous one,
  a request is shorter than the ten minute heartbeat timeout (statement timeout
  10 s), a missed insert race rolls back (`RequestFails`), a tick that would find
  nothing to do is left out. What a batch does to single records is in
  EvidenceDeletion, the resolution of a local time in WrittenTimes.
* EvidenceDeletion: briefs, runs, preferences and memory rows go with the
  signals; of retention's age rules only that of proposals is modelled, its later
  second read merged with the classification; revocation is in DeletionEngine;
  time passes only for retention; an execution's terminal outcomes are one.
* ProposalExecution: `Generate` takes any ranking and content (BriefPipeline
  shows which ones there are); the policy's refusal of an event or due time that
  has passed is a refusal the model may take at any time.
* BriefPipeline: one generation at a time (two wait for each other at the rows
  both write); a changed item counts as another item; times are half days;
  summaries enter only as `Sentences`, the ones a prose may say.
* GoogleSync: a page holds one item; the row lock serialises the requests; an
  item is its position, and its later changes are later positions.
* Credentials: AES-GCM opens an envelope exactly when the key is in the ring.
* ProviderCalls: subjects are the number of their "Re:" and a text, addresses
  are already lower case and stripped; a body that cannot be parsed is outside
  the errors that the code catches and is not modelled.
* RateLimits: times are whole seconds, where Redis has microseconds; a token is
  counted in parts of 1/window, where the script has floating point.
* WrittenTimes: an email is read on its writer's clock, in a zone without clock
  changes; a text is the set of what the patterns match.
## 4. Runs

Deadlock is checked where the modelled system always has something left to do.
`CHECK_DEADLOCK FALSE` is said where an instance ends: in the deletion,
synchronisation, memory and credential runs when every row, item or run the
bounds allow is used up, in `rules` after the one reading.

| Run | States | Instance and why it is enough | Shows |
|---|---|---|---|
| `proposal_lifecycle` | 1,031,630 | one real proposal, two contents, up to 3 versions, two requests, one account request, two consents; `OldEvidence` puts its evidence beyond the 1,000 newest | One real proposal, two approve or execute requests at a time, one account request, the sweep and crashes: what is written to Google, under which authorisation, and what the rows say of it. |
| `proposal_pair` | 93,050 | a real and a demo proposal of one type and one request: the smallest in which a pass ranks one against the other; small enough for liveness | A real and a demo proposal of one type: the demo one never reaches Google, a generation pass fills one slot, and the pipeline implements ExternalAction; under the fairness of timeouts and of the per-minute sweep every pending attempt is resolved and the account row is released. |
| `deletion_lifecycle` | 928,480 | account deletion, two requests, two plans, versions up to 2: the confirmation of one version against the refresh by another tab | An account deletion with two concurrent requests, changing plans, expiring previews, jobs and crashes: what a confirmation binds and what a cancellation ends. |
| `deletion_workers` | 147,634 | each of the three kinds in turn, two job slots, two attempts, two batches, two faults: the first at which a run is resumed, repeated or refused | Operations of every kind with two job slots, duplicated and lost jobs, dying workers and cron ticks: one run at a time, resumed where it stopped, tried a bounded number of times, and ended or recovered under the fairness of the cron and of timeouts. |
| `briefs_dispatch` | 138,000 | one date, two job slots, two attempts, two faults | One user's date with two job slots, moving schedules, failing pushes, lost and duplicated jobs, dying workers and ticks: one brief at most, a bounded number of attempts, and no run left running or without a job. |
| `memory_lifecycle` | 1,210,412 | two drafts, two sign-offs, two recomputes at a time, `RescanLimit` 2, one half-life, two approvals, two runs: an older recompute after a newer one | One user's sign-off memory with two edited drafts, two recompute jobs, the unlocked expiries and a user who acts on what was shown before: what may become a preference, what a recompute does to it, and that decayed candidates end. |
| `google_sync` | 715,748 | either feed, one mailbox, two syncs, one page each, two items, either of which may lie beyond the end of the calendar window, one fault, one item that is gone | Either feed with two sync requests, one page a sync, a moving and forgetting mailbox, refused tokens and failures: the committed cursor runs ahead of what was imported only by what a listing passes by (`exposed`, `overlooked`), never goes back, and repeated syncs import the rest of the window. |
| `credentials` | 376,348 | two accounts, two tokens, one handler, batches of 1, an account on a lost key: a blocked row before or behind another | Two accounts, one possibly on a lost key, a consent or disconnect, token refreshes and erasures beside the rotation script over the deployment and the retirement of a key. |
| `rules` | 160,410 | deadlines: every phrase from days about the ends of months and years; requests: every combination of clocks; briefings: every hour about five changes of the clocks; calls: every status that the clients tell apart and three that they do not, 408, 501 and 505, each refresh and stored copy; reads: six answers in a row; limits: five requests at and about each refill and expiry, under six policies | The rules that keep no state, case by case: deadline phrases from every part of the year, every combination of the parts of a scheduling request, briefing times on days on which the clocks change, Google's answers to tokens, writes, readings back and repeated reads, and bursts of requests under the limits. |
| `brief_pipeline` | 236,718 | eleven items in six pools, each pool a pair or a few that meet in one rule, two moments six days apart, `SourceLimit` 2, `SignalLimit` 2, answers of up to two of five claims: the first that add to each other, meet a rule or fill the brief | Mail and events arriving, being deleted and imported again around generations with a model that adds, duplicates, cites an email twice or fails, beyond the limits of items and signals read: what the brief holds, what it says of itself and what it proposes. |
| `evidence_deletion` | 804,069 | two items of two accounts, one citing row, an operation confirmed on day 1 and followed to day 3, batches of 1, one death: a decision, a batch and a resumption, each with the other writers in between | Each of the three kinds of deletion over two items of two accounts with a signal or proposal citing them, beside one sync, one generation, the proposal's requests and a death of the worker. |
| `evidence_race` | 40,599 | the same | An execution that begins after the deletion has classified its proposal is deleted with it, while the call to Google is under way. |

A property named `...Inv` is the conjunction of the named invariants above it in
its module, the type invariant among them.

Bounds, all named constants: `MaxVersion` (edits and renewals of a proposal,
refreshes of a preview), `MaxConsents`, `Batches`, `MaxAttempts` (the code's
setting, 3 by default; 1 and 2 are used), `MaxFaults` (failed enqueues, deaths of
the tick, failed syncs), `MaxCrashes`, `MaxItems`, `MaxGone`, `MaxClock`,
`MaxApprovals`, `MaxRuns`, `MaxClaims` (50 in the code's schema), `CountBound` (of the
items counted). A second version,
consent, attempt, batch, page or recompute is each the first at which the
comparison in the code can go wrong; a third repeats it. `WindowPages`,
`HistoryPages`, `RescanLimit`, `SourceLimit`, `SignalLimit` and `BatchSize` are the code's own
limits made small enough to be reached; `ItemHorizon` and `ProposalHorizon` are
its retention periods in days of the model. Symmetry is used only without
temporal properties.

**Fairness.** In ProposalExecution: weak fairness of a request's next step
(every await has a timeout: connect 5 s, read 10 s, write 20 s, statement 10 s)
and of time (`Age`); the sweep runs every minute, weakly fair to start, strongly
fair to commit (it may crash, not every time). In DeletionEngine: weak fairness
of the tick, of each job slot and of a request in progress; strong fairness of
the ageing of a heartbeat, since new requests for the row keep interrupting it
in the model though not in time. In ScheduledBriefs: weak fairness of the tick,
of each job slot and of `StartAges`; Redis and the cron process fail at most
`MaxFaults` times. In MemoryLifecycle: the daily pass only. In GoogleSync: a user
who syncs again and again, and requests that proceed; faults are bounded. In
Credentials: an operator who starts the script while it has something to do, and
strong fairness of its batches, which are interrupted but not every time. In
EvidenceDeletion: the job, which recovery restarts. Nothing else makes a user
act, and no crash is fair. BriefPipeline and Rules assume none.

**Mutants.** Each property of a passing run has a faulty variant of a definition
(commented *Faulty* or *Mutant* beside the original) under which TLC finds it
violated.

## 5. Findings

`evidence_race` is a run in which TLC reaches a step that contradicts the source.
`deletion_planner.py:19` says "a pending or uncertain ActionExecution is never
deleted". The minimise phase of an account erasure reads each proposal with its
execution (`account_deletion.py:285`) and deletes those without one; so does the
derived phase of the other kinds (`deletion_planner.py:377`). An execution that
was admitted before and commits its pending attempt in between is deleted by the
cascade (`models.py:609`) while the call to Google is under way: the draft or
event exists and nothing records it.

### Further statements the model refutes
These are defined in the modules and are not among the runs. To see the
counterexample, put the definition in place of the properties of the
configuration named, with the change given.

| Definition | Where | Configuration | What happens |
|---|---|---|---|
| `OutcomeIsKept` (action property) | `action_proposal_service.py:887` | `proposal_lifecycle` | the sweep selects without `FOR UPDATE` and writes by primary key: a `succeeded` recorded in between becomes `uncertain` |
| `NoWriteUnderLaterConsent` (action property) | `accounts.py:117` | `proposal_lifecycle` with `Handlers = {h1, h2}` and `h2` declared | two concurrent consents share one revision increment, so an approval given after the first still matches after the second |
| `DisconnectedHoldsNoTokens` (invariant) | `accounts.py:168` | the same | a consent loaded before a disconnect commits its tokens into the disconnected row, whose status it does not write |
| `ReloadIsEnough` (invariant) | `action_proposals.py:331` | `proposal_lifecycle` | a GET resolves the context from the 1,000 newest sources, approve from all of the proposal's; once the evidence is older, "reload it" never helps |
| `OneActivePerType` (invariant) | `action_proposal_service.py:273` | `proposal_pair` | a new candidate ranked above a live proposal is created beside it; `docs/delivery/reports/stage-07.md:104` says one active proposal per type |
| `NothingDestroyedWhenCancelled` (invariant) | `deletion.py:377` | `deletion_lifecycle` | a cancellation overtaken by the claim is committed over a running operation, whose batches go on |
| `FailedEnqueueIsRetried` (action property) | `deletion.py:466` | `deletion_workers` | recovery leaves the old `enqueued_at`, so when its enqueue fails the drain never sees the row |
| `DeletedHoldsNoTokens` (invariant) | `account_deletion.py:209` | `deletion_lifecycle` | an account connected during `deletion_pending`, after the credentials phase, keeps its tokens in the deleted account |
| `PendingIsUntouched` (invariant) | `deletion.py:466` | `deletion_workers` | an operation recovered after some batches is pending, and cancellable, again |
| `AbandonedIsRestored` (invariant) | `deletion.py:387` | `deletion_lifecycle` | a cancel whose user was loaded before the confirmation does not write `account_state`: the account stays blocked |
| `ErasureIsBlocking` (invariant) | `deletion.py:387` | `deletion_lifecycle` with two rows (`Ops <- TwoOps`) | a late duplicate cancel of a first operation makes the account active under a second, confirmed one; it can even write `active` over a deleted account |
| `NewPreviewIsCurrent` (invariant) | `deletion.py:212` | `deletion_lifecycle` | a new preview request returns the expired one |
| `ConfirmedAsReviewed` (action property) | `deletion.py:232` | `deletion_lifecycle` | counts and fingerprint of a preview come from different moments, and the confirmation accepts a plan nobody was shown |
| `SucceededDidTheWork` (invariant) | `account_deletion.py:201` | `deletion_workers` with `Ops <- TwoOps`, `Scopes = {"account"}`, `Batches = 0`, `MaxVersion = 1` | the worker "processes bounded batches ... until done, and finalises" (`deletion.py:523`): a second operation on an account that a first one has erased meanwhile succeeds at once, in the middle of its phases. `SucceededIsComplete` allows for it |
| `OneWorkerPerOperation` (invariant) | `deletion.py:546` | `deletion_workers` with `TimeoutCoversJob = FALSE` | with a heartbeat timeout below arq's job timeout a live run is recovered and claimed again |
| `PendingIsPickedUp` (temporal) | `deletion.py:477` | `deletion_workers` | a job lost before the claim leaves the operation pending for ever |
| `NothingDangles` (invariant) | `deletion_planner.py:154` | `evidence_deletion` | "never keep a dangling reference to deleted content": a generation that read the items before stores rows citing them again |
| `HistoryStaysReadable` (invariant) | `deletion_planner.py:20`, `action_proposals.py:298` | `evidence_deletion` | a minimised proposal "stays explainable", but its empty payload does not parse, and one such row fails the whole of GET /action-proposals |
| `SupportedSignalsStay` (action property) | `deletion_planner.py:152` | `evidence_deletion` | evidence imported between the two reads does not count as surviving, and the signal is deleted |
| `SourcesAsDecided` (action property) | `deletion_planner.py:308` | `evidence_deletion` | retention's cutoff moves with the attempt, and a sync begun before the snapshot stores an item that looks older: items are deleted that no decision covered |
| `EachCategoryIsAsPlanned` (invariant) | `deletion_planner.py:348`, `:274`, `:280` | `evidence_deletion` | "preview counts equal what actually happens" (`:253`), they "can never disagree with what the worker actually does" (`:6`): a signal that keeps some evidence is planned as `recomputed_signals` and reported as `source_reference_removed`, the category under which a proposal that does is planned. `PlanIsWhatHappens`, which holds, speaks of the sum of the two. The executions of an erased account have two names likewise (`account_deletion.py:143`, `:307`) |
| `ErasedHoldsNothing` (invariant) | `account_deletion.py:266` | `evidence_deletion` | a generation admitted before the confirmation stores signals after theirs were erased |
| `PendingRunIsPickedUp` (temporal) | `scheduled_briefs.py:334` | `briefs_dispatch` | a job taken before the tick has committed its row, or whose worker dies before the claim, leaves the run pending with `enqueued_at` set; only rows without it are drained. The owner validation reports such a crash as "job remains claimable, no loss" |
| `NeverGeneratedLate` (invariant) | `scheduled_briefs.py:323` | `briefs_dispatch` | a run created in time whose job is delayed is generated more than six hours late; ADR 0004 D49 says "Beyond 6 hours, the run is recorded `skipped` and never generated" of a late tick, and nothing looks at the hour again |
| `CatchesUp` (invariant) | `scheduled_briefs.py:229` | `rules` | ADR 0004:181 promises six hours; the window ends at local midnight, and nothing is recorded then |
| `ShownIsDispatched` (invariant) | `scheduled_briefs.py:467` | `rules` | the next run shown to the user is never planned when the clocks skip the end of its day |
| `StatedClockStands` (invariant) | `scheduling_phrases.py:7` | `rules` | "nothing is ever guessed": "from 9:00 to 10 pm" is read as 21:00 |
| `OtherPhrasesAreRead` (invariant) | `deadline_phrases.py:78` | `rules` | an unusable ordinal ends the search: "by the 45th" hides "tomorrow" |
| `ServerErrorsAreUncertain` (invariant) | `google/errors.py:29`, `google/gmail_client.py:124`, `google/calendar_client.py:110` | `rules` | of "429, or 5xx": "the call's true outcome is unknown. Maps to ExecutionOutcome.uncertain, never to failed". Of the 5xx the clients list 500, 502, 503 and 504; another one, 501 or 505, is recorded as failed even if Google has done the write. `OutcomeIsHonest`, which holds, leaves these and 408 out by name (`Unlisted`) |
| `NeverEvictedEarly` (invariant) | `rate_limit_policy.py:67` | `rules` | "a bucket mid-refill is never evicted early": with an override whose burst takes more than two windows to refill, the expiry restores the whole burst |
| `ReconfirmIsInTime` (invariant) | `privacy_deletion.py:217` | `rules` | "review the refreshed preview": the confirmation that was answered so, or mistyped, has spent the one token, the next comes after eight hours, and the preview expires after 30 minutes |
| `RecomputeIsIdempotent` (invariant) | `memory_inference.py:200` | `memory_lifecycle` | the docstring's idempotence holds from the second recompute on only |
| `ConfirmedIsNotExpired` (action property) | `memory_inference.py:341`, `worker_app.py:178` | `memory_lifecycle` | the expiry selects a candidate without a lock and writes it after the user has confirmed it |
| `DismissalSticks` (action property) | `models.py:699` | `memory_lifecycle` | the fingerprint of a dismissal names the contributing drafts, so that one of them leaving brings the suggestion back without new evidence |
| `NoMessageSkipped` (invariant) | `google_sync_cursor.py:14`, `connectors/google_email.py:271` | `google_sync` | "fully, genuinely completed through": the position is read after the window was listed, and mail that came in between is behind it |
| `NoEventSkipped` (invariant) | `google_sync_cursor.py:14`, `connectors/google_calendar.py:174` | `google_sync` | the same of events: the listing ends 30 days ahead and its token reports changes only, so an event that lay beyond is not imported when its day comes near, unless it is changed or the token expires |
| `NothingSkipped` (invariant) | `google_sync.py:124` | `google_sync` with `Mailboxes = {m1, m2}` | the cursor of one Google account is used with another one's tokens |
| `NothingUnversioned` (invariant) | `models.py:359`, `credential_rotation.py:167` | `credentials` with `Handlers = {h1, h2}` | a consent whose key id equals the one it loaded does not write it, although a disconnect has cleared it meanwhile: an envelope without a key id, which no rotation selects |
| `RotationEnds` (temporal) | `rotate_credential_keys.py:117` | `credentials` | a blocked row counts as processed in every batch, and rows in front of the others keep them from being reached |
| `OneRowPerMatter` (invariant) | `extraction.py:30`, `extraction_llm.py:93` | `brief_pipeline` | "a deterministic signal always beats an LLM duplicate" (`extraction.py:35`): the key hashes the list of references, and a claim that cites an email twice has its own row beside the rule's |
| `BriefHasTheRules` (invariant) | `extraction.py:5`, `repositories.py:217` | `brief_pipeline` | "the product's floor": a brief reads the thousand signals of the highest scores, nothing retires one, and beyond that a rule's signal of today may be missing |
| `WaitingMeansNoReply` (invariant) | `detectors.py:434` | `brief_pipeline` | "nothing has arrived in that thread since": a follow-up stays listed when the answer arrives, nothing deactivates a signal |
| `UpcomingIsToCome` (invariant) | `brief_composition.py` | `brief_pipeline` | "Today and upcoming" lists meetings that are over |
| `BulkNeverActs` (invariant) | `detectors.py:27` | `brief_pipeline` | "never yield actionable signals": the model's claims about a newsletter are not asked |
| `RulesAreNotReplaced` (action property) | `detectors.py:5` | `brief_pipeline` | the model "may only ADD": it overwrites a row that the rules no longer find |
| `OmittedMeansGone` (invariant) | `brief_composition.py:420` | `brief_pipeline` | evidence is called unavailable when it is only older than the newest 1,000 items |
| `ConflictsShowBoth` (invariant) | `detectors.py:388` | `brief_pipeline` | after one event was deleted and imported again the row keeps the pruned evidence |
## 6. Proofs

Proved with TLAPS, for every value of the constants that satisfies the named
assumptions (bounds only restrict; proposals, operations, dates, workers,
handlers, payloads, items and batch sizes are arbitrary):

| Theorem | Property | Inductive invariant, states on which TLC checked it |
|---|---|---|
| **ProposalExecutionProofs** | | |
| `TypeCorrect` | `TypeOK` | `TypeInv` |
| `WrittenAtMostOnce` | `AtMostOneWrite`: no interleaving of requests, crashes, replays and sweeps writes twice for a proposal | `ExecutionInv`, 1,031,630 and 93,050 |
| `RecordNeverLies` | `RecordIsTruthful` | the same |
| `WrittenUnderLiveAuthorisation` | `WriteUnderLiveAuthorisation` | the same |
| `FinalStays` | `FinalIsFinal` | the same |
| `WrittenAsAgreed` | `WriteWasAgreedTo` | `AgreementInv`, the same |
| `ApprovalsStand` | `ApprovalStands` | `PromiseInv`, the same |
| `SimulationsNeverWrite` | `SimulationNeverWrites` | the same |
| `PassesFillOneSlot` | `OneSlotPerPass` | the same |
| `PromiseIsKept` | `KeepsThePromise`: the pipeline refines ExternalAction | the same |
| **DeletionEngineProofs**, if `TimeoutCoversJob` | | |
| `OperationsAreSound` | `DeletionInv` | `EngineInv`, 928,480 and 147,634, and 1,737,968 with two operations of one account (the configuration of `SucceededDidTheWork` in section 4, `MaxFaults = 0`) |
| `CursorsAdvance` | `ProgressIsKept` | the same |
| `DecisionsAreKept` | `DecisionsStand` | the same |
| **SchedulingProofs**, of ScheduledBriefs and Rules | | |
| `DatesAreSound` | `RunsInv` | `DispatchInv`, 138,000 |
| `EndedRunsAreFinal` | `EndedRunsStay` | the same |
| `BriefingsAreOnTime` | `BriefingIsTheFirstInstant` | `RulesInv`, 160,410 (its equations): what is read is what the rule makes of the case |
| `EventsAreStated` | `PreparedEventIsStated` | the same |
| `DeadlinesAreFirst` | `DueIsTheFirstDayMeant` | the same |
| `CallsAreHonest` | `CallsInv` | the same |
| `BudgetsAreHeld`, if `WindowsAreKept` | `BudgetsHold` | the same |
| **EvidenceDeletionProofs** | | |
| `OnlyLateLeftovers` | `LeftoversAreLate` | `EvidenceInv`, 804,069 |
| `HistoriesAreKept` | `SeenHistoryIsKept` | the same |
| `PlansAreKept`, if `CountsFit` | `PlanIsWhatHappens` | `CountsInv`, the same |
| **MemoryLifecycleProofs** | | |
| `SignoffsAreConsented` | `OnlyConsentedSignoffs` | `LearnedInv`, 1,210,412 |
| `MemoryIsSound` | `MemoryInv` | the same |
| `RecomputesSettle` | `RecomputeSettles` | the same |
| **GoogleSyncProofs**, if `OneMailbox` | | |
| `NothingIsSkipped` | `CursorInv` | `SyncInv`, 715,748 |
| `CursorsGoForward` | `CommittedNeverGoesBack` | the same |
| **CredentialsProofs** | | |
| `KeyIdsNeverMislead` | `NoKeyIdMisleads` (part of `KeysInv`) | `RowsInv`, 386,865 with two handlers |
| `RotationsKeepTokens` | `RotationKeepsTokens` | the same |
| `KeysAreTrusted`, if `OneHandler` | `KeysInv` | `SerialInv`, 376,348 |
| **BriefPipelineProofs** | | |
| `StatusesAreHonest` | `HonestStatus` | `BriefInv`, 236,718 |
| `ProposalsHaveReasons` | `ProposalsAreExplained` | the same |
| `SignalsAreTheRules` | `SignalsInv` | the same |

None of the properties is inductive by itself: a state that satisfies it need not
be reachable, and its successors may break it.  Each module therefore begins with
an invariant that says why the property holds.  It was first checked by TLC on
the instances of the runs, then proved: the initial states satisfy it, every
action preserves it (one lemma per action, one step per conjunct the action can
disturb), and the property follows from it, or, for an action property, from it
and one step.

### The arguments

*Exclusion* (ProposalExecution). That a second write is impossible follows
from who can be about to write. `ExecutionInv` (`RowsLockedByJobs`,
`AttemptsAreRecorded`, `SweepIsRecorded`, `ReadsStand`, `AttemptsStand`,
`OneAttempt`, `KnowsItsWrite`, `AccountIsHeld`) says that at most one request per
proposal is past its checkpoint, that such a request's proposal is `executing`
with an attempt row carrying its snapshot, that nothing has been written before
its call and exactly its own content after it, that a result it carries is one
the world agrees with, and that a request between the token and the final commit
holds the account row, which still equals what it compared. The attempt row is
the pivot: it is created under the row lock and never deleted, so `Executable` is
false ever after, whatever dies. The sweep only moves an attempt to `uncertain`,
which no conjunct relies on.

*Agreement*. `AgreementInv`: a stored approval, a snapshot in a request's hands
and the snapshot of an attempt each have a click of the user with the same
version, payload and context. It is preserved because `clicks` only grows and
the snapshots are only copied.

*Promise*. `PromiseInv` adds what the refinement needs: a version number names
one content, an approval that stands is for the content of its row, a proposal
whose evidence has no Google account is judged a simulation wherever the
judgement is carried (row, request, attempt). Then every step of the pipeline is,
for each proposal, a step of ExternalAction or leaves its image as it was: a
click is its agreement, the checkpoint its attempt, the call its application,
`Finish` or the sweep its report. A step that moves two proposals, a generation
pass, is a step of `Next` of the abstraction because it is quantified per
proposal.

*DeletionEngine, ScheduledBriefs*. That a row has one worker is a statement about
time: recovery takes up only what is stale, and a row does not go stale under a
worker. `EngineInv` says a running worker's row is running or cancelled, not
stale, and has the worker's cursor (`RunsAreCurrent`), that two running workers
have two rows (`RunsAreApart`), and that what a tick has chosen stays stale until
it commits (`RecoveryIsCurrent`), although the tick pushes its jobs before. So a
claim, which takes only a pending row, finds no other worker. `ScreenIsCurrent`
and `RequestsAreCurrent` carry the version and the fingerprint that the user was
shown: a refresh moves both, hence equal versions mean the same plan.
`DispatchInv` is the same argument for dates, with the row ids that make a job of
a rolled-back tick find nothing.

*EvidenceDeletion*. The operation reads, and writes later what it computed from
what it read. `SeenIsSound` says how a row may differ from what was read: only by
a content that is late (`Since`), because requests write new contents and never
put an old content or reference back. Before the decision every content is old
and every reference there (`UndecidedIsFresh`); after it what is not late is
pruned (`DecidedIsPruned`). That the columns SQLAlchemy does not write
(`Assigned`) do no harm is the core of the step: the column that was not written
is the one that is already as decided, or late.

That the counts are the plan (`CountsInv`) is a balance: as long as nothing else
has moved since the plan, what has been counted and what is still there to be
counted make up the plan, set by set; what is pruned is one category of what is counted and
two of the plan. A batch whose transaction dies takes its
rows and its counts back together; a request that moves a row in scope clears
the plan, after which nothing is promised.

*Rules*. A reading of a clock has at most two instants, one for each offset. The
first instant at which a zone's clock is at or past a time is the earlier of
those that read so, if there is one; if there is none the clock jumps over the
time, and it is the instant of the jump (`BriefingsAreOnTime`). What an
event states is read off the parts of the text, one case for each way of filling
in a missing half of the day; a clock is read as a time that it can mean
(`EventsAreStated`).

A deadline is read off the calendar: the months follow on each other without a gap,
so a day lies in exactly one (`SomeMonth`, `OneMonth`); the day a phrase resolves to
fits it, and the days before, of the same week or month or the rest of it, do not
(`DeadlinesAreFirst`). A repeated read and a row of requests are recursive
functions. That a function with the stated values exists is shown by refuting the
least number of steps without one (`SumsExist`, `ToldExists`), which the prover can
follow where it cannot follow an induction; and what is claimed of every step is
shown to have no first exception. `CallsAreHonest` then needs that the call at
which a read stops is the first that may stop it. For `BudgetsAreHeld`, what a
bucket holds plus what has been admitted grows by the rate at most (`OneRequest`):
also when the key expires, because the buckets of every policy of the registry are
full by then (`RegistryIsKept`). A refusal's waiting time is the quotient rounded up, before
which a token is not there and at which it is (`WaitsAreExact`).

*MemoryLifecycle*. A version of the item has one value, so a confirmation
that carries the item's version confirms what the page showed (`ViewIsCurrent`). A
job's observations are at most one for each draft, whatever becomes of the drafts
(`OneEach`). That the dominant value exists, and is the same the third time, is
proved for any finite set of observations: `FiniteTop` finds the top of a finite
total preorder in the well-founded order of its subsets, which takes the place of
an induction over the size of the set.

*GoogleSync*. A sync past the row lock is alone (`OneSyncRuns`) and the cursor it
loaded is the stored one. What a listing has shown up to its token is in its
hands or imported (`TokenFits`), below its base nothing is left to do
(`BaseFits`); so a complete listing has everything from its base to its final
position (`ListingEnds`), and the cursor may be committed there. `CursorInv` leaves
out what a listing passes by: `exposed` and `overlooked` say exactly what, and that
there is such a thing is refuted for each (`NoMessageSkipped`, `NoEventSkipped`).

*Credentials*. A batch holds the rows it loaded, so what it overwrites is what it
read (`LocksHold`); what a handler found is what it writes back, and a key id
becomes only the active key or nothing (`HandlersAreSound`). That a key id is
never nothing beside an envelope is another matter, for which `LoadedIsCurrent`
needs `OneHandler`.

*BriefPipeline*. A row keeps its key when evidence is deleted, and which of
request, commitment and deadline the rules list is read off the item that the key
names (`Founded`); so whatever follows what, rows of the rules under two keys do
not contradict each other. The rules' signals are among the rows of a generation
(`Floor`), since deduplication lets them go first and the upsert replaces by key; that they are then in the brief, or others that score
no less fill it, is what a ranking by score with a limit gives (`Rankings`).
What the brief says is computed from the same rows and sources that it names.

### Assumptions

* On constants, in the modules that declare them: sentinels are no values
  (`None...`, `NullIsNeither`), bounds are numbers, `Accounts2`,
  `TypesAndEvidence`, `GrantsAreScopes`, `SomePayload`, `ScopesAreKinds`,
  `FeedsAreKnown`, `MemoryIdsAreOrdered`, `AccountsAreOrdered` (the rotation
  orders by id), `TokensAreIssued`, `DaysAreNumbers`, `EvidenceIsGiven` (a signal
  or proposal is created with evidence: every rule cites its items,
  `ExtractedSignal` at least one, and a candidate is composed of one signal), `ClockAssumption`, `CatalogAssumption`
  (what an item's attributes are) and `ClaimsAssumption` (the schema
  `ExtractedSignal` of the model's answer, `extraction_llm.py`: no scheduling
  requests, evidence not empty, confidence a percentage), `ZonesAreGiven` (a
  zone skips at most four hours, after which `_first_valid_instant_after_gap`
  raises), `RequestsAreGiven` (hours and minutes are two digits and a text has
  finitely many dates), `DeadlinesAreGiven` (an email is sent within the table of
  months, January 2027 to January 2029, and names one of seven weekdays),
  `ReadsAreGiven` (a call raises an error of the clients; the draws are between a
  half and one and a half, as in `retry.py:90`), `CallsAreGiven` (Google has done a
  write that it accepts and not one that it rejects with a 4xx other than 408 and 429;
  of one answered 408, 429 or any 5xx, or not answered, nothing is assumed, however
  the clients classify it) and `PoliciesAreGiven` (the
  integers of a policy are positive, or `RateLimitPolicy` refuses it). TLC
  evaluates them in every run.
* `CountsFit` in `PlansAreKept` alone: there are finitely many rows, and the bound
  of the counters, which the code does not have, does not cut a count off.
* `TimeoutCoversJob` in DeletionEngineProofs: the heartbeat timeout is longer than
  arq's job timeout, as with the defaults (10 minutes, 300 s). Without it
  `OneWorkerPerOperation` is refuted (section 4).
* `OneMailbox` in GoogleSyncProofs: a user who reconnects does so with the same
  Google account. With two the cursor of one is used on the other, and
  `NothingSkipped` is refuted.
* `OneHandler` in `KeysAreTrusted` alone: consents and disconnects do not overlap.
  With two, `NothingUnversioned` is refuted; what holds regardless is
  `KeyIdsNeverMislead` and `RotationsKeepTokens`.
* `WindowsAreKept` in `BudgetsAreHeld` alone: no window is longer than a week, after
  which a bucket expires, as with every policy of the registry. An override may
  exceed it, and then a refused client is told to wait longer than it must.

The runs that check these properties set the constants so, and the theorems say
the hypothesis in their statement.

### Only model-checked

* Liveness, which is out of the prover's reach: `ExecutionsEnd`,
  `OperationsMoveOn`, `NoDateIsForgotten`, `StaleCandidatesExpire`, `Converges`,
  `LegacyKeysMigrate`, `DeletionEnds`.

Every invariant and every action property that a passing run checks is stated by
one of the theorems above.

## 7. Not modelled

* How the address of an anonymous client is found behind proxies
  (`rate_limit_ip.py`), sign-in and CSRF: one request's own data.
* OAuth initiation: state and PKCE verifier travel in the signed session cookie,
  and nothing is shared between requests.
* Preferences other than the sign-off, privacy export, audit history, evidence
  freshness and the list of items: validation and presentation.
* The wording of what the patterns match, of titles, summaries and notices, and
  the order within a section of a brief.
* The application shell, configuration, logging and metrics; the language model,
  whose claims enter BriefPipeline as any set of up to `MaxClaims` of the schema's
  signals, two of five in the run; demo data.
* The web client, except for what it shows and sends back (`screen`, `seen`).
* Migrations, which repeat the constraints the models declare; tests, evals and
  scripts other than the key rotation.
* Requests and responses of Google as formats, and exceptions outside the
  classes that the code catches.

## 8. Running it

    tlc -workers 2 -config proposal_lifecycle.cfg MCProposalExecution.tla
    tlapm ProposalExecutionProofs.tla

The module of each run is in `PROJECT.json`. `evidence_race` ends with TLC's
counterexample. Runs take from seconds to some three and a half minutes with two
workers. The eight proof modules are checked one by one; the two largest,
SchedulingProofs and ProposalExecutionProofs, take longest; all of them together take
about a quarter of an hour.
