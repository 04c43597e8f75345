--------------------------- MODULE DeletionEngine ---------------------------
(***************************************************************************)
(* deletion.py: the durable operations behind deletion of imported data,   *)
(* deletion of the account and retention.  A user previews, confirms or    *)
(* cancels an operation; the per-minute cron enqueues it and recovers the  *)
(* ones whose worker died; a worker claims it and runs it in batches, each *)
(* committed with the cursor to resume from.                               *)
(*                                                                         *)
(* One user, one database at READ COMMITTED, one Redis queue.  A step is   *)
(* what happens between two points where another actor can see or change   *)
(* the rows: a statement that locks, a commit, a job pushed to Redis.      *)
(***************************************************************************)
EXTENDS Naturals, FiniteSets

CONSTANTS
  Ops,           \* the rows data_deletion_operations may come to hold
  Scopes,        \* which of the kinds of operation are used
  Plans,         \* the dispositions a scope's records may have
  Handlers,      \* confirm and cancel requests that may be in flight
  Workers,       \* arq job slots
  None,
  MaxAttempts,   \* deletion_max_attempts
  Batches,       \* bound: batches of source items an operation may find
  MaxVersion,    \* bound: a preview is not refreshed beyond this version
  MaxFaults,     \* bound: failed enqueues and deaths of a cron tick
  TimeoutCoversJob  \* the heartbeat timeout is longer than arq's job timeout

ASSUME ScopesAreKinds == Scopes \subseteq {"imported", "account", "retention"}
ASSUME NoneIsOutside == None \notin Ops \cup Plans
ASSUME Bounds == /\ MaxAttempts \in Nat \ {0}
                 /\ Batches \in Nat /\ MaxVersion \in Nat /\ MaxFaults \in Nat
                 /\ TimeoutCoversJob \in BOOLEAN

VARIABLES
  row,       \* Ops -> the committed row; state "none" while there is none
  plan,      \* Scopes -> the dispositions the planner computes now
  account,   \* users.account_state
  tokens,    \* a connected_accounts row with tokens exists
  jobs,      \* Ops -> jobs for it in Redis
  worker,    \* Workers -> the run in progress
  tick,      \* the cron tick in progress and what it has not committed
  handler,   \* Handlers -> the request in progress
  screen,    \* what the user was shown last
  faults,    \* how often Redis or the cron process has failed
  destroyed  \* history: Ops -> has a batch of it been committed

vars == <<row, plan, account, tokens, jobs, worker, tick, handler, screen,
          faults, destroyed>>

ActiveStates      == {"previewed", "pending", "running"}
CancellableStates == {"previewed", "pending"}
TerminalStates    == {"succeeded", "partially_failed", "failed", "cancelled"}

Phases == {"derived", "sources", "credentials", "product", "minimise",
           "finalise", "done"}
FirstPhase(s) == IF s = "account" THEN "credentials" ELSE "derived"
PhaseAfter == [derived |-> "sources", sources |-> "done",
               credentials |-> "product", product |-> "minimise",
               minimise |-> "finalise", finalise |-> "done", done |-> "done"]

Rows == [state : ActiveStates \cup TerminalStates \cup {"none"},
         scope : Scopes \cup {None}, version : Nat, counts : Plans \cup {None},
         plan : Plans \cup {None}, expired : BOOLEAN, enqueued : BOOLEAN, attempts : Nat,
         stale : BOOLEAN, phase : Phases, revokeFailed : BOOLEAN, left : Nat]

NoRow == [state |-> "none", scope |-> None, version |-> 0, counts |-> None,
          plan |-> None, expired |-> FALSE, enqueued |-> FALSE, attempts |-> 0,
          stale |-> FALSE, phase |-> "done", revokeFailed |-> FALSE, left |-> 0]

IdleWorker  == [step |-> "idle", op |-> None, phase |-> "done", revokeFailed |-> FALSE]
IdleHandler == [step |-> "idle", op |-> None, scope |-> None, version |-> 0,
                counts |-> None, plan |-> None, user |-> "active"]
NoTick      == [step |-> "off", todo |-> {}, requeued |-> {}, exhausted |-> {},
                enqueued |-> {}]
BlankScreen == [op |-> None, version |-> 0, counts |-> None, plan |-> None,
                lapsed |-> FALSE]

AccountStates == {"active", "deletion_pending", "deleted"}

DeletionTypeOK ==
  /\ row \in [Ops -> Rows]
  /\ plan \in [Scopes -> Plans]
  /\ account \in AccountStates
  /\ tokens \in BOOLEAN
  /\ jobs \in [Ops -> Nat]
  /\ worker \in [Workers -> [step : {"idle", "claim", "run"}, op : Ops \cup {None},
                             phase : Phases, revokeFailed : BOOLEAN]]
  /\ tick \in [step : {"off", "requeue", "drain"}, todo : SUBSET Ops,
               requeued : SUBSET Ops, exhausted : SUBSET Ops, enqueued : SUBSET Ops]
  /\ handler \in [Handlers ->
       [step : {"idle", "preview", "confirm", "refresh", "cancel", "cancelling"},
        op : Ops \cup {None}, scope : Scopes \cup {None}, version : Nat,
        counts : Plans \cup {None}, plan : Plans \cup {None}, user : AccountStates]]
  /\ screen \in [op : Ops \cup {None}, version : Nat, counts : Plans \cup {None},
                 plan : Plans \cup {None}, lapsed : BOOLEAN]
  /\ faults \in 0..MaxFaults
  /\ destroyed \in [Ops -> BOOLEAN]

Init ==
  /\ row = [o \in Ops |-> NoRow]
  /\ plan \in [Scopes -> Plans]
  /\ account = "active"
  /\ tokens = TRUE
  /\ jobs = [o \in Ops |-> 0]
  /\ worker = [w \in Workers |-> IdleWorker]
  /\ tick = NoTick
  /\ handler = [h \in Handlers |-> IdleHandler]
  /\ screen = BlankScreen
  /\ faults = 0
  /\ destroyed = [o \in Ops |-> FALSE]

\* CurrentUser: a deleted account cannot authenticate.
SignedIn == account # "deleted"

\* The operation that occupies the scope (the partial unique index).
ActiveOps(s) == {o \in Ops : row[o].scope = s /\ row[o].state \in ActiveStates}

\* Rows that an uncommitted transaction has locked or written: the tick's
\* flushed ones, and a preview being refreshed.  A writer of one waits.
Locked(o) == \/ tick.step = "drain" /\ o \in tick.requeued \cup tick.exhausted
             \/ \E h \in Handlers : handler[h].step = "refresh" /\ handler[h].op = o

\* An UPDATE by primary key sets a column only if the request changed it.
Assigned(loaded, new, current) == IF new = loaded THEN current ELSE new

\* What the user sees of r: its version, counts and state; plan is the
\* fingerprint behind them.  lapsed marks an expired preview.
Shown(o, r) == [op |-> o, version |-> r.version, counts |-> r.counts,
                plan |-> r.plan, lapsed |-> r.state = "previewed" /\ r.expired]

-----------------------------------------------------------------------------
(* The user: previews, what is on the screen, confirm and cancel.          *)

NewRow(s, state, counts, fingerprint, left) ==
  [NoRow EXCEPT !.state = state, !.scope = s, !.version = 1, !.counts = counts,
                !.plan = fingerprint, !.phase = FirstPhase(s), !.left = left]

\* create_*_preview: the active operation of the scope is returned as it is,
PreviewReused(s) ==
  /\ SignedIn
  /\ \E o \in ActiveOps(s) : screen' = Shown(o, row[o])
  /\ UNCHANGED <<row, plan, account, tokens, jobs, worker, tick, handler,
                 faults, destroyed>>

\* or, if there is none, the records are counted for the preview ...
PreviewCounted(h, s) ==
  /\ SignedIn
  /\ handler[h].step = "idle"
  /\ ActiveOps(s) = {}
  /\ handler' = [handler EXCEPT ![h] =
                   [IdleHandler EXCEPT !.step = "preview", !.scope = s,
                                       !.counts = plan[s]]]
  /\ UNCHANGED <<row, plan, account, tokens, jobs, worker, tick, screen,
                 faults, destroyed>>

\* ... and read again for the fingerprint.  The partial unique index refuses
\* the insert if another request was faster (RequestFails).
PreviewCreated(h, o, left) ==
  LET s == handler[h].scope
  IN  /\ handler[h].step = "preview"
      /\ ActiveOps(s) = {}
      /\ row[o].state = "none"
      /\ row' = [row EXCEPT ![o] =
                   NewRow(s, "previewed", handler[h].counts, plan[s], left)]
      /\ screen' = Shown(o, row'[o])
      /\ handler' = [handler EXCEPT ![h] = IdleHandler]
      /\ UNCHANGED <<plan, account, tokens, jobs, worker, tick, faults, destroyed>>

\* get_deletion_operation.
ViewStatus(o) ==
  /\ SignedIn
  /\ row[o].state # "none"
  /\ screen' = [Shown(o, row[o]) EXCEPT !.lapsed = FALSE]
  /\ UNCHANGED <<row, plan, account, tokens, jobs, worker, tick, handler,
                 faults, destroyed>>

\* A confirm or cancel request arrives for what the screen shows, with the
\* version shown; the CurrentUser dependency loads the user, unlocked.
RequestBegin(h, step) ==
  /\ SignedIn
  /\ handler[h].step = "idle"
  /\ screen.op # None
  /\ handler' = [handler EXCEPT ![h] =
                   [step |-> step, op |-> screen.op, scope |-> None,
                    version |-> screen.version, counts |-> screen.counts,
                    plan |-> screen.plan, user |-> account]]
  /\ UNCHANGED <<row, plan, account, tokens, jobs, worker, tick, screen,
                 faults, destroyed>>

\* Mutant of Confirmable: the version is not compared.
ConfirmableAnyVersion(r, version) == r.state = "previewed" /\ ~r.expired

\* confirm_operation up to the fingerprint: the row is locked FOR UPDATE.
Confirmable(r, version) ==
  r.state = "previewed" /\ ~r.expired /\ r.version = version

ConfirmAccepted(h) ==
  LET o == handler[h].op  r == row[o]  s == r.scope
  IN  /\ handler[h].step = "confirm"
      /\ ~Locked(o)
      /\ Confirmable(r, handler[h].version)
      /\ r.plan = plan[s]
      /\ row' = [row EXCEPT ![o].state = "pending", ![o].version = r.version + 1]
      /\ account' = IF s = "account"
                      THEN Assigned(handler[h].user, "deletion_pending", account)
                      ELSE account
      /\ screen' = Shown(o, row'[o])
      /\ handler' = [handler EXCEPT ![h] = IdleHandler]
      /\ UNCHANGED <<plan, tokens, jobs, worker, tick, faults, destroyed>>

\* The plan changed.  _refresh_preview counts again, the row still locked, ...
ConfirmFindsChange(h) ==
  LET o == handler[h].op  r == row[o]
  IN  /\ handler[h].step = "confirm"
      /\ ~Locked(o)
      /\ Confirmable(r, handler[h].version)
      /\ r.plan # plan[r.scope]
      /\ r.version < MaxVersion
      /\ handler' = [handler EXCEPT ![h].step = "refresh",
                                    ![h].counts = plan[r.scope]]
      /\ UNCHANGED <<row, plan, account, tokens, jobs, worker, tick, screen,
                     faults, destroyed>>

\* ... reads again for the fingerprint, and the 409 answer carries the result.
ConfirmRefreshes(h) ==
  LET o == handler[h].op  r == row[o]
  IN  /\ handler[h].step = "refresh"
      /\ row' = [row EXCEPT ![o].counts = handler[h].counts,
                            ![o].plan = plan[r.scope], ![o].expired = FALSE,
                            ![o].version = r.version + 1]
      /\ screen' = Shown(o, row'[o])
      /\ handler' = [handler EXCEPT ![h] = IdleHandler]
      /\ UNCHANGED <<plan, account, tokens, jobs, worker, tick, faults, destroyed>>

\* Already confirmed, finished, expired, or another version: nothing changes.
ConfirmRefused(h) ==
  /\ handler[h].step = "confirm"
  /\ ~Locked(handler[h].op)
  /\ ~Confirmable(row[handler[h].op], handler[h].version)
  /\ handler' = [handler EXCEPT ![h] = IdleHandler]
  /\ UNCHANGED <<row, plan, account, tokens, jobs, worker, tick, screen,
                 faults, destroyed>>

\* cancel_operation reads the row without a lock ...
CancelRead(h) ==
  LET r == row[handler[h].op]
  IN  /\ handler[h].step = "cancel"
      /\ handler' = IF r.state \in CancellableStates
                      THEN [handler EXCEPT ![h].step = "cancelling",
                                           ![h].version = r.version]
                      ELSE [handler EXCEPT ![h] = IdleHandler]
      /\ UNCHANGED <<row, plan, account, tokens, jobs, worker, tick, screen,
                     faults, destroyed>>

\* ... and writes it by primary key.
CancelCommit(h) ==
  LET o == handler[h].op
  IN  /\ handler[h].step = "cancelling"
      /\ ~Locked(o)
      /\ row' = [row EXCEPT ![o].state = "cancelled",
                            ![o].version = handler[h].version + 1]
      /\ account' = IF row[o].scope = "account"
                      THEN Assigned(handler[h].user, "active", account)
                      ELSE account
      /\ screen' = Shown(o, row'[o])
      /\ handler' = [handler EXCEPT ![h] = IdleHandler]
      /\ UNCHANGED <<plan, tokens, jobs, worker, tick, faults, destroyed>>

\* A wrong phrase, the rate limiter, or a crash: the request rolls back.
RequestFails(h) ==
  /\ handler[h].step # "idle"
  /\ handler' = [handler EXCEPT ![h] = IdleHandler]
  /\ UNCHANGED <<row, plan, account, tokens, jobs, worker, tick, screen,
                 faults, destroyed>>

-----------------------------------------------------------------------------
(* The surroundings: records change, previews age, the user reconnects.    *)

\* A proposal is approved, a sync imports, an execution starts: the planner
\* would decide differently now.  Only a preview being made or
\* waiting reads it.
PlanChanges(s, p) ==
  /\ \/ \E o \in ActiveOps(s) : row[o].state = "previewed"
     \/ \E h \in Handlers : handler[h].step = "preview"
  /\ plan' = [plan EXCEPT ![s] = p]
  /\ UNCHANGED <<row, account, tokens, jobs, worker, tick, handler, screen,
                 faults, destroyed>>

\* preview_expires_at passes.
PreviewExpires(o) ==
  /\ row[o].state = "previewed"
  /\ ~row[o].expired
  /\ row' = [row EXCEPT ![o].expired = TRUE]
  /\ UNCHANGED <<plan, account, tokens, jobs, worker, tick, handler, screen,
                 faults, destroyed>>

\* The OAuth callback and disconnect ask for CurrentUser, not ActiveUser.
Connects(connected) ==
  /\ SignedIn
  /\ "account" \in Scopes
  /\ tokens' = connected
  /\ UNCHANGED <<row, plan, account, jobs, worker, tick, handler, screen,
                 faults, destroyed>>

-----------------------------------------------------------------------------
(* The worker: claim, batches, finish.                                     *)

RunningIt(o) == {w \in Workers : worker[w].step = "run" /\ worker[w].op = o}

\* arq takes a job off the queue; it never runs it a second time (max_tries).
TakeJob(w, o) ==
  /\ worker[w].step = "idle"
  /\ jobs[o] > 0
  /\ jobs' = [jobs EXCEPT ![o] = @ - 1]
  /\ worker' = [worker EXCEPT ![w] = [IdleWorker EXCEPT !.step = "claim", !.op = o]]
  /\ UNCHANGED <<row, plan, account, tokens, tick, handler, screen, faults, destroyed>>

\* Mutant of Claimable: the condition also admits what is running.
ClaimableWhileRunning(r) == r.state \in {"pending", "running"}

Claimable(r) == r.state = "pending"

\* Mutant of ResumePhase: the cursor is not read back.
ResumeAtStart(r) == FirstPhase(r.scope)

\* cursor.get("phase", ...): NewRow has stored the default.
ResumePhase(r) == r.phase

\* claim_operation: one conditional UPDATE, committed; the row is reloaded.
Claim(w) ==
  LET o == worker[w].op  r == row[o]
  IN  /\ worker[w].step = "claim"
      /\ ~Locked(o)
      /\ IF Claimable(r)
           THEN /\ row' = [row EXCEPT ![o].state = "running", ![o].stale = FALSE,
                                      ![o].attempts = r.attempts + 1]
                /\ worker' = [worker EXCEPT ![w] =
                                [step |-> "run", op |-> o, phase |-> ResumePhase(r),
                                 revokeFailed |-> r.revokeFailed]]
           ELSE /\ worker' = [worker EXCEPT ![w] = IdleWorker]
                /\ UNCHANGED row
      /\ UNCHANGED <<plan, account, tokens, jobs, tick, handler, screen, faults, destroyed>>

\* run_operation would refuse an operation claimed once too often.
Refused(o) == row[o].attempts > MaxAttempts

\* An account already deleted, by another operation, ends the run at once,
\* whatever phase it is in.
Moot(o) == row[o].scope = "account" /\ account = "deleted"

\* A bulk phase goes on while it still finds source items.
Bulk(phase) == phase \in {"sources", "product"}

\* One batch, committed with the cursor.  The revocation at Google is best
\* effort: its failure is recorded and changes nothing else.
Batch(w, revocationFails) ==
  LET o == worker[w].op  phase == worker[w].phase
      again == Bulk(phase) /\ row[o].left > 0
      next  == IF again THEN phase ELSE PhaseAfter[phase]
      failed == worker[w].revokeFailed \/ revocationFails
  IN  /\ worker[w].step = "run"
      /\ ~Locked(o) /\ ~Refused(o) /\ ~Moot(o)
      /\ phase # "done"
      /\ revocationFails => phase = "credentials" /\ tokens
      /\ row' = [row EXCEPT ![o].phase = next, ![o].revokeFailed = failed,
                            ![o].left = IF again THEN @ - 1 ELSE @]
      /\ worker' = [worker EXCEPT ![w].phase = next, ![w].revokeFailed = failed]
      /\ tokens' = (tokens /\ phase # "credentials")
      /\ account' = IF phase = "finalise" THEN "deleted" ELSE account
      /\ destroyed' = [destroyed EXCEPT ![o] = TRUE]
      /\ UNCHANGED <<plan, jobs, tick, handler, screen, faults>>

Outcome(w) == IF Refused(worker[w].op) THEN "failed"
              ELSE IF worker[w].revokeFailed THEN "partially_failed" ELSE "succeeded"

FinishRun(w) ==
  LET o == worker[w].op
  IN  /\ worker[w].step = "run"
      /\ ~Locked(o)
      /\ worker[w].phase = "done" \/ Refused(o) \/ Moot(o)
      /\ row' = [row EXCEPT ![o].state = Outcome(w)]
      /\ worker' = [worker EXCEPT ![w] = IdleWorker]
      /\ UNCHANGED <<plan, account, tokens, jobs, tick, handler, screen, faults, destroyed>>

\* The worker process dies or arq's job timeout cancels the job, which is
\* not run again; what it had not committed is rolled back.
WorkerDies(w) ==
  /\ worker[w].step # "idle"
  /\ worker' = [worker EXCEPT ![w] = IdleWorker]
  /\ UNCHANGED <<row, plan, account, tokens, jobs, tick, handler, screen,
                 faults, destroyed>>

\* heartbeat_at falls behind the timeout.  It is the time the job started
\* and never advances, so only the job timeout keeps a live job's fresh; a
\* request, bounded by the statement timeout, is over long before.
HeartbeatAges(o) ==
  /\ row[o].state = "running"
  /\ ~row[o].stale
  /\ TimeoutCoversJob => RunningIt(o) = {}
  /\ \A h \in Handlers : handler[h].op # o
  /\ row' = [row EXCEPT ![o].stale = TRUE]
  /\ UNCHANGED <<plan, account, tokens, jobs, worker, tick, handler, screen,
                 faults, destroyed>>

-----------------------------------------------------------------------------
(* The cron tick: the retention scan, then recover_stale_operations, which *)
(* commits once, at its end.                                               *)

RetentionScan(o, left) ==
  /\ tick.step = "off"
  /\ "retention" \in Scopes
  /\ ActiveOps("retention") = {}
  /\ row[o].state = "none"
  /\ row' = [row EXCEPT ![o] = NewRow("retention", "pending", None, None, left)]
  /\ UNCHANGED <<plan, account, tokens, jobs, worker, tick, handler, screen,
                 faults, destroyed>>

\* Mutant of Stale: what cannot be tried again is not looked at.
StaleRetryable(r) == r.state = "running" /\ r.stale /\ r.attempts < MaxAttempts

Stale(r) == r.state = "running" /\ r.stale

\* The second SELECT: pending rows, its own flushed ones among them, that
\* have no enqueued_at.
Undrained(o) ==
  /\ row[o].state = "pending" \/ o \in tick.requeued
  /\ ~row[o].enqueued /\ o \notin tick.enqueued

\* A tick that would find nothing is left out: it changes nothing.
TickBegins ==
  /\ tick.step = "off"
  /\ \E o \in Ops : Stale(row[o]) \/ Undrained(o)
  /\ tick' = [NoTick EXCEPT !.step = "requeue", !.todo = {o \in Ops : Stale(row[o])}]
  /\ UNCHANGED <<row, plan, account, tokens, jobs, worker, handler, screen,
                 faults, destroyed>>

Exhausted(o) == row[o].attempts >= MaxAttempts

TickGivesUp(o) ==
  /\ tick.step = "requeue" /\ o \in tick.todo
  /\ Exhausted(o)
  /\ tick' = [tick EXCEPT !.todo = @ \ {o}, !.exhausted = @ \cup {o}]
  /\ UNCHANGED <<row, plan, account, tokens, jobs, worker, handler, screen,
                 faults, destroyed>>

\* _enqueue fails open: the job is pushed at once, or not at all.
Push(o, works) ==
  IF works THEN /\ jobs' = [jobs EXCEPT ![o] = @ + 1]
                /\ UNCHANGED faults
           ELSE /\ faults < MaxFaults
                /\ faults' = faults + 1
                /\ UNCHANGED jobs

TickRequeues(o, works) ==
  /\ tick.step = "requeue" /\ o \in tick.todo
  /\ ~Exhausted(o)
  /\ Push(o, works)
  /\ tick' = [tick EXCEPT !.todo = @ \ {o}, !.requeued = @ \cup {o},
                          !.enqueued = IF works THEN @ \cup {o} ELSE @]
  /\ UNCHANGED <<row, plan, account, tokens, worker, handler, screen,
                 destroyed>>

\* The SELECT flushes the changes, which locks the rows until the commit.
TickFlushes ==
  /\ tick.step = "requeue" /\ tick.todo = {}
  /\ tick' = [tick EXCEPT !.step = "drain", !.todo = {o \in Ops : Undrained(o)}]
  /\ UNCHANGED <<row, plan, account, tokens, jobs, worker, handler, screen,
                 faults, destroyed>>

TickDrains(o, works) ==
  /\ tick.step = "drain" /\ o \in tick.todo
  /\ Push(o, works)
  /\ tick' = [tick EXCEPT !.todo = @ \ {o},
                          !.enqueued = IF works THEN @ \cup {o} ELSE @]
  /\ UNCHANGED <<row, plan, account, tokens, worker, handler, screen,
                 destroyed>>

RecoveredState(o) == IF o \in tick.requeued THEN "pending"
                     ELSE IF o \in tick.exhausted THEN "partially_failed"
                     ELSE row[o].state

TickCommits ==
  /\ tick.step = "drain" /\ tick.todo = {}
  /\ row' = [o \in Ops |-> [row[o] EXCEPT
               !.state = RecoveredState(o),
               !.enqueued = row[o].enqueued \/ o \in tick.enqueued]]
  /\ tick' = NoTick
  /\ UNCHANGED <<plan, account, tokens, jobs, worker, handler, screen, faults, destroyed>>

\* The cron process dies: nothing is committed, what was pushed stays.
TickDies ==
  /\ tick.step # "off"
  /\ faults < MaxFaults
  /\ faults' = faults + 1
  /\ tick' = NoTick
  /\ UNCHANGED <<row, plan, account, tokens, jobs, worker, handler, screen, destroyed>>

-----------------------------------------------------------------------------
UserNext ==
  \/ \E s \in Scopes \ {"retention"} :
       \/ PreviewReused(s)
       \/ \E p \in Plans : PlanChanges(s, p)
  \/ \E o \in Ops : ViewStatus(o) \/ PreviewExpires(o)
  \/ \E connected \in BOOLEAN : Connects(connected)

RequestArrives(h) ==
  \/ \E step \in {"confirm", "cancel"} : RequestBegin(h, step)
  \/ \E s \in Scopes \ {"retention"} : PreviewCounted(h, s)

RequestProceeds(h) ==
  \/ \E o \in Ops, left \in 0..Batches : PreviewCreated(h, o, left)
  \/ ConfirmAccepted(h) \/ ConfirmFindsChange(h) \/ ConfirmRefreshes(h)
  \/ ConfirmRefused(h)
  \/ CancelRead(h) \/ CancelCommit(h)
  \/ RequestFails(h)

WorkerStep(w) ==
  \/ \E o \in Ops : TakeJob(w, o)
  \/ Claim(w)
  \/ \E revocationFails \in BOOLEAN : Batch(w, revocationFails)
  \/ FinishRun(w)

TickStep ==
  \/ TickBegins \/ TickFlushes \/ TickCommits
  \/ \E o \in Ops : \/ TickGivesUp(o)
                    \/ \E works \in BOOLEAN : TickRequeues(o, works) \/ TickDrains(o, works)

Next ==
  \/ UserNext
  \/ \E h \in Handlers : RequestArrives(h) \/ RequestProceeds(h)
  \/ \E w \in Workers : WorkerStep(w) \/ WorkerDies(w)
  \/ \E o \in Ops : HeartbeatAges(o)
  \/ \E o \in Ops, left \in 0..Batches : RetentionScan(o, left)
  \/ TickStep
  \/ TickDies

Spec == Init /\ [][Next]_vars

\* The cron fires every minute, a job runs, a request ends in its timeouts
\* at the latest, and time passes: a heartbeat ages although new requests
\* for the operation keep arriving (hence SF).  Nothing is assumed of users,
\* nor of Redis, whose failures are bounded by MaxFaults.
FairSpec ==
  /\ Spec
  /\ WF_vars(TickStep)
  /\ \A w \in Workers : WF_vars(WorkerStep(w))
  /\ \A h \in Handlers : WF_vars(RequestProceeds(h))
  /\ \A o \in Ops : SF_vars(HeartbeatAges(o))

-----------------------------------------------------------------------------
(* Properties.                                                             *)

\* claim_operation "never steals a live run": one worker runs an operation,
\* whatever jobs for it are queued twice, lost or recovered.
OneWorkerPerOperation == \A o \in Ops : Cardinality(RunningIt(o)) <= 1

\* Recovery gives up in time: no operation is tried more than MaxAttempts
\* times, so run_operation never has to refuse one.
AttemptsStayBounded ==
  \A o \in Ops : row[o].attempts <= MaxAttempts /\ row[o].state # "failed"

PhaseRank == [derived |-> 1, sources |-> 2, credentials |-> 1, product |-> 2,
              minimise |-> 3, finalise |-> 4, done |-> 5]

\* A run resumes where the last one stopped: the durable cursor never goes
\* back, over crashes, recoveries and second jobs.
ProgressIsKept ==
  [][\A o \in Ops : row[o].state # "none" =>
        PhaseRank[row'[o].phase] >= PhaseRank[row[o].phase]]_vars

Complete(o) == row[o].phase = "done" /\ row[o].left = 0

\* An operation that reports success has passed every phase and left no source
\* item it found, or another operation on the account has done so before it
\* (account_deletion.py:201); and it did not fail to revoke, in this attempt
\* or an earlier one.
SucceededIsComplete ==
  \A o \in Ops : row[o].state = "succeeded" =>
     /\ ~row[o].revokeFailed
     /\ \/ Complete(o)
        \/ /\ row[o].scope = "account"
           /\ \E p \in Ops \ {o} : row[p].scope = "account" /\ Complete(p)

\* An operation is run by one worker, a bounded number of times, and what it
\* reports is so.
DeletionInv ==
  /\ DeletionTypeOK
  /\ OneWorkerPerOperation
  /\ AttemptsStayBounded
  /\ SucceededIsComplete

\* What the user decides stands.  The confirmation binds: what becomes pending
\* has, at that moment, the fingerprint stored behind the version the user was
\* shown.  And a cancellation that no running worker has overtaken is final:
\* neither a job still queued nor the recovery brings the operation back
\* (deletion.py:346, confirm, and :372, cancel).
DecisionsStand ==
  [][/\ \A h \in Handlers : LET o == handler[h].op IN
          (/\ handler[h].step = "confirm" /\ handler'[h].step = "idle"
           /\ row[o].state = "previewed" /\ row'[o].state = "pending")
          => handler[h].plan = plan[row[o].scope]
     /\ \A o \in Ops : row[o].state = "cancelled" /\ RunningIt(o) = {} =>
          row'[o].state = "cancelled"]_vars

\* A running operation is finished or recovered, even if its worker died.
RunningEnds == \A o \in Ops : row[o].state = "running" ~> row[o].state # "running"

\* "The pending-drain pass retries": a pending operation that was never
\* enqueued gets a job once Redis works again.
DrainReachesEveryOperation ==
  \A o \in Ops : (row[o].state = "pending" /\ ~row[o].enqueued)
                   ~> ~(row[o].state = "pending" /\ ~row[o].enqueued)

\* No operation stays where a dead worker or a failed push has left it.
OperationsMoveOn == RunningEnds /\ DrainReachesEveryOperation

\* run_deletion_operation: "a crash leaves the operation running for the
\* cron to recover"; so what is pending is picked up, or cancelled.
PendingIsPickedUp == \A o \in Ops : row[o].state = "pending" ~> row[o].state # "pending"

\* _enqueue: "leaving enqueued_at unset on failure is itself the recovery
\* mechanism"; so a recovered row whose enqueue failed has none.
FailedEnqueueIsRetried ==
  [][\A o \in tick.requeued \ tick.enqueued :
        tick'.step = "off" /\ row'[o].state = "pending" => ~row'[o].enqueued]_vars

\* cancel_operation cancels "never once a destructive batch could have
\* committed", and the client says "Cancelled. Nothing was deleted."
NothingDestroyedWhenCancelled ==
  \A o \in Ops : row[o].state = "cancelled" => ~destroyed[o]

\* DeletionOperationState: while pending "no destructive batch has committed".
PendingIsUntouched == \A o \in Ops : row[o].state = "pending" => ~destroyed[o]

\* cancel_operation: "restore - deletion abandoned".
AbandonedIsRestored ==
  account = "deletion_pending" =>
    \E o \in Ops : /\ row[o].scope = "account"
                   /\ row[o].state \notin {"previewed", "cancelled"}

\* confirm_operation blocks new sync, proposals, approvals and executions
\* before the worker runs, by account_state.
ErasureIsBlocking ==
  \A o \in Ops : row[o].scope = "account" /\ row[o].state \in {"pending", "running"}
                   => account # "active"

\* run_operation processes "bounded batches ... until done, and finalises": an
\* operation that reports success has itself passed every phase.
SucceededDidTheWork == \A o \in Ops : row[o].state = "succeeded" => Complete(o)

\* account_deletion.py: "always clearing local credentials".
DeletedHoldsNoTokens == account = "deleted" => ~tokens

\* "This preview has expired; start a new one": a preview request answers
\* with one that can be confirmed.
NewPreviewIsCurrent == ~screen.lapsed

\* What runs is what was reviewed: the counts shown to the confirming user
\* belong to the plan as it is when the operation becomes pending.
ConfirmedAsReviewed ==
  [][\A h \in Handlers : LET o == handler[h].op IN
       (/\ handler[h].step = "confirm" /\ handler'[h].step = "idle"
        /\ row[o].state = "previewed" /\ row'[o].state = "pending")
       => handler[h].counts = plan[row[o].scope]]_vars
=============================================================================
