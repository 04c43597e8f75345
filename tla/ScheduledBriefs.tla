--------------------------- MODULE ScheduledBriefs ---------------------------
(***************************************************************************)
(* scheduled_briefs.py: one brief per user and local date.  The per-minute *)
(* cron creates the run of a date that is due and enqueues its job; the    *)
(* worker claims the run, generates the brief and records how it ended.    *)
(*                                                                         *)
(* A slot is a user and a local date; it has at most one committed row     *)
(* (uq_scheduled_brief_runs_user_date).  The queue is arq's: a job has an  *)
(* id made of the slot and the attempt, and Redis refuses an id while its  *)
(* job is queued or in progress, or its result is kept.  A job names the   *)
(* row it is for; a row that a cron tick never committed leaves its id     *)
(* unused, and the next one for the slot is another row.                   *)
(***************************************************************************)
EXTENDS Naturals, FiniteSets

CONSTANTS
  Slots,        \* users' local dates
  Workers,      \* arq job slots
  None,
  MaxAttempts,  \* MAX_ATTEMPTS
  MaxFaults     \* bound: failed pushes and deaths of a cron tick

ASSUME NoneIsNoSlot == None \notin Slots
ASSUME BriefBounds == MaxAttempts \in Nat \ {0} /\ MaxFaults \in Nat

VARIABLES
  row,      \* Slots -> the committed row; status "none" while there is none
  due,      \* Slots -> where now is relative to the scheduled instant
  enabled,  \* Slots -> the user's scheduled_briefs_enabled preference
  jobs,     \* Slots -> attempt -> the job with that id, as Redis knows it
  worker,   \* Workers -> the job in progress
  tick,     \* the cron tick in progress and what it has not committed
  drawn,    \* Slots -> how many row ids have been drawn
  faults,   \* how often Redis or the cron process has failed
  late,     \* Slots -> the row's instant is more than GRACE_WINDOW ago
  briefs,   \* history: Slots -> the briefs committed for it
  belated   \* history: Slots -> a brief was generated when it was late

vars == <<row, due, enabled, jobs, worker, tick, drawn, faults, late, briefs, belated>>

Statuses == {"none", "pending", "running", "succeeded", "failed", "skipped"}
Terminal == {"succeeded", "failed", "skipped"}
Attempts == 0..MaxAttempts

\* Not yet, now or within GRACE_WINDOW, later on the same local date, or
\* another local date altogether.
Positions == {"early", "due", "missed", "over"}

NoRun == [status |-> "none", id |-> 0, attempts |-> 0, job |-> 0,
          enqueued |-> FALSE, stale |-> FALSE, brief |-> FALSE]
NoJob == [state |-> "none", run |-> 0]
IdleWorker == [step |-> "idle", slot |-> None, job |-> 0, run |-> 0,
               next |-> 0]
NoTick == [step |-> "off", todo |-> {}, new |-> {}, skipped |-> {}, requeued |-> {},
           exhausted |-> {}, enqueued |-> {}, job |-> [s \in Slots |-> 0]]

BriefsTypeOK ==
  /\ row \in [Slots -> [status : Statuses, id : Nat, attempts : Nat, job : Attempts,
                        enqueued : BOOLEAN, stale : BOOLEAN, brief : BOOLEAN]]
  /\ due \in [Slots -> Positions]
  /\ enabled \in [Slots -> BOOLEAN]
  /\ jobs \in [Slots -> [Attempts -> [state : {"none", "queued", "taken", "kept"},
                                      run : Nat]]]
  /\ worker \in [Workers -> [step : {"idle", "claim", "check", "generate", "push", "mark"},
                             slot : Slots \cup {None}, job : Attempts, run : Nat,
                             next : Attempts]]
  /\ tick \in [step : {"off", "enqueue", "requeue", "drain"}, todo : SUBSET Slots,
               new : SUBSET Slots, skipped : SUBSET Slots, requeued : SUBSET Slots,
               exhausted : SUBSET Slots, enqueued : SUBSET Slots, job : [Slots -> Attempts]]
  /\ drawn \in [Slots -> Nat]
  /\ faults \in 0..MaxFaults
  /\ late \in [Slots -> BOOLEAN]
  /\ briefs \in [Slots -> Nat]
  /\ belated \in [Slots -> BOOLEAN]

Init ==
  /\ row = [s \in Slots |-> NoRun]
  /\ due = [s \in Slots |-> "early"]
  /\ enabled \in [Slots -> BOOLEAN]
  /\ jobs = [s \in Slots |-> [a \in Attempts |-> NoJob]]
  /\ worker = [w \in Workers |-> IdleWorker]
  /\ tick = NoTick
  /\ drawn = [s \in Slots |-> 0]
  /\ faults = 0
  /\ late = [s \in Slots |-> FALSE]
  /\ briefs = [s \in Slots |-> 0]
  /\ belated = [s \in Slots |-> FALSE]

\* The rows a flush of the tick has locked until it commits.
Locked(s) == tick.step = "drain" /\ s \in tick.requeued \cup tick.exhausted

\* enqueue_job with a _job_id: pushed, or refused as a duplicate (None).
Pushed(s, a, run) ==
  jobs' = IF jobs[s][a].state = "none"
            THEN [jobs EXCEPT ![s][a] = [state |-> "queued", run |-> run]]
            ELSE jobs

\* _try_enqueue_job fails open: a Redis error pushes nothing.
TryEnqueue(s, a, run, works) ==
  IF works THEN Pushed(s, a, run) /\ UNCHANGED faults
           ELSE faults < MaxFaults /\ faults' = faults + 1 /\ UNCHANGED jobs

-----------------------------------------------------------------------------
(* The user, the clock and Redis.                                          *)

TogglesSchedule(s) ==
  /\ enabled' = [enabled EXCEPT ![s] = ~@]
  /\ UNCHANGED <<row, due, jobs, worker, tick, drawn, faults, late, briefs, belated>>

\* Time passes; or the user sets another briefing time or time zone, which
\* may put now anywhere relative to the instant that is computed next.
ScheduleMoves(s, to) ==
  /\ due' = [due EXCEPT ![s] = to]
  /\ UNCHANGED <<row, enabled, jobs, worker, tick, drawn, faults, late, briefs, belated>>

\* More than GRACE_WINDOW has passed since the row's scheduled_for_utc.
GraceEnds(s) ==
  /\ row[s].status \in {"pending", "running"} /\ ~late[s]
  /\ late' = [late EXCEPT ![s] = TRUE]
  /\ UNCHANGED <<row, due, enabled, jobs, worker, tick, drawn, faults, briefs, belated>>

\* started_at falls behind STALE_RUNNING_THRESHOLD.  arq cancels a job after
\* half that time, so no live job has such a row.
StartAges(s) ==
  /\ row[s].status = "running" /\ ~row[s].stale
  /\ \A w \in Workers : worker[w].slot # s \/ worker[w].step \in {"claim", "push", "mark"}
  /\ row' = [row EXCEPT ![s].stale = TRUE]
  /\ UNCHANGED <<due, enabled, jobs, worker, tick, drawn, faults, late, briefs, belated>>

\* The kept result of a job expires, an hour after it ended.
ResultExpires(s, a) ==
  /\ jobs[s][a].state = "kept"
  /\ jobs' = [jobs EXCEPT ![s][a] = NoJob]
  /\ UNCHANGED <<row, due, enabled, worker, tick, drawn, faults, late, briefs, belated>>

-----------------------------------------------------------------------------
(* dispatch_tick: one transaction, committed at the end.                   *)

\* Mutant of Wanted: a date whose window has passed is left alone.
WantedInTime(s) == row[s].status = "none" /\ enabled[s] /\ due[s] = "due"

\* plan_dispatch: the dates that have no row yet and whose instant has come.
Wanted(s) == row[s].status = "none" /\ enabled[s] /\ due[s] \in {"due", "missed"}

StaleRun(r) == r.status = "running" /\ r.stale

\* The pending rows _recover_never_enqueued selects: the tick's own flushed
\* changes are among them.
NeverEnqueued(s) ==
  /\ row[s].status = "pending" \/ s \in tick.new \cup tick.requeued
  /\ ~row[s].enqueued \/ s \in tick.requeued
  /\ s \notin tick.enqueued

\* A tick that would find nothing is left out: it changes nothing.
TickPlans ==
  LET wanted == {s \in Slots : Wanted(s)}
      new    == {s \in wanted : due[s] = "due"}
  IN  /\ tick.step = "off"
      /\ \E s \in Slots : Wanted(s) \/ StaleRun(row[s]) \/ NeverEnqueued(s)
      /\ tick' = [NoTick EXCEPT !.step = "enqueue", !.todo = new, !.new = new,
                                !.skipped = wanted \ new]
      /\ drawn' = [s \in Slots |-> IF s \in wanted THEN drawn[s] + 1 ELSE drawn[s]]
      /\ UNCHANGED <<row, due, enabled, jobs, worker, faults, late, briefs, belated>>

\* The job of a new run is pushed while its row is not committed.
TickEnqueues(s, works) ==
  /\ tick.step = "enqueue" /\ s \in tick.todo
  /\ TryEnqueue(s, 0, drawn[s], works)
  /\ tick' = [tick EXCEPT !.todo = @ \ {s},
                          !.enqueued = IF works THEN @ \cup {s} ELSE @]
  /\ UNCHANGED <<row, due, enabled, worker, drawn, late, briefs, belated>>

\* recover_stale_running selects.
TickSelectsStale ==
  /\ tick.step = "enqueue" /\ tick.todo = {}
  /\ tick' = [tick EXCEPT !.step = "requeue", !.todo = {s \in Slots : StaleRun(row[s])}]
  /\ UNCHANGED <<row, due, enabled, jobs, worker, drawn, faults, late, briefs, belated>>

AttemptsLeft(r) == r.attempts < MaxAttempts

TickGivesUp(s) ==
  /\ tick.step = "requeue" /\ s \in tick.todo
  /\ ~AttemptsLeft(row[s])
  /\ tick' = [tick EXCEPT !.todo = @ \ {s}, !.exhausted = @ \cup {s}]
  /\ UNCHANGED <<row, due, enabled, jobs, worker, drawn, faults, late, briefs, belated>>

\* Back to pending with the next job id and no enqueued_at; the job is
\* pushed before that is flushed or committed.
TickRequeues(s, works) ==
  /\ tick.step = "requeue" /\ s \in tick.todo
  /\ AttemptsLeft(row[s])
  /\ TryEnqueue(s, row[s].attempts, row[s].id, works)
  /\ tick' = [tick EXCEPT !.todo = @ \ {s}, !.requeued = @ \cup {s},
                          !.enqueued = IF works THEN @ \cup {s} ELSE @]
  /\ UNCHANGED <<row, due, enabled, worker, drawn, late, briefs, belated>>

\* The job id a pending row has for this tick.
JobOf(s) == IF s \in tick.new THEN 0
            ELSE IF s \in tick.requeued THEN row[s].attempts
            ELSE row[s].job

\* The flush locks the recovered rows; then the drain selects.
TickSelectsPending ==
  /\ tick.step = "requeue" /\ tick.todo = {}
  /\ tick' = [tick EXCEPT !.step = "drain", !.todo = {s \in Slots : NeverEnqueued(s)},
                          !.job = [s \in Slots |-> JobOf(s)]]
  /\ UNCHANGED <<row, due, enabled, jobs, worker, drawn, faults, late, briefs, belated>>

TickDrains(s, works) ==
  /\ tick.step = "drain" /\ s \in tick.todo
  /\ TryEnqueue(s, tick.job[s], IF s \in tick.new THEN drawn[s] ELSE row[s].id, works)
  /\ tick' = [tick EXCEPT !.todo = @ \ {s},
                          !.enqueued = IF works THEN @ \cup {s} ELSE @]
  /\ UNCHANGED <<row, due, enabled, worker, drawn, late, briefs, belated>>

SkippedRun(s) == [NoRun EXCEPT !.status = "skipped", !.id = drawn[s]]

\* A row that was only drained is written by primary key: enqueued_at alone.
Committed(s) ==
  IF s \in tick.new
    THEN [NoRun EXCEPT !.status = "pending", !.id = drawn[s], !.enqueued = s \in tick.enqueued]
  ELSE IF s \in tick.skipped THEN SkippedRun(s)
  ELSE IF s \in tick.exhausted THEN [row[s] EXCEPT !.status = "failed"]
  ELSE IF s \in tick.requeued
    THEN [row[s] EXCEPT !.status = "pending", !.job = row[s].attempts, !.stale = FALSE,
                        !.enqueued = s \in tick.enqueued]
  ELSE [row[s] EXCEPT !.enqueued = @ \/ s \in tick.enqueued]

TickCommits ==
  /\ tick.step = "drain" /\ tick.todo = {}
  /\ row' = [s \in Slots |-> Committed(s)]
  /\ tick' = NoTick
  /\ UNCHANGED <<due, enabled, jobs, worker, drawn, faults, late, briefs, belated>>

\* The cron process dies: nothing is committed, what was pushed stays.
TickDies ==
  /\ tick.step # "off" /\ faults < MaxFaults
  /\ faults' = faults + 1
  /\ tick' = NoTick
  /\ UNCHANGED <<row, due, enabled, jobs, worker, drawn, late, briefs, belated>>

-----------------------------------------------------------------------------
(* run_scheduled_generation.                                               *)

\* The job ends, in whatever way: arq keeps its result for an hour, and
\* does not run it again (max_tries).
Ends(w) ==
  /\ worker' = [worker EXCEPT ![w] = IdleWorker]
  /\ jobs' = [jobs EXCEPT ![worker[w].slot][worker[w].job].state = "kept"]

\* _mark_terminal, and the job is done.
MarkTerminal(w, status) ==
  /\ row' = [row EXCEPT ![worker[w].slot].status = status]
  /\ Ends(w)

TakeJob(w, s, a) ==
  /\ worker[w].step = "idle"
  /\ jobs[s][a].state = "queued"
  /\ jobs' = [jobs EXCEPT ![s][a].state = "taken"]
  /\ worker' = [worker EXCEPT ![w] = [IdleWorker EXCEPT !.step = "claim", !.slot = s,
                                   !.job = a, !.run = jobs[s][a].run]]
  /\ UNCHANGED <<row, due, enabled, tick, drawn, faults, late, briefs, belated>>

\* Mutant of Claimable: what runs is claimed too.
ClaimableWhileRunning(r) == r.status \in {"pending", "running"}

Claimable(r) == r.status = "pending"

\* One conditional UPDATE, committed; it finds the row by its id.
Claim(w) ==
  LET s == worker[w].slot
  IN  /\ worker[w].step = "claim"
      /\ ~Locked(s)
      /\ IF row[s].id = worker[w].run /\ Claimable(row[s])
           THEN /\ row' = [row EXCEPT ![s].status = "running", ![s].stale = FALSE,
                                      ![s].attempts = @ + 1]
                /\ worker' = [worker EXCEPT ![w].step = "check"]
                /\ UNCHANGED jobs
           ELSE Ends(w) /\ UNCHANGED row
      /\ UNCHANGED <<due, enabled, tick, drawn, faults, late, briefs, belated>>

\* The schedule was turned off: skipped.  A brief exists: succeeded.
CheckRun(w) ==
  LET s == worker[w].slot
  IN  /\ worker[w].step = "check"
      /\ IF enabled[s] /\ ~row[s].brief
           THEN worker' = [worker EXCEPT ![w].step = "generate"] /\ UNCHANGED <<row, jobs>>
           ELSE MarkTerminal(w, IF enabled[s] THEN "succeeded" ELSE "skipped")
      /\ UNCHANGED <<due, enabled, tick, drawn, faults, late, briefs, belated>>

\* The brief and the end of the run are one commit; scheduled_run_id is unique.
GenerationSucceeds(w) ==
  LET s == worker[w].slot
  IN  /\ worker[w].step = "generate"
      /\ ~Locked(s) /\ ~row[s].brief
      /\ row' = [row EXCEPT ![s].status = "succeeded", ![s].brief = TRUE]
      /\ briefs' = [briefs EXCEPT ![s] = @ + 1]
      /\ belated' = [belated EXCEPT ![s] = @ \/ late[s]]
      /\ Ends(w)
      /\ UNCHANGED <<due, enabled, tick, drawn, faults, late>>

\* An exception: rolled back, and the run is pending again with its next job
\* id and no enqueued_at, or failed for good.
GenerationFails(w, transient) ==
  LET s == worker[w].slot
  IN  /\ worker[w].step = "generate" /\ ~Locked(s)
      /\ IF transient /\ AttemptsLeft(row[s])
           THEN /\ row' = [row EXCEPT ![s].status = "pending", ![s].job = row[s].attempts,
                                      ![s].enqueued = FALSE]
                /\ worker' = [worker EXCEPT ![w].step = "push", ![w].next = row[s].attempts]
                /\ UNCHANGED jobs
           ELSE MarkTerminal(w, "failed")
      /\ UNCHANGED <<due, enabled, tick, drawn, faults, late, briefs, belated>>

\* After that commit the next job is pushed, ...
PushRetry(w, works) ==
  LET s == worker[w].slot
  IN  /\ worker[w].step = "push"
      /\ IF works
           THEN /\ Pushed(s, worker[w].next, worker[w].run)
                /\ worker' = [worker EXCEPT ![w].step = "mark"]
                /\ UNCHANGED faults
           ELSE /\ faults < MaxFaults /\ faults' = faults + 1
                /\ Ends(w)
      /\ UNCHANGED <<row, due, enabled, tick, drawn, late, briefs, belated>>

\* Mutant of MarkEnqueued: the whole row is written as it was.
MarkRequeued(w) ==
  LET s == worker[w].slot
  IN  /\ worker[w].step = "mark" /\ ~Locked(s)
      /\ row' = [row EXCEPT ![s].status = "pending", ![s].enqueued = TRUE]
      /\ Ends(w)
      /\ UNCHANGED <<due, enabled, tick, drawn, faults, late, briefs, belated>>

\* ... and a second commit writes enqueued_at by primary key, whatever has
\* become of the row.
MarkEnqueued(w) ==
  LET s == worker[w].slot
  IN  /\ worker[w].step = "mark" /\ ~Locked(s)
      /\ row' = [row EXCEPT ![s].enqueued = TRUE]
      /\ Ends(w)
      /\ UNCHANGED <<due, enabled, tick, drawn, faults, late, briefs, belated>>

\* The worker dies, or arq cancels the job at its timeout.
WorkerDies(w) ==
  /\ worker[w].step # "idle"
  /\ Ends(w)
  /\ UNCHANGED <<row, due, enabled, tick, drawn, faults, late, briefs, belated>>

-----------------------------------------------------------------------------
TickStep ==
  \/ TickPlans \/ TickSelectsStale \/ TickSelectsPending \/ TickCommits
  \/ \E s \in Slots : \/ TickGivesUp(s)
                      \/ \E works \in BOOLEAN :
                           TickEnqueues(s, works) \/ TickRequeues(s, works) \/ TickDrains(s, works)

WorkerStep(w) ==
  \/ \E s \in Slots, a \in Attempts : TakeJob(w, s, a)
  \/ Claim(w) \/ CheckRun(w)
  \/ GenerationSucceeds(w) \/ \E transient \in BOOLEAN : GenerationFails(w, transient)
  \/ \E works \in BOOLEAN : PushRetry(w, works)
  \/ MarkEnqueued(w)

Next ==
  \/ \E s \in Slots :
       \/ TogglesSchedule(s) \/ GraceEnds(s) \/ StartAges(s)
       \/ \E to \in Positions : ScheduleMoves(s, to)
       \/ \E a \in Attempts : ResultExpires(s, a)
  \/ TickStep \/ TickDies
  \/ \E w \in Workers : WorkerStep(w) \/ WorkerDies(w)

Spec == Init /\ [][Next]_vars

\* The cron fires every minute, jobs are taken and end by arq's timeout at
\* the latest, and time passes.  Nothing is assumed of the user or of Redis,
\* whose failures are bounded by MaxFaults.
FairSpec ==
  /\ Spec
  /\ WF_vars(TickStep)
  /\ \A w \in Workers : WF_vars(WorkerStep(w))
  /\ \A s \in Slots : WF_vars(StartAges(s))

-----------------------------------------------------------------------------
(* Properties.                                                             *)

\* "Two generation workers racing must produce exactly one brief": at most
\* one worker acts on a run, over duplicated, lost and recovered jobs.
OneWorkerPerRun ==
  \A s \in Slots :
    Cardinality({w \in Workers : worker[w].slot = s /\ worker[w].step \in {"check", "generate"}}) <= 1

\* A user gets at most one scheduled brief for a date, and the run says
\* succeeded exactly when there is one.
RunsMatchBriefs ==
  \A s \in Slots : /\ briefs[s] <= 1
                   /\ row[s].status = "succeeded" <=> briefs[s] = 1

\* A run is tried at most MAX_ATTEMPTS times, by recovery and retry together.
RunAttemptsStayBounded == \A s \in Slots : row[s].attempts <= MaxAttempts

\* One worker, one brief and a bounded number of attempts for each date.
RunsInv ==
  /\ BriefsTypeOK
  /\ OneWorkerPerRun
  /\ RunsMatchBriefs
  /\ RunAttemptsStayBounded

\* "Never runs again that day": a run that has ended stays as it ended,
\* whatever jobs for it are still queued and however the schedule moves.
EndedRunsStay ==
  [][\A s \in Slots : row[s].status \in Terminal =>
        row'[s].status = row[s].status /\ row'[s].attempts = row[s].attempts]_vars

\* A date that is due, or was missed, gets its row.
DueIsHandled ==
  \A s \in Slots :
    LET waits == row[s].status = "none" /\ enabled[s] /\ due[s] \in {"due", "missed"}
    IN  waits ~> ~waits

\* "Stuck running ... never left hanging forever".
RunsEnd == \A s \in Slots : row[s].status = "running" ~> row[s].status # "running"

\* _recover_never_enqueued: a run without a job gets one.
UnqueuedIsDrained ==
  \A s \in Slots : (row[s].status = "pending" /\ ~row[s].enqueued)
                     ~> ~(row[s].status = "pending" /\ ~row[s].enqueued)

\* A date whose time has come gets its run and the run its jobs, whatever dies.
NoDateIsForgotten == DueIsHandled /\ RunsEnd /\ UnqueuedIsDrained

\* "Crash before claiming a job: no loss"; "worker restart drains backlog: no
\* job silently lost": a pending run is picked up in the end.
PendingRunIsPickedUp ==
  \A s \in Slots : row[s].status = "pending" ~> row[s].status # "pending"

\* "Beyond 6 hours, the run is recorded skipped and never generated".
NeverGeneratedLate == \A s \in Slots : ~belated[s]
=============================================================================
