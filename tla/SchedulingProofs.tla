--------------------------- MODULE SchedulingProofs --------------------------
(***************************************************************************)
(* Theorems about what is scheduled: ScheduledBriefs, for every number of  *)
(* dates, job slots, attempts and faults; and about Rules, whatever is     *)
(* written, asked of a provider or limited.                                *)
(*                                                                         *)
(* The argument for the runs: a claim takes only a pending run, and        *)
(* recovery only one that is stale, which a worker's run never is; so one  *)
(* worker acts on a run and its row changes under no one's feet.           *)
(*                                                                         *)
(* The argument for the rules: what was read is what the rule makes of the *)
(* case, and each rule is shown to do what it should for every case.       *)
(*  - An instant: a reading has one on each side of the clock change, and  *)
(*    shows it at both, at one, or at none; what is chosen is the first.   *)
(*  - A deadline: the months follow on each other, so that a day lies in   *)
(*    one of them; the day that a phrase resolves to fits it, and the days *)
(*    before, of the same week, month or the rest of it, do not.           *)
(*  - A repeated read and a row of requests are recursive: a function with *)
(*    the stated values exists (the least number of steps without one is   *)
(*    refuted), and what is claimed of every step has no first exception.  *)
(***************************************************************************)
EXTENDS ScheduledBriefs, Rules, FiniteSetTheorems, WellFoundedInduction, TLAPS

-----------------------------------------------------------------------------
(* The inductive invariant.                                                *)

\* What may still be tried has an attempt left, and the brief, its record on
\* the row and the status succeeded come together.
RunSound(r, count) ==
  /\ r.attempts <= MaxAttempts
  /\ r.status = "pending" => r.attempts < MaxAttempts
  /\ r.brief <=> r.status = "succeeded"
  /\ count = IF r.brief THEN 1 ELSE 0

RunsAreSound == \A s \in Slots : RunSound(row[s], briefs[s])

Acting == {"check", "generate"}

\* A run that a worker acts on is running, and not up for recovery.
ActionsAreCurrent ==
  \A w \in Workers :
    /\ worker[w].step # "idle" => worker[w].slot \in Slots
    /\ worker[w].step \in Acting =>
         row[worker[w].slot].status = "running" /\ ~row[worker[w].slot].stale

ActionsAreApart ==
  \A v, w \in Workers :
    worker[v].step \in Acting /\ worker[w].step \in Acting /\ worker[v].slot = worker[w].slot
      => v = w

\* What the tick has decided about stays as it was until it commits.
TickIsCurrent ==
  /\ \A s \in tick.new \cup tick.skipped : row[s].status = "none"
  /\ tick.step = "requeue" => \A s \in tick.todo : StaleRun(row[s])
  /\ \A s \in tick.requeued \cup tick.exhausted : StaleRun(row[s])
  /\ \A s \in tick.requeued : row[s].attempts < MaxAttempts

DispatchInv ==
  /\ BriefsTypeOK
  /\ RunsAreSound
  /\ ActionsAreCurrent
  /\ ActionsAreApart
  /\ TickIsCurrent

Runs == [status : Statuses, id : Nat, attempts : Nat, job : Attempts,
         enqueued : BOOLEAN, stale : BOOLEAN, brief : BOOLEAN]
JobStates == [state : {"none", "queued", "taken", "kept"}, run : Nat]
JobTables == [Slots -> [Attempts -> JobStates]]
WorkerStates == [step : {"idle", "claim", "check", "generate", "push", "mark"},
                 slot : Slots \cup {None}, job : Attempts, run : Nat, next : Attempts]
TickStates ==
  [step : {"off", "enqueue", "requeue", "drain"}, todo : SUBSET Slots,
   new : SUBSET Slots, skipped : SUBSET Slots, requeued : SUBSET Slots,
   exhausted : SUBSET Slots, enqueued : SUBSET Slots, job : [Slots -> Attempts]]

LEMMA ZeroIsAnAttempt == 0 \in Attempts
BY BriefBounds DEF Attempts

\* What the type invariant says of each variable.
LEMMA Types ==
  ASSUME BriefsTypeOK
  PROVE  /\ row \in [Slots -> Runs] /\ jobs \in JobTables
         /\ worker \in [Workers -> WorkerStates] /\ tick \in TickStates
         /\ due \in [Slots -> Positions] /\ enabled \in [Slots -> BOOLEAN]
         /\ drawn \in [Slots -> Nat] /\ faults \in 0..MaxFaults
         /\ late \in [Slots -> BOOLEAN] /\ briefs \in [Slots -> Nat]
         /\ belated \in [Slots -> BOOLEAN]
BY DEF BriefsTypeOK, Runs, JobTables, JobStates, WorkerStates, TickStates

LEMMA TypesSuffice ==
  ASSUME row' \in [Slots -> Runs], jobs' \in JobTables,
         worker' \in [Workers -> WorkerStates], tick' \in TickStates,
         due' \in [Slots -> Positions], enabled' \in [Slots -> BOOLEAN],
         drawn' \in [Slots -> Nat], faults' \in 0..MaxFaults,
         late' \in [Slots -> BOOLEAN], briefs' \in [Slots -> Nat],
         belated' \in [Slots -> BOOLEAN]
  PROVE  BriefsTypeOK'
BY DEF BriefsTypeOK, Runs, JobTables, JobStates, WorkerStates, TickStates

LEMMA InitDispatchInv == Init => DispatchInv
<1> SUFFICES ASSUME Init PROVE DispatchInv
  OBVIOUS
<1> USE ZeroIsAnAttempt, BriefBounds DEF Init, NoRun, NoJob, IdleWorker, NoTick
<1>1. BriefsTypeOK
  BY DEF BriefsTypeOK, Statuses, Positions
<1>2. RunsAreSound
  BY DEF RunsAreSound, RunSound
<1>3. ActionsAreCurrent /\ ActionsAreApart
  BY DEF ActionsAreCurrent, ActionsAreApart, Acting
<1>4. TickIsCurrent
  BY DEF TickIsCurrent
<1> QED BY <1>1, <1>2, <1>3, <1>4 DEF DispatchInv

-----------------------------------------------------------------------------
(* What one assignment does.                                               *)

LEMMA JobUpdate ==
  ASSUME jobs \in JobTables, NEW s \in Slots, NEW a \in Attempts, NEW j \in JobStates
  PROVE  [jobs EXCEPT ![s][a] = j] \in JobTables
BY DEF JobTables

LEMMA JobStateUpdate ==
  ASSUME jobs \in JobTables, NEW s \in Slots, NEW a \in Attempts,
         NEW state \in {"none", "queued", "taken", "kept"}
  PROVE  [jobs EXCEPT ![s][a].state = state] \in JobTables
<1>1. [jobs[s][a] EXCEPT !.state = state] \in JobStates
  BY DEF JobTables, JobStates
<1>2. [jobs EXCEPT ![s][a].state = state]
        = [jobs EXCEPT ![s][a] = [jobs[s][a] EXCEPT !.state = state]]
  BY DEF JobTables
<1> QED BY <1>1, <1>2, JobUpdate

LEMMA PushedType ==
  ASSUME BriefsTypeOK, NEW s \in Slots, NEW a \in Attempts, NEW run \in Nat, Pushed(s, a, run)
  PROVE  jobs' \in JobTables
<1>1. jobs \in JobTables /\ [state |-> "queued", run |-> run] \in JobStates
  BY Types DEF JobStates
<1> QED BY <1>1, JobUpdate DEF Pushed

LEMMA TryEnqueueType ==
  ASSUME BriefsTypeOK, NEW s \in Slots, NEW a \in Attempts, NEW run \in Nat,
         NEW works \in BOOLEAN, TryEnqueue(s, a, run, works)
  PROVE  jobs' \in JobTables /\ faults' \in 0..MaxFaults
BY Types, PushedType, BriefBounds DEF TryEnqueue

LEMMA IdleWorkerType == IdleWorker \in WorkerStates /\ IdleWorker.step = "idle"
BY ZeroIsAnAttempt DEF IdleWorker, WorkerStates

LEMMA EndsType ==
  ASSUME DispatchInv, NEW w \in Workers, worker[w].step # "idle", Ends(w)
  PROVE  /\ jobs' \in JobTables
         /\ worker' = [worker EXCEPT ![w] = IdleWorker]
<1>1. /\ worker[w].slot \in Slots /\ worker[w].job \in Attempts /\ jobs \in JobTables
  BY Types DEF DispatchInv, ActionsAreCurrent, WorkerStates
<1> QED BY <1>1, JobStateUpdate DEF Ends

LEMMA WorkerUpdate ==
  ASSUME BriefsTypeOK, NEW w \in Workers, NEW x \in WorkerStates,
         worker' = [worker EXCEPT ![w] = x]
  PROVE  /\ worker' \in [Workers -> WorkerStates]
         /\ worker'[w] = x
         /\ \A other \in Workers : other # w => worker'[other] = worker[other]
BY Types

LEMMA RunUpdate ==
  ASSUME BriefsTypeOK, NEW s \in Slots, NEW r \in Runs, row' = [row EXCEPT ![s] = r]
  PROVE  /\ row' \in [Slots -> Runs]
         /\ row'[s] = r
         /\ \A other \in Slots : other # s => row'[other] = row[other]
BY Types

-----------------------------------------------------------------------------
(* Every step keeps the invariant.                                         *)

LEMMA SurroundingsInv ==
  ASSUME DispatchInv, NEW s \in Slots,
         \/ TogglesSchedule(s) \/ GraceEnds(s)
         \/ \E to \in Positions : ScheduleMoves(s, to)
         \/ \E a \in Attempts : ResultExpires(s, a)
  PROVE  DispatchInv'
<1>1. UNCHANGED <<row, worker, tick, drawn, faults, briefs, belated>>
  BY DEF TogglesSchedule, GraceEnds, ScheduleMoves, ResultExpires
<1>2. jobs' \in JobTables
  <2>1. NoJob \in JobStates /\ jobs \in JobTables
    BY Types DEF DispatchInv, NoJob, JobStates
  <2> QED BY <2>1, JobUpdate DEF TogglesSchedule, GraceEnds, ScheduleMoves, ResultExpires
<1>3. /\ due' \in [Slots -> Positions] /\ enabled' \in [Slots -> BOOLEAN]
      /\ late' \in [Slots -> BOOLEAN]
  BY Types DEF DispatchInv, TogglesSchedule, GraceEnds, ScheduleMoves, ResultExpires
<1>4. BriefsTypeOK'
  BY <1>1, <1>2, <1>3, Types, TypesSuffice DEF DispatchInv
<1>5. RunsAreSound' /\ ActionsAreCurrent' /\ ActionsAreApart' /\ TickIsCurrent'
  BY <1>1 DEF DispatchInv, RunsAreSound, ActionsAreCurrent, ActionsAreApart, TickIsCurrent
<1> QED BY <1>4, <1>5 DEF DispatchInv

LEMMA StartAgesInv ==
  ASSUME DispatchInv, NEW s \in Slots, StartAges(s)
  PROVE  DispatchInv'
<1> DEFINE new == [row[s] EXCEPT !.stale = TRUE]
<1>1. row[s] \in Runs /\ row[s].status = "running" /\ ~row[s].stale
  BY Types DEF DispatchInv, StartAges
<1>2. /\ new \in Runs /\ new.status = "running" /\ new.attempts = row[s].attempts
      /\ new.brief = row[s].brief /\ new.stale
  BY <1>1 DEF Runs
<1>3. /\ row' = [row EXCEPT ![s] = new]
      /\ UNCHANGED <<due, enabled, jobs, worker, tick, drawn, faults, late, briefs, belated>>
  BY DEF StartAges
<1> HIDE DEF new
<1>4. /\ row' \in [Slots -> Runs] /\ row'[s] = new
      /\ \A other \in Slots : other # s => row'[other] = row[other]
  BY <1>2, <1>3, RunUpdate DEF DispatchInv
<1>5. BriefsTypeOK'
  BY <1>3, <1>4, Types, TypesSuffice DEF DispatchInv
<1>6. RunsAreSound'
  BY <1>1, <1>2, <1>3, <1>4 DEF DispatchInv, RunsAreSound, RunSound
<1>7. ActionsAreCurrent' /\ ActionsAreApart'
  BY <1>3, <1>4 DEF DispatchInv, ActionsAreCurrent, ActionsAreApart, Acting, StartAges
<1>8. TickIsCurrent'
  BY <1>1, <1>2, <1>3, <1>4, Types DEF DispatchInv, TickIsCurrent, StaleRun, TickStates
<1> QED BY <1>5, <1>6, <1>7, <1>8 DEF DispatchInv

\* Before its commit the tick only decides, draws ids, pushes and counts faults.
LEMMA TickMoves ==
  ASSUME DispatchInv, tick' \in TickStates, jobs' \in JobTables, faults' \in 0..MaxFaults,
         drawn' \in [Slots -> Nat], TickIsCurrent',
         UNCHANGED <<row, due, enabled, worker, late, briefs, belated>>
  PROVE  DispatchInv'
<1>1. BriefsTypeOK'
  BY Types, TypesSuffice DEF DispatchInv
<1>2. RunsAreSound' /\ ActionsAreCurrent' /\ ActionsAreApart'
  BY DEF DispatchInv, RunsAreSound, ActionsAreCurrent, ActionsAreApart
<1> QED BY <1>1, <1>2 DEF DispatchInv

LEMMA NoTickType ==
  /\ NoTick \in TickStates /\ NoTick.step = "off" /\ NoTick.todo = {}
  /\ NoTick.new = {} /\ NoTick.skipped = {} /\ NoTick.requeued = {} /\ NoTick.exhausted = {}
BY ZeroIsAnAttempt DEF NoTick, TickStates

LEMMA TickInv ==
  ASSUME DispatchInv, TickStep \/ TickDies, ~TickCommits
  PROVE  DispatchInv'
<1>1. /\ BriefsTypeOK /\ TickIsCurrent /\ RunsAreSound
      /\ tick \in TickStates /\ jobs \in JobTables /\ faults \in 0..MaxFaults
      /\ drawn \in [Slots -> Nat] /\ row \in [Slots -> Runs]
  BY Types DEF DispatchInv
<1>2. ASSUME NEW s \in Slots
      PROVE  /\ drawn[s] \in Nat /\ row[s].id \in Nat /\ row[s].job \in Attempts
             /\ row[s].attempts \in Attempts /\ tick.job[s] \in Attempts
  BY <1>1, BriefBounds DEF Runs, TickStates, RunsAreSound, RunSound, Attempts
<1>3. ASSUME TickPlans PROVE DispatchInv'
  <2> DEFINE wanted == {s \in Slots : Wanted(s)}
             new == {s \in wanted : due[s] = "due"}
             t == [NoTick EXCEPT !.step = "enqueue", !.todo = new, !.new = new,
                                 !.skipped = wanted \ new]
  <2>1. /\ new \in SUBSET Slots /\ wanted \ new \in SUBSET Slots
        /\ \A s \in new \cup (wanted \ new) : row[s].status = "none"
    BY DEF Wanted
  <2>2. /\ tick' = t
        /\ drawn' = [s \in Slots |-> IF s \in wanted THEN drawn[s] + 1 ELSE drawn[s]]
        /\ UNCHANGED <<row, due, enabled, jobs, worker, faults, late, briefs, belated>>
    BY <1>3 DEF TickPlans
  <2>3. drawn' \in [Slots -> Nat]
    BY <1>2, <2>2
  <2> HIDE DEF wanted, new
  <2>4. /\ t \in TickStates /\ t.step = "enqueue" /\ t.new = new /\ t.skipped = wanted \ new
        /\ t.requeued = {} /\ t.exhausted = {}
    BY <2>1, NoTickType DEF TickStates
  <2> HIDE DEF t
  <2>5. TickIsCurrent'
    BY <2>1, <2>2, <2>4 DEF TickIsCurrent
  <2> QED BY <1>1, <2>2, <2>3, <2>4, <2>5, TickMoves
<1>4. ASSUME NEW s \in Slots, NEW works \in BOOLEAN, TickEnqueues(s, works) PROVE DispatchInv'
  <2> DEFINE enqueued == IF works THEN tick.enqueued \cup {s} ELSE tick.enqueued
             t == [tick EXCEPT !.todo = tick.todo \ {s}, !.enqueued = enqueued]
  <2>1. enqueued \in SUBSET Slots
    BY <1>1 DEF TickStates
  <2>2. /\ tick' = t /\ tick.step = "enqueue" /\ TryEnqueue(s, 0, drawn[s], works)
        /\ UNCHANGED <<row, due, enabled, worker, drawn, late, briefs, belated>>
    BY <1>4 DEF TickEnqueues
  <2> HIDE DEF enqueued
  <2>3. /\ t \in TickStates /\ t.step = tick.step /\ t.new = tick.new
        /\ t.skipped = tick.skipped /\ t.requeued = tick.requeued
        /\ t.exhausted = tick.exhausted
    BY <1>1, <2>1 DEF TickStates
  <2> HIDE DEF t
  <2>4. TickIsCurrent'
    BY <1>1, <2>2, <2>3 DEF TickIsCurrent
  <2>5. jobs' \in JobTables /\ faults' \in 0..MaxFaults
    BY <1>1, <1>2, <2>2, ZeroIsAnAttempt, TryEnqueueType
  <2> QED BY <1>1, <2>2, <2>3, <2>4, <2>5, TickMoves
<1>5. ASSUME TickSelectsStale PROVE DispatchInv'
  <2> DEFINE todo == {s \in Slots : StaleRun(row[s])}
             t == [tick EXCEPT !.step = "requeue", !.todo = todo]
  <2>1. todo \in SUBSET Slots /\ \A s \in todo : StaleRun(row[s])
    OBVIOUS
  <2>2. /\ tick' = t
        /\ UNCHANGED <<row, due, enabled, jobs, worker, drawn, faults, late, briefs, belated>>
    BY <1>5 DEF TickSelectsStale
  <2> HIDE DEF todo
  <2>3. /\ t \in TickStates /\ t.todo = todo /\ t.new = tick.new
        /\ t.skipped = tick.skipped /\ t.requeued = tick.requeued
        /\ t.exhausted = tick.exhausted
    BY <1>1, <2>1 DEF TickStates
  <2> HIDE DEF t
  <2>4. TickIsCurrent'
    BY <1>1, <2>1, <2>2, <2>3 DEF TickIsCurrent
  <2> QED BY <1>1, <2>2, <2>3, <2>4, TickMoves
<1>6. ASSUME NEW s \in Slots, TickGivesUp(s) PROVE DispatchInv'
  <2> DEFINE t == [tick EXCEPT !.todo = tick.todo \ {s}, !.exhausted = tick.exhausted \cup {s}]
  <2>1. /\ t \in TickStates /\ t.todo = tick.todo \ {s} /\ t.requeued = tick.requeued
        /\ t.exhausted = tick.exhausted \cup {s} /\ t.step = tick.step
        /\ t.new = tick.new /\ t.skipped = tick.skipped
    BY <1>1 DEF TickStates
  <2>2. /\ tick' = t /\ tick.step = "requeue" /\ s \in tick.todo
        /\ UNCHANGED <<row, due, enabled, jobs, worker, drawn, faults, late, briefs, belated>>
    BY <1>6 DEF TickGivesUp
  <2> HIDE DEF t
  <2>3. TickIsCurrent'
    BY <1>1, <2>1, <2>2 DEF TickIsCurrent
  <2> QED BY <1>1, <2>1, <2>2, <2>3, TickMoves
<1>7. ASSUME NEW s \in Slots, NEW works \in BOOLEAN, TickRequeues(s, works) PROVE DispatchInv'
  <2> DEFINE enqueued == IF works THEN tick.enqueued \cup {s} ELSE tick.enqueued
             t == [tick EXCEPT !.todo = tick.todo \ {s}, !.requeued = tick.requeued \cup {s},
                               !.enqueued = enqueued]
  <2>1. enqueued \in SUBSET Slots
    BY <1>1 DEF TickStates
  <2>2. /\ tick' = t /\ tick.step = "requeue" /\ s \in tick.todo
        /\ row[s].attempts < MaxAttempts
        /\ TryEnqueue(s, row[s].attempts, row[s].id, works)
        /\ UNCHANGED <<row, due, enabled, worker, drawn, late, briefs, belated>>
    BY <1>7 DEF TickRequeues, AttemptsLeft
  <2> HIDE DEF enqueued
  <2>3. /\ t \in TickStates /\ t.todo = tick.todo \ {s} /\ t.exhausted = tick.exhausted
        /\ t.requeued = tick.requeued \cup {s} /\ t.step = tick.step
        /\ t.new = tick.new /\ t.skipped = tick.skipped
    BY <1>1, <2>1 DEF TickStates
  <2> HIDE DEF t
  <2>4. TickIsCurrent'
    BY <1>1, <2>2, <2>3 DEF TickIsCurrent
  <2>5. jobs' \in JobTables /\ faults' \in 0..MaxFaults
    BY <1>1, <1>2, <2>2, TryEnqueueType
  <2> QED BY <1>1, <2>2, <2>3, <2>4, <2>5, TickMoves
<1>8. ASSUME TickSelectsPending PROVE DispatchInv'
  <2> DEFINE todo == {s \in Slots : NeverEnqueued(s)}
             job == [s \in Slots |-> JobOf(s)]
             t == [tick EXCEPT !.step = "drain", !.todo = todo, !.job = job]
  <2>1. todo \in SUBSET Slots /\ job \in [Slots -> Attempts]
    BY <1>2, ZeroIsAnAttempt DEF JobOf
  <2>2. /\ tick' = t
        /\ UNCHANGED <<row, due, enabled, jobs, worker, drawn, faults, late, briefs, belated>>
    BY <1>8 DEF TickSelectsPending
  <2> HIDE DEF todo, job
  <2>3. /\ t \in TickStates /\ t.step = "drain" /\ t.new = tick.new
        /\ t.skipped = tick.skipped /\ t.requeued = tick.requeued
        /\ t.exhausted = tick.exhausted
    BY <1>1, <2>1 DEF TickStates
  <2> HIDE DEF t
  <2>4. TickIsCurrent'
    BY <1>1, <2>2, <2>3 DEF TickIsCurrent
  <2> QED BY <1>1, <2>2, <2>3, <2>4, TickMoves
<1>9. ASSUME NEW s \in Slots, NEW works \in BOOLEAN, TickDrains(s, works) PROVE DispatchInv'
  <2> DEFINE enqueued == IF works THEN tick.enqueued \cup {s} ELSE tick.enqueued
             run == IF s \in tick.new THEN drawn[s] ELSE row[s].id
             t == [tick EXCEPT !.todo = tick.todo \ {s}, !.enqueued = enqueued]
  <2>1. enqueued \in SUBSET Slots /\ run \in Nat
    BY <1>1, <1>2 DEF TickStates
  <2>2. /\ tick' = t /\ tick.step = "drain" /\ TryEnqueue(s, tick.job[s], run, works)
        /\ UNCHANGED <<row, due, enabled, worker, drawn, late, briefs, belated>>
    BY <1>9 DEF TickDrains
  <2> HIDE DEF enqueued, run
  <2>3. /\ t \in TickStates /\ t.step = tick.step /\ t.new = tick.new
        /\ t.skipped = tick.skipped /\ t.requeued = tick.requeued
        /\ t.exhausted = tick.exhausted
    BY <1>1, <2>1 DEF TickStates
  <2> HIDE DEF t
  <2>4. TickIsCurrent'
    BY <1>1, <2>2, <2>3 DEF TickIsCurrent
  <2>5. jobs' \in JobTables /\ faults' \in 0..MaxFaults
    BY <1>1, <1>2, <2>1, <2>2, TryEnqueueType
  <2> QED BY <1>1, <2>2, <2>3, <2>4, <2>5, TickMoves
<1>10. ASSUME TickDies PROVE DispatchInv'
  <2>1. tick' = NoTick /\ faults' \in 0..MaxFaults
        /\ UNCHANGED <<row, due, enabled, jobs, worker, drawn, late, briefs, belated>>
    BY <1>1, <1>10, BriefBounds DEF TickDies
  <2>2. TickIsCurrent'
    BY <2>1, NoTickType DEF TickIsCurrent
  <2> QED BY <1>1, <2>1, <2>2, NoTickType, TickMoves
<1> QED BY <1>3, <1>4, <1>5, <1>6, <1>7, <1>8, <1>9, <1>10 DEF TickStep

\* What the commit makes of a row: a new one, or of a stale one its next
\* attempt or its end, or what it was.
LEMMA CommittedRow ==
  ASSUME DispatchInv, NEW s \in Slots
  PROVE  /\ Committed(s) \in Runs
         /\ Committed(s).status = "pending" => Committed(s).attempts < MaxAttempts
         /\ Committed(s).attempts <= MaxAttempts
         /\ \/ /\ row[s].status = "none" /\ Committed(s).status \in {"pending", "skipped"}
               /\ ~Committed(s).brief
            \/ /\ row[s].status = "running" /\ row[s].stale
               /\ Committed(s).status \in {"pending", "failed"}
               /\ Committed(s).brief = row[s].brief
            \/ /\ Committed(s).status = row[s].status /\ Committed(s).stale = row[s].stale
               /\ Committed(s).attempts = row[s].attempts /\ Committed(s).brief = row[s].brief
<1>1. /\ row[s] \in Runs /\ drawn[s] \in Nat /\ tick \in TickStates /\ TickIsCurrent
      /\ RunSound(row[s], briefs[s]) /\ row[s].attempts \in Attempts
  <2>1. row[s] \in Runs /\ drawn[s] \in Nat /\ tick \in TickStates
    BY Types DEF DispatchInv
  <2>2. RunSound(row[s], briefs[s])
    BY DEF DispatchInv, RunsAreSound
  <2> QED BY <2>1, <2>2, BriefBounds DEF DispatchInv, Runs, RunSound, Attempts
<1>2. NoRun \in Runs /\ NoRun.attempts = 0 /\ NoRun.brief = FALSE
  BY ZeroIsAnAttempt DEF NoRun, Runs, Statuses
<1>3. CASE s \in tick.new
  <2> DEFINE pushed == s \in tick.enqueued
             r == [NoRun EXCEPT !.status = "pending", !.id = drawn[s], !.enqueued = pushed]
  <2>0. pushed \in BOOLEAN
    OBVIOUS
  <2> HIDE DEF pushed
  <2>1. /\ r \in Runs /\ r.status = "pending" /\ r.attempts = 0 /\ ~r.brief
    BY <1>1, <1>2, <2>0 DEF Runs, Statuses
  <2>2. Committed(s) = r
    BY <1>3 DEF Committed, pushed
  <2> HIDE DEF r
  <2> QED BY <1>1, <1>3, <2>1, <2>2, BriefBounds DEF TickIsCurrent
<1>4. CASE s \notin tick.new /\ s \in tick.skipped
  <2> DEFINE r == [NoRun EXCEPT !.status = "skipped", !.id = drawn[s]]
  <2>1. /\ r \in Runs /\ r.status = "skipped" /\ r.attempts = 0 /\ ~r.brief
    BY <1>1, <1>2 DEF Runs, Statuses
  <2>2. Committed(s) = r
    BY <1>4 DEF Committed, SkippedRun
  <2> HIDE DEF r
  <2> QED BY <1>1, <1>4, <2>1, <2>2, BriefBounds DEF TickIsCurrent
<1>5. CASE s \notin tick.new \cup tick.skipped /\ s \in tick.exhausted
  <2> DEFINE r == [row[s] EXCEPT !.status = "failed"]
  <2>1. /\ r \in Runs /\ r.status = "failed" /\ r.attempts = row[s].attempts
        /\ r.brief = row[s].brief
    BY <1>1 DEF Runs, Statuses
  <2>2. Committed(s) = r
    BY <1>5 DEF Committed
  <2> HIDE DEF r
  <2> QED BY <1>1, <1>5, <2>1, <2>2 DEF TickIsCurrent, StaleRun, RunSound
<1>6. CASE s \notin tick.new \cup tick.skipped \cup tick.exhausted /\ s \in tick.requeued
  <2> DEFINE pushed == s \in tick.enqueued
             r == [row[s] EXCEPT !.status = "pending", !.job = row[s].attempts, !.stale = FALSE,
                                 !.enqueued = pushed]
  <2>0. pushed \in BOOLEAN
    OBVIOUS
  <2> HIDE DEF pushed
  <2>1. /\ r \in Runs /\ r.status = "pending" /\ r.attempts = row[s].attempts
        /\ r.brief = row[s].brief
    BY <1>1, <2>0 DEF Runs, Statuses
  <2>2. Committed(s) = r
    BY <1>6 DEF Committed, pushed
  <2> HIDE DEF r
  <2> QED BY <1>1, <1>6, <2>1, <2>2 DEF TickIsCurrent, StaleRun, RunSound
<1>7. CASE s \notin tick.new \cup tick.skipped \cup tick.exhausted \cup tick.requeued
  <2> DEFINE r == [row[s] EXCEPT !.enqueued = row[s].enqueued \/ s \in tick.enqueued]
  <2>1. /\ r \in Runs /\ r.status = row[s].status /\ r.attempts = row[s].attempts
        /\ r.brief = row[s].brief /\ r.stale = row[s].stale
    BY <1>1 DEF Runs
  <2>2. Committed(s) = r
    BY <1>7 DEF Committed
  <2> HIDE DEF r
  <2> QED BY <1>1, <2>1, <2>2 DEF RunSound
<1> QED BY <1>3, <1>4, <1>5, <1>6, <1>7

LEMMA TickCommitsInv ==
  ASSUME DispatchInv, TickCommits
  PROVE  DispatchInv'
<1>1. /\ tick' = NoTick
      /\ UNCHANGED <<due, enabled, jobs, worker, drawn, faults, late, briefs, belated>>
      /\ row' \in [Slots -> Runs] /\ \A s \in Slots : row'[s] = Committed(s)
  BY CommittedRow DEF TickCommits
<1>2. BriefsTypeOK'
  BY <1>1, NoTickType, Types, TypesSuffice DEF DispatchInv
<1>3. RunsAreSound'
  <2> SUFFICES ASSUME NEW s \in Slots PROVE RunSound(Committed(s), briefs[s])
    BY <1>1 DEF RunsAreSound
  <2>1. RunSound(row[s], briefs[s])
    BY DEF DispatchInv, RunsAreSound
  <2>2. row[s].brief \in BOOLEAN /\ Committed(s).brief \in BOOLEAN
    BY Types, CommittedRow DEF DispatchInv, Runs
  <2> QED BY <2>1, <2>2, CommittedRow DEF RunSound
<1>4. ActionsAreCurrent' /\ ActionsAreApart'
  BY <1>1, CommittedRow DEF DispatchInv, ActionsAreCurrent, ActionsAreApart, Acting
<1>5. TickIsCurrent'
  BY <1>1, NoTickType DEF TickIsCurrent
<1> QED BY <1>2, <1>3, <1>4, <1>5 DEF DispatchInv

-----------------------------------------------------------------------------
(* The worker.                                                             *)

\* A worker moves on without touching a row: it takes or loses a job, goes
\* from the check to the generation, or pushes the next job.
LEMMA WorkerMoves ==
  ASSUME DispatchInv, NEW w \in Workers, NEW x \in WorkerStates,
         worker' = [worker EXCEPT ![w] = x],
         x.step # "idle" => x.slot \in Slots,
         x.step \in Acting => worker[w].step \in Acting /\ x.slot = worker[w].slot,
         jobs' \in JobTables, faults' \in 0..MaxFaults,
         UNCHANGED <<row, due, enabled, tick, drawn, late, briefs, belated>>
  PROVE  DispatchInv'
<1>1. /\ worker' \in [Workers -> WorkerStates] /\ worker'[w] = x
      /\ \A other \in Workers : other # w => worker'[other] = worker[other]
  BY WorkerUpdate DEF DispatchInv
<1>2. BriefsTypeOK'
  BY <1>1, Types, TypesSuffice DEF DispatchInv
<1>3. ActionsAreCurrent' /\ ActionsAreApart'
  BY <1>1 DEF DispatchInv, ActionsAreCurrent, ActionsAreApart
<1>4. RunsAreSound' /\ TickIsCurrent'
  BY DEF DispatchInv, RunsAreSound, TickIsCurrent
<1> QED BY <1>2, <1>3, <1>4 DEF DispatchInv

\* A worker commits the row of its slot, which the tick holds nothing of.
LEMMA WorkerCommits ==
  ASSUME DispatchInv, NEW w \in Workers, NEW x \in WorkerStates, NEW r \in Runs,
         worker[w].step # "idle",
         worker' = [worker EXCEPT ![w] = x], row' = [row EXCEPT ![worker[w].slot] = r],
         RunSound(r, briefs'[worker[w].slot]),
         \A s \in Slots : s # worker[w].slot => briefs'[s] = briefs[s],
         x.step # "idle" => x.slot = worker[w].slot,
         x.step \in Acting => r.status = "running" /\ ~r.stale,
         \A v \in Workers : v # w /\ worker[v].step \in Acting => worker[v].slot # worker[w].slot,
         ~StaleRun(row[worker[w].slot]), row[worker[w].slot].status # "none",
         jobs' \in JobTables, briefs' \in [Slots -> Nat], belated' \in [Slots -> BOOLEAN],
         UNCHANGED <<due, enabled, tick, drawn, faults, late>>
  PROVE  DispatchInv'
<1>1. worker[w].slot \in Slots
  BY DEF DispatchInv, ActionsAreCurrent
<1>2. /\ worker' \in [Workers -> WorkerStates] /\ worker'[w] = x
      /\ \A other \in Workers : other # w => worker'[other] = worker[other]
  BY WorkerUpdate DEF DispatchInv
<1>3. /\ row' \in [Slots -> Runs] /\ row'[worker[w].slot] = r
      /\ \A other \in Slots : other # worker[w].slot => row'[other] = row[other]
  BY <1>1, RunUpdate DEF DispatchInv
<1>4. BriefsTypeOK'
  BY <1>2, <1>3, Types, TypesSuffice DEF DispatchInv
<1>5. RunsAreSound'
  BY <1>3 DEF DispatchInv, RunsAreSound
<1>6. ActionsAreCurrent' /\ ActionsAreApart'
  BY <1>1, <1>2, <1>3 DEF DispatchInv, ActionsAreCurrent, ActionsAreApart, Acting
<1>7. TickIsCurrent'
  <2>1. tick \in TickStates
    BY Types DEF DispatchInv
  <2> QED BY <1>3, <2>1 DEF DispatchInv, TickIsCurrent, TickStates
<1> QED BY <1>4, <1>5, <1>6, <1>7 DEF DispatchInv

LEMMA WorkerStepInv ==
  ASSUME DispatchInv, NEW w \in Workers, WorkerStep(w) \/ WorkerDies(w)
  PROVE  DispatchInv'
<1> DEFINE s == worker[w].slot
<1>1. /\ worker[w] \in WorkerStates /\ jobs \in JobTables /\ faults \in 0..MaxFaults
      /\ briefs \in [Slots -> Nat] /\ belated \in [Slots -> BOOLEAN] /\ BriefsTypeOK
  BY Types DEF DispatchInv
<1>2. ASSUME worker[w].step # "idle"
      PROVE  /\ s \in Slots /\ row[s] \in Runs /\ RunSound(row[s], briefs[s])
             /\ row[s].attempts \in Nat /\ row[s].attempts \in Attempts
  <2>1. s \in Slots
    BY <1>2 DEF DispatchInv, ActionsAreCurrent
  <2>2. row[s] \in Runs /\ RunSound(row[s], briefs[s])
    BY <2>1, Types DEF DispatchInv, RunsAreSound
  <2> QED BY <2>1, <2>2, BriefBounds DEF Runs, RunSound, Attempts
\* Of a worker that acts on a run.
<1>3. ASSUME worker[w].step \in Acting
      PROVE  /\ row[s].status = "running" /\ row[s].stale = FALSE /\ row[s].brief = FALSE
             /\ briefs[s] = 0 /\ row[s].attempts <= MaxAttempts
             /\ \A v \in Workers : v # w /\ worker[v].step \in Acting => worker[v].slot # s
  <2>1. worker[w].step # "idle"
    BY <1>3 DEF Acting
  <2>2. row[s].status = "running" /\ ~row[s].stale
    BY <1>3 DEF DispatchInv, ActionsAreCurrent
  <2>3. row[s].stale = FALSE /\ row[s].brief = FALSE
    BY <1>2, <2>1, <2>2 DEF RunSound, Runs
  <2>4. \A v \in Workers : v # w /\ worker[v].step \in Acting => worker[v].slot # s
    BY <1>3 DEF DispatchInv, ActionsAreApart
  <2> QED BY <1>2, <2>1, <2>2, <2>3, <2>4 DEF RunSound
\* The end of an acting worker's run: its row gets a final status.
<1>4. ASSUME NEW status \in {"succeeded", "failed", "skipped"}, worker[w].step \in Acting,
             NEW brief \in BOOLEAN, brief <=> status = "succeeded", Ends(w),
             row' = [row EXCEPT ![s] = [row[s] EXCEPT !.status = status, !.brief = brief]],
             briefs' = IF brief THEN [briefs EXCEPT ![s] = briefs[s] + 1] ELSE briefs,
             belated' \in [Slots -> BOOLEAN],
             UNCHANGED <<due, enabled, tick, drawn, faults, late>>
      PROVE  DispatchInv'
  <2> DEFINE r == [row[s] EXCEPT !.status = status, !.brief = brief]
  <2>1. worker[w].step # "idle"
    BY <1>4 DEF Acting
  <2>2. /\ r \in Runs /\ r.status = status /\ r.brief = brief /\ r.attempts = row[s].attempts
    BY <1>2, <1>4, <2>1 DEF Runs, Statuses
  <2>3. /\ briefs' \in [Slots -> Nat] /\ briefs'[s] = IF brief THEN 1 ELSE 0
        /\ \A t \in Slots : t # s => briefs'[t] = briefs[t]
    <3>1. CASE brief
      <4>1. briefs' = [briefs EXCEPT ![s] = briefs[s] + 1]
        BY <1>4, <3>1
      <4>2. s \in Slots /\ briefs[s] = 0 /\ briefs \in [Slots -> Nat]
        BY <1>1, <1>2, <1>3, <1>4, <2>1
      <4> HIDE DEF s
      <4> QED BY <3>1, <4>1, <4>2
    <3>2. CASE ~brief
      BY <1>1, <1>3, <1>4, <3>2
    <3> QED BY <3>1, <3>2
  <2>4. row' = [row EXCEPT ![s] = r]
    BY <1>4
  <2> HIDE DEF r
  <2>5. RunSound(r, briefs'[s])
    BY <1>3, <1>4, <2>2, <2>3 DEF RunSound
  <2>6. ~StaleRun(row[s]) /\ row[s].status # "none"
    BY <1>3, <1>4 DEF StaleRun
  <2>7. jobs' \in JobTables /\ worker' = [worker EXCEPT ![w] = IdleWorker]
    BY <1>4, <2>1, EndsType
  <2>8. IdleWorker.step \notin Acting
    BY IdleWorkerType DEF Acting
  <2> HIDE DEF s
  <2> QED BY <1>3, <1>4, <2>1, <2>2, <2>3, <2>4, <2>5, <2>6, <2>7, <2>8, IdleWorkerType,
             WorkerCommits DEF s
<1>5. ASSUME NEW t \in Slots, NEW a \in Attempts, TakeJob(w, t, a) PROVE DispatchInv'
  <2> DEFINE x == [IdleWorker EXCEPT !.step = "claim", !.slot = t, !.job = a,
                                     !.run = jobs[t][a].run]
  <2>1. jobs[t][a].run \in Nat
    BY <1>1 DEF JobTables, JobStates
  <2>2. x \in WorkerStates /\ x.step = "claim" /\ x.slot = t
    BY <2>1, IdleWorkerType DEF WorkerStates
  <2>3. jobs' \in JobTables
    BY <1>1, <1>5, JobStateUpdate DEF TakeJob
  <2>4. /\ worker' = [worker EXCEPT ![w] = x]
        /\ UNCHANGED <<row, due, enabled, tick, drawn, faults, late, briefs, belated>>
    BY <1>5 DEF TakeJob
  <2> HIDE DEF x
  <2> QED BY <1>1, <2>2, <2>3, <2>4, WorkerMoves DEF Acting
\* A job that ends and leaves its row.
<1>6. ASSUME worker[w].step # "idle", Ends(w), faults' \in 0..MaxFaults,
             UNCHANGED <<row, due, enabled, tick, drawn, late, briefs, belated>>
      PROVE  DispatchInv'
  BY <1>6, EndsType, IdleWorkerType, WorkerMoves DEF Acting
<1>7. ASSUME WorkerDies(w) PROVE DispatchInv'
  BY <1>1, <1>6, <1>7 DEF WorkerDies
<1>8. ASSUME Claim(w) PROVE DispatchInv'
  <2>1. worker[w].step = "claim"
    BY <1>8 DEF Claim
  <2>2. CASE ~(row[s].id = worker[w].run /\ Claimable(row[s]))
    BY <1>1, <1>6, <1>8, <2>1, <2>2 DEF Claim
  <2>3. CASE row[s].id = worker[w].run /\ Claimable(row[s])
    <3> DEFINE r == [row[s] EXCEPT !.status = "running", !.stale = FALSE,
                                   !.attempts = row[s].attempts + 1]
               x == [worker[w] EXCEPT !.step = "check"]
    <3>1. /\ row[s].attempts + 1 \in Nat /\ row[s].attempts + 1 <= MaxAttempts
          /\ row[s].status = "pending" /\ briefs[s] = 0
      BY <1>2, <2>1, <2>3, BriefBounds DEF RunSound, Claimable
    <3>2. /\ r \in Runs /\ r.status = "running" /\ r.stale = FALSE
          /\ r.attempts = row[s].attempts + 1 /\ r.brief = row[s].brief
      BY <1>2, <2>1, <3>1 DEF Runs, Statuses
    <3>3. x \in WorkerStates /\ x.step = "check" /\ x.slot = s
      BY <1>1 DEF WorkerStates
    <3>4. /\ row' = [row EXCEPT ![s] = r] /\ worker' = [worker EXCEPT ![w] = x]
          /\ UNCHANGED <<jobs, due, enabled, tick, drawn, faults, late, briefs, belated>>
      BY <1>2, <1>8, <2>1, <2>3 DEF Claim
    <3> HIDE DEF r, x
    <3>5. RunSound(r, briefs'[s])
      BY <1>2, <2>1, <3>1, <3>2, <3>4 DEF RunSound
    <3>6. \A v \in Workers : v # w /\ worker[v].step \in Acting => worker[v].slot # s
      BY <3>1 DEF DispatchInv, ActionsAreCurrent
    <3>7. ~StaleRun(row[s]) /\ row[s].status # "none"
      BY <3>1 DEF StaleRun
    <3> HIDE DEF s
    <3> QED BY <1>1, <2>1, <3>2, <3>3, <3>4, <3>5, <3>6, <3>7, WorkerCommits DEF s
  <2> QED BY <2>2, <2>3
<1>9. ASSUME CheckRun(w) PROVE DispatchInv'
  <2>1. worker[w].step \in Acting /\ worker[w].step = "check" /\ worker[w].step # "idle"
    BY <1>9 DEF CheckRun, Acting
  <2>2. CASE enabled[s]
    <3> DEFINE x == [worker[w] EXCEPT !.step = "generate"]
    <3>1. x \in WorkerStates /\ x.step = "generate" /\ x.slot = s
      BY <1>1 DEF WorkerStates
    <3>2. /\ worker' = [worker EXCEPT ![w] = x]
          /\ UNCHANGED <<row, jobs, due, enabled, tick, drawn, faults, late, briefs, belated>>
      BY <1>3, <1>9, <2>1, <2>2 DEF CheckRun
    <3> HIDE DEF x
    <3> QED BY <1>1, <1>2, <2>1, <3>1, <3>2, WorkerMoves
  <2>3. CASE ~enabled[s]
    <3>1. /\ row' = [row EXCEPT ![s].status = "skipped"] /\ Ends(w)
          /\ UNCHANGED <<due, enabled, tick, drawn, faults, late, briefs, belated>>
      BY <1>9, <2>3 DEF CheckRun, MarkTerminal
    <3>2. row' = [row EXCEPT ![s] = [row[s] EXCEPT !.status = "skipped", !.brief = FALSE]]
      <4>1. [row[s] EXCEPT !.status = "skipped"]
              = [row[s] EXCEPT !.status = "skipped", !.brief = FALSE]
        BY <1>2, <1>3, <2>1 DEF Runs
      <4> QED BY <1>2, <2>1, <3>1, <4>1
    <3> QED BY <1>1, <1>4, <2>1, <3>1, <3>2
  <2> QED BY <2>2, <2>3
<1>10. ASSUME GenerationSucceeds(w) PROVE DispatchInv'
  <2>1. worker[w].step \in Acting
    BY <1>10 DEF GenerationSucceeds, Acting
  <2>2. /\ row' = [row EXCEPT ![s] = [row[s] EXCEPT !.status = "succeeded", !.brief = TRUE]]
        /\ briefs' = [briefs EXCEPT ![s] = briefs[s] + 1] /\ Ends(w)
        /\ UNCHANGED <<due, enabled, tick, drawn, faults, late>>
    BY <1>10 DEF GenerationSucceeds
  <2>3. belated' \in [Slots -> BOOLEAN]
    BY <1>1, <1>10, Types DEF GenerationSucceeds
  <2> QED BY <1>4, <2>1, <2>2, <2>3
<1>11. ASSUME NEW transient \in BOOLEAN, GenerationFails(w, transient) PROVE DispatchInv'
  <2>1. worker[w].step \in Acting /\ worker[w].step # "idle"
    BY <1>11 DEF GenerationFails, Acting
  <2>2. CASE transient /\ AttemptsLeft(row[s])
    <3> DEFINE r == [row[s] EXCEPT !.status = "pending", !.job = row[s].attempts,
                                   !.enqueued = FALSE]
               x == [worker[w] EXCEPT !.step = "push", !.next = row[s].attempts]
    <3>1. /\ r \in Runs /\ r.status = "pending" /\ r.attempts = row[s].attempts
          /\ r.brief = row[s].brief
      BY <1>2, <2>1 DEF Runs, Statuses
    <3>2. x \in WorkerStates /\ x.step = "push" /\ x.slot = s
      BY <1>1, <1>2, <2>1 DEF WorkerStates
    <3>3. /\ row' = [row EXCEPT ![s] = r] /\ worker' = [worker EXCEPT ![w] = x]
          /\ UNCHANGED <<jobs, due, enabled, tick, drawn, faults, late, briefs, belated>>
      BY <1>11, <2>2 DEF GenerationFails
    <3> HIDE DEF r, x
    <3>4. RunSound(r, briefs'[s])
      BY <1>3, <2>1, <2>2, <3>1, <3>3 DEF RunSound, AttemptsLeft
    <3>5. ~StaleRun(row[s]) /\ row[s].status # "none"
      BY <1>3, <2>1 DEF StaleRun
    <3>6. /\ \A v \in Workers : v # w /\ worker[v].step \in Acting => worker[v].slot # s
          /\ x.step \notin Acting
      BY <1>3, <2>1, <3>2 DEF Acting
    <3> HIDE DEF s
    <3> QED BY <1>1, <2>1, <3>1, <3>2, <3>3, <3>4, <3>5, <3>6, WorkerCommits DEF s
  <2>3. CASE ~(transient /\ AttemptsLeft(row[s]))
    <3>1. /\ row' = [row EXCEPT ![s].status = "failed"] /\ Ends(w)
          /\ UNCHANGED <<due, enabled, tick, drawn, faults, late, briefs, belated>>
      BY <1>11, <2>3 DEF GenerationFails, MarkTerminal
    <3>2. row' = [row EXCEPT ![s] = [row[s] EXCEPT !.status = "failed", !.brief = FALSE]]
      <4>1. [row[s] EXCEPT !.status = "failed"]
              = [row[s] EXCEPT !.status = "failed", !.brief = FALSE]
        BY <1>2, <1>3, <2>1 DEF Runs
      <4> QED BY <1>2, <2>1, <3>1, <4>1
    <3> QED BY <1>1, <1>4, <2>1, <3>1, <3>2
  <2> QED BY <2>2, <2>3
<1>12. ASSUME NEW works \in BOOLEAN, PushRetry(w, works) PROVE DispatchInv'
  <2>1. worker[w].step = "push" /\ worker[w].next \in Attempts /\ worker[w].run \in Nat
    BY <1>1, <1>12 DEF PushRetry, WorkerStates
  <2>2. CASE works
    <3> DEFINE x == [worker[w] EXCEPT !.step = "mark"]
    <3>1. x \in WorkerStates /\ x.step = "mark" /\ x.slot = s
      BY <1>1 DEF WorkerStates
    <3>2. /\ worker' = [worker EXCEPT ![w] = x] /\ Pushed(s, worker[w].next, worker[w].run)
          /\ UNCHANGED <<row, due, enabled, tick, drawn, faults, late, briefs, belated>>
      BY <1>12, <2>2 DEF PushRetry
    <3>3. jobs' \in JobTables
      BY <1>1, <1>2, <2>1, <3>2, PushedType
    <3> HIDE DEF x
    <3> QED BY <1>1, <1>2, <2>1, <3>1, <3>2, <3>3, WorkerMoves DEF Acting
  <2>3. CASE ~works
    <3>1. faults' \in 0..MaxFaults /\ Ends(w)
          /\ UNCHANGED <<row, due, enabled, tick, drawn, late, briefs, belated>>
      BY <1>1, <1>12, <2>3, BriefBounds DEF PushRetry
    <3> QED BY <1>6, <2>1, <3>1
  <2> QED BY <2>2, <2>3
<1>13. ASSUME MarkEnqueued(w) PROVE DispatchInv'
  <2> DEFINE r == [row[s] EXCEPT !.enqueued = TRUE]
  <2>1. worker[w].step = "mark"
    BY <1>13 DEF MarkEnqueued
  <2>2. /\ r \in Runs /\ r.status = row[s].status /\ r.attempts = row[s].attempts
        /\ r.brief = row[s].brief /\ r.stale = row[s].stale
    BY <1>2, <2>1 DEF Runs
  <2>3. /\ row' = [row EXCEPT ![s] = r] /\ Ends(w)
        /\ UNCHANGED <<due, enabled, tick, drawn, faults, late, briefs, belated>>
    BY <1>13 DEF MarkEnqueued
  <2>4. /\ row' \in [Slots -> Runs] /\ row'[s] = r
        /\ \A t \in Slots : t # s => row'[t] = row[t]
    BY <1>1, <1>2, <2>1, <2>2, <2>3, RunUpdate
  <2>5. /\ jobs' \in JobTables /\ worker' = [worker EXCEPT ![w] = IdleWorker]
    BY <2>1, <2>3, EndsType
  <2>6. /\ worker' \in [Workers -> WorkerStates] /\ worker'[w] = IdleWorker
        /\ \A v \in Workers : v # w => worker'[v] = worker[v]
    BY <1>1, <2>5, IdleWorkerType, WorkerUpdate
  <2>7. BriefsTypeOK'
    BY <1>1, <2>3, <2>4, <2>5, <2>6, Types, TypesSuffice
  <2>8. RunsAreSound'
    BY <2>2, <2>3, <2>4 DEF DispatchInv, RunsAreSound, RunSound
  <2>9. ActionsAreCurrent' /\ ActionsAreApart'
    <3>1. \A t \in Slots : row'[t].status = row[t].status /\ row'[t].stale = row[t].stale
      BY <2>2, <2>4
    <3>2. \A v \in Workers : worker'[v].step # "idle" => worker'[v] = worker[v]
      BY <2>6, IdleWorkerType
    <3> QED BY <3>1, <3>2 DEF DispatchInv, ActionsAreCurrent, ActionsAreApart, Acting
  <2>10. TickIsCurrent'
    <3>1. tick \in TickStates
      BY Types DEF DispatchInv
    <3> QED BY <2>2, <2>3, <2>4, <3>1 DEF DispatchInv, TickIsCurrent, StaleRun, TickStates
  <2> QED BY <2>7, <2>8, <2>9, <2>10 DEF DispatchInv
<1> QED BY <1>5, <1>7, <1>8, <1>9, <1>10, <1>11, <1>12, <1>13 DEF WorkerStep

LEMMA NextDispatchInv ==
  ASSUME DispatchInv, [Next]_vars
  PROVE  DispatchInv'
<1>1. CASE Next
  BY <1>1, SurroundingsInv, StartAgesInv, TickInv, TickCommitsInv, WorkerStepInv DEF Next
<1>2. CASE UNCHANGED vars
  <2>1. BriefsTypeOK'
    BY <1>2, Types, TypesSuffice DEF DispatchInv, vars
  <2> QED BY <1>2, <2>1 DEF DispatchInv, RunsAreSound, ActionsAreCurrent, ActionsAreApart,
             TickIsCurrent, vars
<1> QED BY <1>1, <1>2

LEMMA DispatchInvariant == Spec => []DispatchInv
BY InitDispatchInv, NextDispatchInv, PTL DEF Spec

-----------------------------------------------------------------------------
(* What it means for the dates.                                            *)

LEMMA AtMostOneElement ==
  ASSUME NEW S, \A x, y \in S : x = y
  PROVE  Cardinality(S) <= 1
<1>1. CASE S = {}
  BY <1>1, FS_EmptySet
<1>2. ASSUME NEW x \in S PROVE Cardinality(S) <= 1
  <2>1. S = {x}
    OBVIOUS
  <2> QED BY <2>1, FS_Singleton
<1> QED BY <1>1, <1>2

\* For every date at most one worker acts on the run, at most one brief is
\* committed, the run says succeeded exactly when there is one, and it is
\* tried at most MAX_ATTEMPTS times: over duplicated, lost and late jobs,
\* deaths of workers and of the cron, and every move of the schedule.
THEOREM DatesAreSound == Spec => []RunsInv
<1>1. DispatchInv => RunsInv
  <2> SUFFICES ASSUME DispatchInv PROVE RunsInv
    OBVIOUS
  <2>1. OneWorkerPerRun
    BY AtMostOneElement DEF OneWorkerPerRun, DispatchInv, ActionsAreApart, Acting
  <2>2. RunsMatchBriefs /\ RunAttemptsStayBounded
    <3> SUFFICES ASSUME NEW s \in Slots
                 PROVE  /\ briefs[s] <= 1 /\ row[s].attempts <= MaxAttempts
                        /\ row[s].status = "succeeded" <=> briefs[s] = 1
      BY DEF RunsMatchBriefs, RunAttemptsStayBounded
    <3> QED BY DEF DispatchInv, RunsAreSound, RunSound
  <2> QED BY <2>1, <2>2 DEF RunsInv, DispatchInv
<1> QED BY <1>1, DispatchInvariant, PTL

\* "Never runs again that day": the row of a run that has ended keeps its
\* status and its attempts, whichever jobs for it are still queued.
THEOREM EndedRunsAreFinal == Spec => EndedRunsStay
<1>1. ASSUME DispatchInv, [Next]_vars, NEW s \in Slots, row[s].status \in Terminal
      PROVE  row'[s].status = row[s].status /\ row'[s].attempts = row[s].attempts
  <2> DEFINE Kept == row'[s].status = row[s].status /\ row'[s].attempts = row[s].attempts
  <2>1. row \in [Slots -> Runs] /\ row[s].status \notin {"none", "pending", "running"}
    BY <1>1, Types DEF DispatchInv, Terminal
  <2>2. UNCHANGED row => Kept
    OBVIOUS
  <2>3. ASSUME NEW w \in Workers, WorkerStep(w) \/ WorkerDies(w) PROVE Kept
    <3>1. worker[w].step \in Acting => worker[w].slot # s
      BY <1>1, <2>1 DEF DispatchInv, ActionsAreCurrent
    <3>2. CASE Claim(w)
      BY <2>1, <3>2 DEF Claim, Claimable
    <3>3. ASSUME CheckRun(w) \/ GenerationSucceeds(w)
                 \/ \E transient \in BOOLEAN : GenerationFails(w, transient)
          PROVE  Kept
      BY <2>1, <3>1, <3>3 DEF CheckRun, GenerationSucceeds, GenerationFails, MarkTerminal, Acting
    <3>4. CASE MarkEnqueued(w)
      BY <2>1, <3>4 DEF MarkEnqueued, Runs
    <3> QED BY <2>2, <2>3, <3>2, <3>3, <3>4 DEF WorkerStep, TakeJob, PushRetry, WorkerDies
  <2>4. ASSUME NEW t \in Slots, StartAges(t) PROVE Kept
    BY <2>1, <2>4 DEF StartAges
  <2>5. TickStep \/ TickDies => Kept
    <3>1. CASE TickCommits
      BY <1>1, <2>1, <3>1, CommittedRow DEF TickCommits
    <3> QED BY <2>2, <3>1 DEF TickStep, TickPlans, TickEnqueues, TickSelectsStale, TickGivesUp,
               TickRequeues, TickSelectsPending, TickDrains, TickDies
  <2>6. ASSUME NEW t \in Slots,
               \/ TogglesSchedule(t) \/ GraceEnds(t)
               \/ \E to \in Positions : ScheduleMoves(t, to)
               \/ \E a \in Attempts : ResultExpires(t, a)
        PROVE  Kept
    BY <2>2, <2>6 DEF TogglesSchedule, GraceEnds, ScheduleMoves, ResultExpires
  <2>7. UNCHANGED vars => Kept
    BY <2>2 DEF vars
  <2> HIDE DEF Kept
  <2>8. Kept
    BY <1>1, <2>3, <2>4, <2>5, <2>6, <2>7 DEF Next
  <2> QED BY <2>8 DEF Kept
<1>2. DispatchInv /\ [Next]_vars =>
        [\A s \in Slots : row[s].status \in Terminal =>
           row'[s].status = row[s].status /\ row'[s].attempts = row[s].attempts]_vars
  BY <1>1
<1> QED BY <1>2, DispatchInvariant, PTL DEF Spec, EndedRunsStay

-----------------------------------------------------------------------------
(* Numbers.                                                                *)

LEMMA PairBounds ==
  ASSUME NEW a \in Int, NEW b \in Int
  PROVE  /\ Min({a, b}) = IF a <= b THEN a ELSE b
         /\ Max({a, b}) = IF a <= b THEN b ELSE a
<1>1. \A x \in {a, b} : x = a \/ x = b
  OBVIOUS
<1> QED BY <1>1 DEF Min, Max

\* The least number of a set is its minimum.
LEMMA LeastIsMin ==
  ASSUME NEW S \in SUBSET Int, NEW x \in S, \A y \in S : x <= y
  PROVE  Min(S) = x
<1>1. \A y \in S : (\A u \in S : y <= u) => y = x
  OBVIOUS
<1> QED BY <1>1 DEF Min

\* Some number of a set of numbers is the least.
LEMMA LeastNumber ==
  ASSUME NEW S \in SUBSET Nat, S # {}
  PROVE  \E x \in S : \A y \in S : x <= y
<1>1. PICK R : R = OpToRel(<, Nat)
  OBVIOUS
<1>2. PICK x \in S : \A y \in S : ~(<<y, x>> \in R)
  BY <1>1, NatLessThanWellFounded, WFMin
<1>3. \A m, n \in Nat : <<m, n>> \in R <=> m < n
  BY <1>1 DEF OpToRel
<1>4. ASSUME NEW y \in S PROVE x <= y
  <2>1. x \in Nat /\ y \in Nat /\ ~(y < x)
    BY <1>2, <1>3
  <2> QED BY <2>1
<1> QED BY <1>4

LEMMA MinIsLeast ==
  ASSUME NEW S \in SUBSET Nat, S # {}
  PROVE  Min(S) \in S /\ \A y \in S : Min(S) <= y
<1>1. PICK x \in S : \A y \in S : x <= y
  BY LeastNumber
<1> QED BY <1>1 DEF Min

\* The sums of the first values of d, as a function that is defined by its
\* own values.
Sums(d, S) == CHOOSE s : s = [i \in S |-> IF i = 1 THEN 0 ELSE s[i - 1] + d[i - 1]]

LEMMA SumsExist ==
  ASSUME NEW d, NEW n \in Nat
  PROVE  \E s : s = [i \in 1..n |-> IF i = 1 THEN 0 ELSE s[i - 1] + d[i - 1]]
<1> DEFINE Sum(s, m) == s = [i \in 1..m |-> IF i = 1 THEN 0 ELSE s[i - 1] + d[i - 1]]
           Without == {m \in Nat : ~\E s : Sum(s, m)}
<1>1. SUFFICES ASSUME Without # {} PROVE FALSE
  OBVIOUS
<1>2. PICK m \in Without : \A k \in Without : m <= k
  BY <1>1, LeastNumber
<1>3. m # 0
  <2>1. \E s : s = [i \in 1..0 |-> IF i = 1 THEN 0 ELSE s[i - 1] + d[i - 1]]
    <3>1. 1..0 = {}
      OBVIOUS
    <3> QED BY <3>1
  <2>2. m = 0 => \E s : Sum(s, m)
    BY <2>1
  <2> QED BY <1>2, <2>2
<1>4. m - 1 \in Nat /\ m - 1 \notin Without
  <2>1. m \in Nat /\ m # 0
    BY <1>2, <1>3
  <2>2. m - 1 \in Nat /\ ~(m <= m - 1)
    BY <2>1
  <2> HIDE DEF Without
  <2> QED BY <1>2, <2>2
<1>5. PICK s : Sum(s, m - 1)
  BY <1>4
<1>6. PICK t : t = [i \in 1..m |-> IF i = 1 THEN 0
                                   ELSE IF i = m THEN s[m - 1] + d[m - 1] ELSE s[i - 1] + d[i - 1]]
  OBVIOUS
<1>7. ASSUME NEW i \in 1..(m - 1) PROVE t[i] = s[i]
  <2>1. m \in Nat /\ i \in 1..m /\ i # m
    BY <1>2
  <2>2. s[i] = IF i = 1 THEN 0 ELSE s[i - 1] + d[i - 1]
    BY <1>5
  <2>3. t[i] = IF i = 1 THEN 0 ELSE s[i - 1] + d[i - 1]
    BY <1>6, <2>1
  <2> QED BY <2>2, <2>3
<1>8. ASSUME NEW i \in 1..m PROVE t[i] = IF i = 1 THEN 0 ELSE t[i - 1] + d[i - 1]
  <2>1. CASE i = 1
    BY <2>1, <1>6
  <2>2. CASE i # 1
    <3>1. m \in Nat
      BY <1>2
    <3>2. i - 1 \in 1..(m - 1)
      BY <2>2, <3>1
    <3>3. t[i - 1] = s[i - 1]
      BY <3>2, <1>7
    <3>4. t[i] = s[i - 1] + d[i - 1]
      <4>1. CASE i = m
        BY <2>2, <1>6, <4>1
      <4>2. CASE i # m
        BY <2>2, <1>6, <4>2
      <4> QED BY <4>1, <4>2
    <3> QED BY <2>2, <3>3, <3>4
  <2> QED BY <2>1, <2>2
<1>9. Sum(t, m)
  BY <1>6, <1>8
<1> QED BY <1>2, <1>9

LEMMA SumsAdd ==
  ASSUME NEW n \in Nat, NEW S, S = 1..n, NEW d, \A i \in 1..n : d[i] \in Int,
         NEW s, s = Sums(d, S)
  PROVE  /\ \A i \in 1..n : s[i] \in Int
         /\ n > 0 => s[1] = 0
         /\ \A i \in 1..(n - 1) : s[i + 1] = s[i] + d[i]
<1>2. s = [i \in 1..n |-> IF i = 1 THEN 0 ELSE s[i - 1] + d[i - 1]]
  <2>1. s = Sums(d, 1..n)
    OBVIOUS
  <2> QED BY <2>1, SumsExist DEF Sums
<1> DEFINE Odd == {i \in 1..n : s[i] \notin Int}
<1>3. ASSUME Odd # {} PROVE FALSE
  <2>1. Odd \in SUBSET Nat
    OBVIOUS
  <2> HIDE DEF Odd
  <2>9. PICK m \in Odd : \A k \in Odd : m <= k
    BY <1>3, <2>1, LeastNumber
  <2> USE DEF Odd
  <2>2. m \in 1..n /\ m # 1
    BY <1>2, <2>9
  <2>3. m - 1 \in 1..n /\ m - 1 \notin Odd
    <3>1. m - 1 \in 1..n /\ ~(m <= m - 1)
      BY <2>2
    <3> HIDE DEF Odd
    <3> QED BY <2>9, <3>1
  <2>4. s[m] = s[m - 1] + d[m - 1] /\ d[m - 1] \in Int
    BY <1>2, <2>9, <2>2, <2>3
  <2> QED BY <2>9, <2>3, <2>4
<1>4. ASSUME NEW i \in 1..(n - 1) PROVE s[i + 1] = s[i] + d[i]
  <2>1. i + 1 \in 1..n /\ i + 1 # 1 /\ (i + 1) - 1 = i
    OBVIOUS
  <2> QED BY <2>1, <1>2
<1>5. n > 0 => s[1] = 0
  BY <1>2
<1> QED BY <1>3, <1>4, <1>5

-----------------------------------------------------------------------------
(* The instant of a briefing.                                              *)

\* One offset before the change, another after it.
LEMMA InstantIs ==
  ASSUME NEW z \in [at : Int, before : Int, after : Int], NEW wall \in Int
  PROVE  /\ Instant(wall, z, 0) =
              IF \/ z.before <= z.after /\ wall < z.at + z.after
                 \/ z.after < z.before /\ wall < z.at + z.before
              THEN wall - z.before ELSE wall - z.after
         /\ Instant(wall, z, 1) =
              IF \/ z.before <= z.after /\ wall < z.at + z.before
                 \/ z.after < z.before /\ wall < z.at + z.after
              THEN wall - z.before ELSE wall - z.after
<1>1. z.at \in Int /\ z.before \in Int /\ z.after \in Int
  OBVIOUS
<1>2. PICK low : low = Min({z.before, z.after})
  OBVIOUS
<1>3. PICK high : high = Max({z.before, z.after})
  OBVIOUS
<1>4. /\ low = IF z.before <= z.after THEN z.before ELSE z.after
      /\ high = IF z.before <= z.after THEN z.after ELSE z.before
  BY <1>1, <1>2, <1>3, PairBounds
<1>5. /\ Instant(wall, z, 0) = wall - (IF wall < z.at + high THEN z.before ELSE z.after)
      /\ Instant(wall, z, 1) = wall - (IF wall < z.at + low THEN z.before ELSE z.after)
  BY <1>2, <1>3 DEF Instant
<1> QED BY <1>1, <1>4, <1>5

\* The first instant at which the clock shows the wall or has passed it.
FirstInstant(u, wall, z) ==
  /\ u \in Int /\ Local(u, z) >= wall
  /\ \A earlier \in Int : earlier < u => Local(earlier, z) < wall

LEMMA GapEnds ==
  ASSUME NEW z \in [at : Int, before : Int, after : Int], NEW wall \in Int,
         z.after - z.before <= GapSearchBound,
         z.at + z.before <= wall, wall < z.at + z.after
  PROVE  AfterGap(wall, z) = z.at
<1>1. /\ z.at \in Int /\ z.before \in Int /\ z.after \in Int /\ z.before < z.after
      /\ GapSearchBound \in Int
  BY DEF GapSearchBound
<1>2. PICK found : found = {w \in wall..(wall + GapSearchBound) : Local(Instant(w, z, 0), z) = w}
  OBVIOUS
<1>3. z.at + z.after \in found
  <2>1. z.at + z.after \in wall..(wall + GapSearchBound)
    BY <1>1
  <2>2. Instant(z.at + z.after, z, 0) = z.at
    BY <1>1, InstantIs
  <2> QED BY <1>1, <1>2, <2>1, <2>2 DEF Local
<1>4. \A w \in found : z.at + z.after <= w
  <2> SUFFICES ASSUME NEW w \in found, w < z.at + z.after PROVE FALSE
    BY <1>1, <1>2
  <2>1. w \in Int /\ w >= wall /\ Local(Instant(w, z, 0), z) = w
    BY <1>1, <1>2
  <2>2. Instant(w, z, 0) = w - z.before
    BY <1>1, <2>1, InstantIs
  <2> QED BY <1>1, <2>1, <2>2 DEF Local
<1>5. Min(found) = z.at + z.after
  BY <1>1, <1>2, <1>3, <1>4, LeastIsMin
<1>6. Instant(z.at + z.after, z, 0) = z.at
  BY <1>1, InstantIs
<1> QED BY <1>2, <1>3, <1>5, <1>6 DEF AfterGap

LEMMA ResolvesToTheFirst ==
  ASSUME NEW z \in [at : Int, before : Int, after : Int], NEW wall \in Int,
         z.after - z.before <= GapSearchBound
  PROVE  FirstInstant(ResolveLocal(wall, z), wall, z)
<1>1. z.at \in Int /\ z.before \in Int /\ z.after \in Int
  OBVIOUS
<1>2. PICK u0 : u0 = Instant(wall, z, 0)
  OBVIOUS
<1>3. PICK u1 : u1 = Instant(wall, z, 1)
  OBVIOUS
<1>4. Exists(wall, z) = {u \in {u0, u1} : Local(u, z) = wall}
  BY <1>2, <1>3 DEF Exists
<1>5. CASE z.at + z.before <= wall /\ wall < z.at + z.after
  <2>1. u0 = wall - z.before /\ u1 = wall - z.after
    BY <1>1, <1>2, <1>3, <1>5, InstantIs
  <2>2. Local(u0, z) # wall /\ Local(u1, z) # wall
    BY <1>1, <1>5, <2>1 DEF Local
  <2>3. ResolveLocal(wall, z) = z.at
    BY <1>4, <1>5, <2>2, GapEnds DEF ResolveLocal
  <2> QED BY <1>1, <1>5, <2>3 DEF FirstInstant, Local
<1>6. CASE ~(z.at + z.before <= wall /\ wall < z.at + z.after)
  <2>1. PICK u : u = IF wall < z.at + z.before THEN wall - z.before ELSE wall - z.after
    OBVIOUS
  <2>2. u \in Int /\ u \in {u0, u1} /\ u0 \in Int /\ u1 \in Int
    BY <1>1, <1>2, <1>3, <1>6, <2>1, InstantIs
  <2>3. Local(u, z) = wall
    BY <1>1, <1>6, <2>1 DEF Local
  <2>4. \A v \in Exists(wall, z) : u <= v
    BY <1>1, <1>2, <1>3, <1>4, <1>6, <2>1, <2>2, InstantIs DEF Local
  <2>5. Min(Exists(wall, z)) = u
    BY <1>4, <2>2, <2>3, <2>4, LeastIsMin
  <2>6. ResolveLocal(wall, z) = u
    BY <1>4, <2>2, <2>3, <2>5 DEF ResolveLocal
  <2> QED BY <1>1, <1>6, <2>1, <2>2, <2>3, <2>6 DEF FirstInstant, Local
<1> QED BY <1>5, <1>6

LEMMA TheFirstInWindow ==
  ASSUME NEW z \in [at : Int, before : Int, after : Int], NEW wall \in Int, NEW u,
         z.after - z.before <= GapSearchBound, FirstInstant(u, wall, z)
  PROVE  u = Min({v \in (wall - Max({z.before, z.after}))
                         ..(wall - Min({z.before, z.after}) + GapSearchBound) : Local(v, z) >= wall})
<1>1. /\ z.at \in Int /\ z.before \in Int /\ z.after \in Int /\ u \in Int
      /\ GapSearchBound \in Int /\ GapSearchBound >= 0
  BY DEF FirstInstant, GapSearchBound
<1>2. PICK low \in Int : /\ low = Min({z.before, z.after})
                         /\ low = IF z.before <= z.after THEN z.before ELSE z.after
  BY <1>1, PairBounds
<1>3. PICK high \in Int : /\ high = Max({z.before, z.after})
                          /\ high = IF z.before <= z.after THEN z.after ELSE z.before
  BY <1>1, PairBounds
<1>4. PICK S : S = {v \in (wall - high)..(wall - low + GapSearchBound) : Local(v, z) >= wall}
  OBVIOUS
<1>5. u >= wall - high
  <2>1. Local(u, z) >= wall
    BY DEF FirstInstant
  <2> QED BY <1>1, <1>3, <2>1 DEF Local
<1>6. u <= wall - low
  <2>1. wall - low \in Int /\ Local(wall - low, z) >= wall
    BY <1>1, <1>2 DEF Local
  <2>2. ~(wall - low < u)
    BY <1>1, <2>1 DEF FirstInstant, Local
  <2> QED BY <1>1, <1>2, <2>2
<1>7. u \in S
  BY <1>1, <1>2, <1>3, <1>4, <1>5, <1>6 DEF FirstInstant
<1>8. \A v \in S : u <= v
  BY <1>1, <1>2, <1>3, <1>4 DEF FirstInstant, Local
<1>9. S \in SUBSET Int
  BY <1>1, <1>2, <1>3, <1>4
<1> QED BY <1>2, <1>3, <1>4, <1>7, <1>8, <1>9, LeastIsMin

-----------------------------------------------------------------------------
(* Requests.                                                               *)

LEMMA Minutes ==
  \A h \in 0..23, m \in 0..59 :
    60 * h + m \in 0..1439 /\ (60 * h + m) % 60 = m /\ (60 * h + m) \div 60 = h
OBVIOUS

LEMMA NoonAndMidnight ==
  ASSUME NEW h \in 1..12
  PROVE  /\ h % 12 \in 0..11 /\ (h % 12) % 12 = h % 12
         /\ (h % 12) + 12 \in 12..23 /\ ((h % 12) + 12) % 12 = h % 12
OBVIOUS

\* A clock is read as a time that it can mean.
LEMMA ClockIsMeant ==
  ASSUME Null \notin Int \cup Halves, NEW c \in ClockRows, NEW half \in {Null} \cup Halves,
         Clock(c, half) # Null
  PROVE  Clock(c, half) \in Meant(c, half) /\ Clock(c, half) \in 0..1439
<1>1. PICK h \in 0..99 : h = c.h
  BY DEF ClockRows
<1>2. PICK m \in 0..99 : m = OrElse(c.m, 0)
  BY DEF ClockRows, OrElse
<1>3. PICK t : t = Clock(c, half)
  OBVIOUS
<1>4. t = Hour24([h |-> h, m |-> m, half |-> half]) /\ t # Null
  BY <1>1, <1>2, <1>3 DEF Clock
<1>5. CASE half = Null
  <2>1. h \in 0..23 /\ m \in 0..59 /\ t = 60 * h + m
    BY <1>4, <1>5 DEF Hour24
  <2>2. t \in 0..1439 /\ t % 60 = m /\ t \div 60 = h
    BY <2>1, Minutes
  <2> QED BY <1>1, <1>2, <1>3, <1>5, <2>2 DEF Meant
<1>6. CASE half # Null
  <2>1. h \in 1..12 /\ m \in 0..59 /\ t = 60 * ((h % 12) + (IF half = "pm" THEN 12 ELSE 0)) + m
    BY <1>4, <1>6 DEF Hour24
  <2>2. PICK g \in 0..23 : /\ g = (h % 12) + (IF half = "pm" THEN 12 ELSE 0)
                           /\ g % 12 = h % 12 /\ (g >= 12 <=> half = "pm")
    BY <1>6, <2>1, NoonAndMidnight DEF Halves
  <2>3. t \in 0..1439 /\ t % 60 = m /\ t \div 60 = g
    <3>1. PICK n \in 0..59 : n = m
      BY <2>1
    <3>2. t = 60 * g + n
      BY <2>1, <2>2, <3>1
    <3>3. t \in 0..1439 /\ t % 60 = n /\ t \div 60 = g
      BY <3>2, Minutes
    <3> QED BY <3>1, <3>3
  <2>4. t >= 720 <=> g >= 12
    BY <2>1, <2>2
  <2> QED BY <1>1, <1>2, <1>3, <1>6, <2>2, <2>3, <2>4 DEF Meant
<1> QED BY <1>5, <1>6

\* The two ways in which a request states its times.
FromTheRange(r, start, end) ==
  /\ r.range # Null
  /\ start \in 0..1439 /\ start \in Meant(r.range.s, StartHalf(r.range))
  /\ end \in 0..1439 /\ end \in Meant(r.range.e, EndHalf(r.range))
FromTheSingle(r, start) ==
  r.single # Null /\ start \in 0..1439 /\ start \in Meant(r.single, r.single.half)

LEMMA TimesAreStated ==
  ASSUME Null \notin Int \cup Halves, NEW r \in RequestRows, ExtractTimes(r)[1] # Null
  PROVE  \/ FromTheRange(r, ExtractTimes(r)[1], ExtractTimes(r)[2])
         \/ FromTheSingle(r, ExtractTimes(r)[1]) /\ ExtractTimes(r)[2] = Null
<1>1. PICK start : start = Clock(r.range.s, StartHalf(r.range))
  OBVIOUS
<1>2. PICK end : end = Clock(r.range.e, EndHalf(r.range))
  OBVIOUS
<1>3. CASE r.range # Null /\ start # Null /\ end # Null
             /\ ExtractTimes(r) = <<start, end>>
  <2>1. /\ r.range.s \in ClockRows /\ r.range.e \in ClockRows
        /\ StartHalf(r.range) \in {Null} \cup Halves /\ EndHalf(r.range) \in {Null} \cup Halves
    <3>1. PICK range \in [s : ClockRows, e : ClockRows] : range = r.range
      BY <1>3 DEF RequestRows
    <3>2. /\ range.s.half \in {Null} \cup Halves /\ range.e.half \in {Null} \cup Halves
      BY <3>1 DEF ClockRows
    <3> QED BY <3>1, <3>2 DEF StartHalf, EndHalf, OrElse
  <2>2. start \in Meant(r.range.s, StartHalf(r.range)) /\ start \in 0..1439
    BY <1>1, <1>3, <2>1, ClockIsMeant
  <2>3. end \in Meant(r.range.e, EndHalf(r.range)) /\ end \in 0..1439
    BY <1>2, <1>3, <2>1, ClockIsMeant
  <2> QED BY <1>3, <2>2, <2>3 DEF FromTheRange
<1>4. CASE r.single # Null /\ ExtractTimes(r) = <<Clock(r.single, r.single.half), Null>>
  <2>1. r.single \in ClockRows /\ r.single.half \in {Null} \cup Halves
    BY <1>4 DEF RequestRows, ClockRows
  <2> QED BY <1>4, <2>1, ClockIsMeant DEF FromTheSingle
<1>5. CASE ExtractTimes(r) = <<Null, Null>>
  BY <1>5
<1> QED BY <1>1, <1>2, <1>3, <1>4, <1>5 DEF ExtractTimes

LEMMA OneDate ==
  ASSUME NEW r \in RequestRows, IsFiniteSet(r.dates), ExtractDate(r) # Null
  PROVE  /\ ExtractDate(r) \in Nat
         /\ \E d \in r.dates : d.day = ExtractDate(r) /\ d.weekday # "wrong"
         /\ \A d \in r.dates : d.weekday = "wrong" \/ d.day = ExtractDate(r)
<1>1. ValidDates(r) \in SUBSET Nat
  BY DEF ValidDates, RequestRows
<1>2. IsFiniteSet(ValidDates(r))
  <2>1. PICK valid : valid = {x \in r.dates : x.weekday # "wrong"}
    OBVIOUS
  <2>2. IsFiniteSet(valid)
    BY <2>1, FS_Subset
  <2>3. PICK f : f = [d \in valid |-> d.day]
    OBVIOUS
  <2>4. f \in Surjection(valid, ValidDates(r))
    BY <2>1, <2>3 DEF ValidDates, Surjection
  <2> QED BY <2>2, <2>4, FS_Surjection
<1>3. Cardinality(ValidDates(r)) = 1 /\ ExtractDate(r) = Max(ValidDates(r))
  BY DEF ExtractDate
<1>4. PICK day : ValidDates(r) = {day}
  BY <1>2, <1>3, FS_Singleton
<1>5. day \in Nat /\ Max({day}) = day
  BY <1>1, <1>4 DEF Max
<1>6. ExtractDate(r) = day
  BY <1>3, <1>4, <1>5
<1>7. \A d : (d \in r.dates /\ d.weekday # "wrong") => d.day \in ValidDates(r)
  BY DEF ValidDates
<1>8. \E d \in r.dates : d.day = day /\ d.weekday # "wrong"
  BY <1>4 DEF ValidDates
<1> QED BY <1>4, <1>5, <1>6, <1>7, <1>8

LEMMA PeopleAreInvited ==
  ASSUME NEW r \in RequestRows, Attendees(r) # 0
  PROVE  Attendees(r) \in 1..50
BY DEF Attendees, RequestRows, MaxAttendees

\* A prepared event has a date, a start and an end.
LEMMA NothingMissing ==
  ASSUME NEW r, NEW x, x = ParseSchedulingRequest(r), NEW reference, Executable(x, reference)
  PROVE  /\ ExtractDate(r) # Null /\ ExtractTimes(r)[1] # Null
         /\ x.starts = 1440 * ExtractDate(r) + ExtractTimes(r)[1] /\ x.starts > reference
         /\ \/ ExtractTimes(r)[2] # Null /\ x.ends = 1440 * ExtractDate(r) + ExtractTimes(r)[2]
            \/ /\ ExtractTimes(r)[2] = Null /\ r.duration # Null
               /\ x.ends = x.starts + Duration(r)
         /\ x.ends = Null \/ ~(x.ends <= x.starts)
         /\ x.attendees = Attendees(r) /\ Attendees(r) # 0
<1>1. PICK date : date = ExtractDate(r)
  OBVIOUS
<1>2. PICK start : start = ExtractTimes(r)[1]
  OBVIOUS
<1>3. PICK end : end = ExtractTimes(r)[2]
  OBVIOUS
<1>4. PICK starts : starts = IF date = Null \/ start = Null THEN Null ELSE 1440 * date + start
  OBVIOUS
<1>5. PICK ends : ends = IF starts = Null THEN Null
                         ELSE IF end # Null THEN 1440 * date + end
                         ELSE IF r.duration # Null THEN starts + Duration(r) ELSE Null
  OBVIOUS
<1>6. PICK backwards \in BOOLEAN : backwards <=> ends # Null /\ ends <= starts
  OBVIOUS
<1>7. PICK missing : missing =
        {f \in {"title", "date", "start_time", "end_or_duration", "attendees"} :
           \/ f = "title" /\ ~r.quoted /\ ~r.subject
           \/ f = "date" /\ date = Null
           \/ f = "start_time" /\ start = Null
           \/ f = "end_or_duration" /\ (backwards \/ (end = Null /\ r.duration = Null))
           \/ f = "attendees" /\ Attendees(r) = 0}
  OBVIOUS
<1>8. x = [starts |-> starts, ends |-> IF backwards THEN Null ELSE ends,
           attendees |-> Attendees(r), missing |-> missing]
  BY <1>1, <1>2, <1>3, <1>4, <1>5, <1>6, <1>7 DEF ParseSchedulingRequest
<1>9. missing = {} /\ starts # Null /\ starts > reference
  BY <1>8 DEF Executable
<1>10. date # Null /\ start # Null /\ Attendees(r) # 0 /\ ~backwards
       /\ ~(end = Null /\ r.duration = Null)
  BY <1>7, <1>9
<1>11. /\ x.starts = starts /\ x.ends = ends /\ x.attendees = Attendees(r)
  BY <1>8, <1>10
<1> QED BY <1>1, <1>2, <1>3, <1>4, <1>5, <1>6, <1>9, <1>10, <1>11

-----------------------------------------------------------------------------
(* The calendar.                                                           *)

LEMMA MonthsFollow ==
  /\ DOMAIN MonthLengths = 1..26 /\ Len(MonthLengths) = 26
  /\ \A k \in 1..26 : MonthLengths[k] \in 28..31 /\ MonthStart[k] \in Int
  /\ MonthStart[1] = 0
  /\ \A k \in 1..25 : MonthStart[k + 1] = MonthStart[k] + MonthLengths[k]
<1>1. DOMAIN MonthLengths = 1..26 /\ Len(MonthLengths) = 26
  BY DEF MonthLengths
<1>2. MonthLengths \in [1..26 -> 28..31]
  BY DEF MonthLengths
<1>3. MonthStart = Sums(MonthLengths, DOMAIN MonthLengths)
  BY Zenon DEF MonthStart, Sums
<1>4. PICK d, S : d = MonthLengths /\ S = DOMAIN MonthLengths
  OBVIOUS
<1>5. PICK n \in Nat : n = 26
  OBVIOUS
<1>6. S = 1..n /\ MonthStart = Sums(d, S)
  BY <1>1, <1>3, <1>4, <1>5
<1>7. \A k \in 1..n : d[k] \in 28..31 /\ d[k] \in Int
  BY <1>2, <1>4, <1>5
<1>8. /\ \A k \in 1..n : MonthStart[k] \in Int
      /\ n > 0 => MonthStart[1] = 0
      /\ \A k \in 1..(n - 1) : MonthStart[k + 1] = MonthStart[k] + d[k]
  BY <1>6, <1>7, SumsAdd
<1> QED BY <1>1, <1>4, <1>5, <1>7, <1>8

\* A day lies in one month.
Within(day, k) == MonthStart[k] <= day /\ day < MonthStart[k] + MonthLengths[k]

LEMMA MonthsAreApart ==
  ASSUME NEW k \in 1..26, NEW j \in 1..26, k < j
  PROVE  MonthStart[k] + MonthLengths[k] <= MonthStart[j]
<1> DEFINE Odd == {m \in (k + 1)..26 : ~(MonthStart[k] + MonthLengths[k] <= MonthStart[m])}
<1>1. SUFFICES ASSUME Odd # {} PROVE FALSE
  OBVIOUS
<1>2. PICK m \in Odd : \A i \in Odd : m <= i
  <2>1. Odd \in SUBSET Nat
    OBVIOUS
  <2> HIDE DEF Odd
  <2> QED BY <1>1, <2>1, LeastNumber
<1>3. m \in (k + 1)..26
  BY <1>2
<1>4. m # k + 1
  <2>1. k \in 1..25 /\ MonthStart[k] \in Int /\ MonthLengths[k] \in Int
    BY <1>3, MonthsFollow
  <2> QED BY <1>2, <2>1, MonthsFollow
<1>5. PICK i \in (k + 1)..25 : i = m - 1 /\ i + 1 = m /\ i \in 1..25
  BY <1>3, <1>4
<1>6. i \notin Odd
  <2>1. ~(m <= i)
    BY <1>5
  <2> HIDE DEF Odd
  <2> QED BY <1>2, <2>1
<1>7. MonthStart[k] + MonthLengths[k] <= MonthStart[i]
  BY <1>5, <1>6
<1>8. /\ MonthStart[m] = MonthStart[i] + MonthLengths[i] /\ MonthLengths[i] \in 28..31
      /\ MonthStart[i] \in Int /\ MonthStart[k] \in Int /\ MonthLengths[k] \in 28..31
  BY <1>5, MonthsFollow
<1>9. MonthStart[k] + MonthLengths[k] <= MonthStart[m]
  BY <1>7, <1>8
<1> QED BY <1>2, <1>9

LEMMA OneMonth ==
  ASSUME NEW day \in Int, NEW k \in 1..26, Within(day, k)
  PROVE  MonthOf(day) = k /\ DayOfMonth(day) = day - MonthStart[k] + 1
<1>1. ASSUME NEW j \in 1..26, Within(day, j) PROVE j = k
  <2>1. /\ MonthStart[j] \in Int /\ MonthLengths[j] \in Int
        /\ MonthStart[k] \in Int /\ MonthLengths[k] \in Int
    BY MonthsFollow
  <2>2. ~(j < k)
    BY <1>1, <2>1, MonthsAreApart DEF Within
  <2>3. ~(k < j)
    BY <1>1, <2>1, MonthsAreApart DEF Within
  <2> QED BY <2>2, <2>3
<1>2. MonthOf(day) = CHOOSE j \in 1..26 : Within(day, j)
  BY MonthsFollow DEF MonthOf, Within
<1>3. MonthOf(day) = k
  BY <1>1, <1>2
<1> QED BY <1>3 DEF DayOfMonth

LEMMA SomeMonth ==
  ASSUME NEW day \in Nat, day < MonthStart[26]
  PROVE  \E k \in 1..25 : Within(day, k)
<1> DEFINE Over == {k \in 1..26 : day < MonthStart[k]}
<1>1. PICK m \in Over : \A i \in Over : m <= i
  <2>1. Over \in SUBSET Nat /\ 26 \in Over
    OBVIOUS
  <2> HIDE DEF Over
  <2> QED BY <2>1, LeastNumber
<1>2. m # 1
  BY <1>1, MonthsFollow
<1>3. PICK k \in 1..25 : k = m - 1 /\ k + 1 = m
  BY <1>1, <1>2
<1>4. k \notin Over
  <2>1. ~(m <= k)
    BY <1>3
  <2> HIDE DEF Over
  <2> QED BY <1>1, <2>1
<1>5. MonthStart[m] = MonthStart[k] + MonthLengths[k] /\ MonthStart[k] \in Int
  BY <1>3, MonthsFollow
<1>6. MonthStart[k] <= day
  BY <1>4, <1>5
<1> QED BY <1>1, <1>5, <1>6 DEF Within

-----------------------------------------------------------------------------
(* The deadline of a phrase.                                               *)

\* A day that a phrase fits, with none that it fits from the sending on.
FirstFit(p, sent, day) ==
  /\ day \in sent..(sent + 31) /\ Fits(p, sent, day)
  /\ \A earlier \in sent..(day - 1) : ~Fits(p, sent, earlier)

LEMMA WeekdaysComeRound ==
  ASSUME NEW sent \in Nat, NEW n \in 0..6, NEW ahead, ahead = (n - Weekday(sent)) % 7
  PROVE  /\ ahead \in 0..6 /\ Weekday(sent + ahead) = n /\ Weekday(sent + 7) = Weekday(sent)
         /\ \A d \in 0..6 : Weekday(sent + d) = n => d = ahead
<1>1. Weekday(sent) = (sent + 4) % 7
  BY DEF Weekday
<1>2. PICK q \in Int, r \in 0..6 : sent + 4 = 7 * q + r /\ r = (sent + 4) % 7
  OBVIOUS
<1>3. ahead = (n - r) % 7
  BY <1>1, <1>2
<1>4. ahead = IF n >= r THEN n - r ELSE n - r + 7
  BY <1>3
<1>5. ASSUME NEW d \in 0..7
      PROVE  Weekday(sent + d) = IF r + d >= 7 THEN r + d - 7 ELSE r + d
  <2>1. sent + d + 4 = 7 * q + (r + d)
    BY <1>2
  <2> QED BY <1>2, <2>1 DEF Weekday
<1>6. Weekday(sent) = r
  BY <1>1, <1>2
<1> QED BY <1>4, <1>5, <1>6

LEMMA EndOfWeekFits ==
  ASSUME NEW sent \in Nat, NEW p, p.rule = "end_of_week"
  PROVE  FirstFit(p, sent, Resolves(p, sent))
<1>1. PICK ahead : ahead = (4 - Weekday(sent)) % 7
  OBVIOUS
<1>2. /\ ahead \in 0..6 /\ Weekday(sent + ahead) = 4
      /\ \A d \in 0..6 : Weekday(sent + d) = 4 => d = ahead
  BY <1>1, WeekdaysComeRound
<1>3. Resolves(p, sent) = sent + ahead
  BY <1>1 DEF Resolves
<1>4. \A day \in Int : Fits(p, sent, day) <=> day >= sent /\ Weekday(day) = 4
  BY DEF Fits
<1>5. ASSUME NEW day \in sent..(sent + ahead - 1) PROVE ~Fits(p, sent, day)
  <2>1. PICK d \in 0..6 : d = day - sent /\ day = sent + d /\ d < ahead
    BY <1>2
  <2> QED BY <1>2, <1>4, <2>1
<1> QED BY <1>2, <1>3, <1>4, <1>5 DEF FirstFit

LEMMA WeekdayFits ==
  ASSUME NEW sent \in Nat, NEW p, p.rule = "by_weekday", p.n \in 0..6
  PROVE  FirstFit(p, sent, Resolves(p, sent))
<1>1. PICK ahead : ahead = (p.n - Weekday(sent)) % 7
  OBVIOUS
<1>2. /\ ahead \in 0..6 /\ Weekday(sent + ahead) = p.n /\ Weekday(sent + 7) = Weekday(sent)
      /\ \A d \in 0..6 : Weekday(sent + d) = p.n => d = ahead
  BY <1>1, WeekdaysComeRound
<1>3. PICK days \in 1..7 : days = (IF ahead = 0 THEN 7 ELSE ahead) /\ days = DaysAhead(p.n, sent)
  BY <1>1, <1>2 DEF DaysAhead
<1>4. Resolves(p, sent) = sent + days
  BY <1>3 DEF Resolves
<1>5. \A day \in Int : Fits(p, sent, day) <=> day > sent /\ Weekday(day) = p.n
  BY DEF Fits
<1>6. Weekday(sent + days) = p.n
  <2>1. sent + 0 = sent
    OBVIOUS
  <2> QED BY <1>2, <1>3, <2>1
<1>7. ASSUME NEW day \in sent..(sent + days - 1) PROVE ~Fits(p, sent, day)
  <2>1. PICK d \in 0..6 : d = day - sent /\ day = sent + d /\ d < days
    BY <1>3
  <2>2. Weekday(day) = p.n => d = ahead
    BY <1>2, <2>1
  <2> QED BY <1>3, <1>5, <2>1, <2>2
<1>8. Fits(p, sent, sent + days)
  BY <1>3, <1>5, <1>6
<1> QED BY <1>3, <1>4, <1>7, <1>8 DEF FirstFit

LEMMA EndOfMonthFits ==
  ASSUME NEW sent \in Nat, sent < MonthStart[26], NEW p, p.rule = "end_of_month"
  PROVE  FirstFit(p, sent, Resolves(p, sent))
<1>1. PICK k \in 1..25 : Within(sent, k)
  BY SomeMonth
<1>2. PICK start \in Int, length \in 28..31 : start = MonthStart[k] /\ length = MonthLengths[k]
  BY MonthsFollow
<1>3. start <= sent /\ sent < start + length
  BY <1>1, <1>2 DEF Within
<1>4. PICK last \in Int : last = start + length - 1
  OBVIOUS
<1>5. ASSUME NEW day \in start..last
      PROVE  MonthOf(day) = k /\ (LastOfMonth(day) <=> day = last)
  <2>1. Within(day, k)
    BY <1>2, <1>4 DEF Within
  <2>2. MonthOf(day) = k /\ DayOfMonth(day) = day - start + 1
    BY <1>2, <2>1, OneMonth
  <2> QED BY <1>2, <1>4, <2>2 DEF LastOfMonth
<1>6. Resolves(p, sent) = last
  <2>1. MonthOf(sent) = k
    BY <1>3, <1>4, <1>5
  <2> QED BY <1>2, <1>4, <2>1 DEF Resolves
<1>7. \A day \in Int : Fits(p, sent, day) <=> day >= sent /\ LastOfMonth(day)
  BY DEF Fits
<1>8. ASSUME NEW day \in sent..(last - 1) PROVE ~Fits(p, sent, day)
  BY <1>3, <1>4, <1>5, <1>7
<1>9. Fits(p, sent, last) /\ last \in sent..(sent + 31)
  BY <1>3, <1>4, <1>5, <1>7
<1> QED BY <1>6, <1>8, <1>9 DEF FirstFit

\* The n-th of a month, or its last day.
IsNth(day, n) == DayOfMonth(day) = n \/ (LastOfMonth(day) /\ n > DayOfMonth(day))

NthOf(nth, n, k) ==
  nth = MonthStart[k] + (IF n <= MonthLengths[k] THEN n ELSE MonthLengths[k]) - 1

LEMMA NthOfMonth ==
  ASSUME NEW n \in 1..31, NEW k \in 1..26, NEW nth, NthOf(nth, n, k)
  PROVE  /\ nth \in MonthStart[k]..(MonthStart[k] + MonthLengths[k] - 1)
         /\ \A day \in MonthStart[k]..(MonthStart[k] + MonthLengths[k] - 1) :
              /\ MonthOf(day) = k
              /\ DayOfMonth(day) = day - MonthStart[k] + 1
              /\ IsNth(day, n) <=> (day = nth)
<1>1. PICK start \in Int, length \in 28..31 : start = MonthStart[k] /\ length = MonthLengths[k]
  BY MonthsFollow
<1>2. nth = start + (IF n <= length THEN n ELSE length) - 1
  BY <1>1 DEF NthOf
<1>3. nth \in start..(start + length - 1)
  BY <1>2
<1>4. ASSUME NEW day \in start..(start + length - 1)
      PROVE  /\ MonthOf(day) = k
             /\ DayOfMonth(day) = day - start + 1
             /\ IsNth(day, n) <=> (day = nth)
  <2>1. Within(day, k)
    BY <1>1 DEF Within
  <2>2. MonthOf(day) = k /\ DayOfMonth(day) = day - start + 1
    BY <1>1, <2>1, OneMonth
  <2>3. LastOfMonth(day) <=> (day - start + 1 = length)
    BY <1>1, <2>2 DEF LastOfMonth
  <2>4. (day - start + 1 = n \/ (day - start + 1 = length /\ n > day - start + 1)) <=> (day = nth)
    BY <1>2
  <2> QED BY <2>2, <2>3, <2>4 DEF IsNth
<1> QED BY <1>1, <1>3, <1>4

LEMMA OrdinalFits ==
  ASSUME NEW sent \in Nat, sent < MonthStart[26], NEW p, p.rule = "by_ordinal", p.n \in 1..31
  PROVE  FirstFit(p, sent, Resolves(p, sent))
<1>1. PICK k \in 1..25 : Within(sent, k)
  BY SomeMonth
<1>2. PICK start \in Int, length \in 28..31 : start = MonthStart[k] /\ length = MonthLengths[k]
  BY MonthsFollow
<1>3. PICK next \in Int, more \in 28..31 :
        next = MonthStart[k + 1] /\ more = MonthLengths[k + 1] /\ next = start + length
  <2>1. k + 1 \in 1..26
    OBVIOUS
  <2> QED BY <1>2, <2>1, MonthsFollow
<1>4. sent \in start..(start + length - 1)
  BY <1>1, <1>2 DEF Within
<1>5. PICK n \in 1..31 : n = p.n
  OBVIOUS
<1>6. PICK nth \in Int : nth = start + (IF n <= length THEN n ELSE length) - 1
  OBVIOUS
<1>7. PICK then \in Int : then = next + (IF n <= more THEN n ELSE more) - 1
  OBVIOUS
<1>8. /\ nth \in start..(start + length - 1)
      /\ \A day \in start..(start + length - 1) :
           /\ MonthOf(day) = k
           /\ DayOfMonth(day) = day - start + 1
           /\ IsNth(day, n) <=> (day = nth)
  <2>1. k \in 1..26 /\ NthOf(nth, n, k)
    BY <1>2, <1>6 DEF NthOf
  <2> QED BY <1>2, <2>1, NthOfMonth
<1>9. /\ then \in next..(next + more - 1)
      /\ \A day \in next..(next + more - 1) :
           IsNth(day, n) <=> (day = then)
  <2>1. PICK j \in 1..26 : j = k + 1
    OBVIOUS
  <2>2. next = MonthStart[j] /\ more = MonthLengths[j]
    BY <1>3, <2>1
  <2>3. NthOf(then, n, j)
    BY <1>7, <2>2 DEF NthOf
  <2>4. /\ then \in MonthStart[j]..(MonthStart[j] + MonthLengths[j] - 1)
        /\ \A day \in MonthStart[j]..(MonthStart[j] + MonthLengths[j] - 1) :
             IsNth(day, n) <=> (day = then)
    BY <2>3, NthOfMonth
  <2> QED BY <2>2, <2>4
<1>10. \A day \in Int : Fits(p, sent, day) <=> (day >= sent /\ IsNth(day, n))
  BY <1>5 DEF Fits, IsNth
<1>11. MonthOf(sent) = k /\ DayOfMonth(sent) = sent - start + 1
  BY <1>4, <1>8
<1>12. Resolves(p, sent) = OrdinalDay(n, sent)
  BY <1>5 DEF Resolves
<1>13. \A a \in Int, b \in Int : Min({a, b}) = IF a <= b THEN a ELSE b
  BY PairBounds
<1>14. CASE n < sent - start + 1
  <2>1. OrdinalDay(n, sent) = MonthStart[k + 1] + Min({n, MonthLengths[k + 1]}) - 1
    BY <1>11, <1>14 DEF OrdinalDay
  <2>2. Resolves(p, sent) = then
    <3>1. Min({n, more}) = IF n <= more THEN n ELSE more
      BY <1>13
    <3>2. Resolves(p, sent) = next + Min({n, more}) - 1
      BY <1>3, <1>12, <2>1
    <3> QED BY <1>7, <3>1, <3>2
  <2>3. then \in next..(next + n - 1)
    BY <1>7
  <2>4. then \in sent..(sent + 31)
    BY <1>3, <1>4, <1>14, <2>3
  <2>5. Fits(p, sent, then)
    BY <1>9, <1>10, <2>4
  <2>6. ASSUME NEW day \in sent..(then - 1) PROVE ~Fits(p, sent, day)
    <3>1. CASE day < next
      <4>1. day \in start..(start + length - 1) /\ day # nth
        BY <1>3, <1>4, <1>6, <1>14, <3>1
      <4> QED BY <1>8, <1>10, <4>1
    <3>2. CASE day >= next
      <4>1. day \in next..(next + more - 1) /\ day # then
        BY <1>9, <3>2
      <4> QED BY <1>9, <1>10, <4>1
    <3> QED BY <3>1, <3>2
  <2> QED BY <2>2, <2>4, <2>5, <2>6 DEF FirstFit
<1>15. CASE ~(n < sent - start + 1)
  <2>1. OrdinalDay(n, sent) = MonthStart[k] + Min({n, MonthLengths[k]}) - 1
    <3>1. k + 0 = k
      OBVIOUS
    <3> QED BY <1>11, <1>15, <3>1 DEF OrdinalDay
  <2>2. Resolves(p, sent) = nth
    <3>1. Min({n, length}) = IF n <= length THEN n ELSE length
      BY <1>13
    <3>2. Resolves(p, sent) = start + Min({n, length}) - 1
      BY <1>2, <1>12, <2>1
    <3> QED BY <1>6, <3>1, <3>2
  <2>3. nth \in sent..(sent + 31)
    BY <1>4, <1>6, <1>15
  <2>4. Fits(p, sent, nth)
    BY <1>8, <1>10, <2>3
  <2>5. ASSUME NEW day \in sent..(nth - 1) PROVE ~Fits(p, sent, day)
    <3>1. day \in start..(start + length - 1) /\ day # nth
      BY <1>4, <1>8
    <3> QED BY <1>8, <1>10, <3>1
  <2> QED BY <2>2, <2>3, <2>4, <2>5 DEF FirstFit
<1> QED BY <1>14, <1>15

LEMMA DeadlinesFit ==
  ASSUME NEW sent \in Nat, sent < MonthStart[26], NEW p \in PhraseRows,
         p.rule = "by_weekday" => p.n \in 0..6, Resolves(p, sent) # Null
  PROVE  FirstFit(p, sent, Resolves(p, sent))
<1>1. CASE p.rule = "end_of_day"
  <2>1. Resolves(p, sent) = sent
    BY <1>1 DEF Resolves
  <2>2. \A day \in Int : Fits(p, sent, day) <=> day = sent
    BY <1>1 DEF Fits
  <2> QED BY <2>1, <2>2 DEF FirstFit
<1>2. CASE p.rule = "tomorrow"
  <2>1. Resolves(p, sent) = sent + 1
    BY <1>2 DEF Resolves
  <2>2. \A day \in Int : Fits(p, sent, day) <=> day = sent + 1
    BY <1>2 DEF Fits
  <2> QED BY <2>1, <2>2 DEF FirstFit
<1>3. CASE p.rule = "by_ordinal"
  <2>1. p.n \in 1..31
    BY <1>3 DEF Resolves
  <2> QED BY <1>3, <2>1, OrdinalFits
<1>4. CASE p.rule = "end_of_week"
  BY <1>4, EndOfWeekFits
<1>5. CASE p.rule = "end_of_month"
  BY <1>5, EndOfMonthFits
<1>6. CASE p.rule = "by_weekday"
  BY <1>6, WeekdayFits
<1> QED BY <1>1, <1>2, <1>3, <1>4, <1>5, <1>6 DEF PhraseRows

LEMMA SomePhraseIsFirst ==
  ASSUME NEW text \in SUBSET PhraseRows, text # {}
  PROVE  First(text) \in text
<1>1. ASSUME NEW p \in text PROVE Rank(p) \in Nat
  <2>1. \E i \in 1..6 : Precedence[i] = p.rule
    <3>1. p.rule \in {Precedence[1], Precedence[2], Precedence[3],
                      Precedence[4], Precedence[5], Precedence[6]}
      BY DEF PhraseRows, Precedence
    <3> QED BY <3>1
  <2>2. DOMAIN Precedence = 1..6
    BY DEF Precedence
  <2> QED BY <2>1, <2>2 DEF Rank
<1>2. PICK ranks : ranks = {Rank(p) : p \in text}
  OBVIOUS
<1>3. ranks \in SUBSET Nat /\ ranks # {}
  BY <1>1, <1>2
<1>4. PICK x \in ranks : \A y \in ranks : x <= y
  BY <1>3, LeastNumber
<1>5. \E p \in text : \A q \in text : Rank(p) <= Rank(q)
  BY <1>2, <1>4
<1> QED BY <1>5 DEF First

LEMMA DeadlineIsFirst ==
  ASSUME NEW text \in DueTexts, text # {}, NEW sent \in SentDays,
         NEW deadline, deadline = ParseDuePhrase(text, sent), deadline # Null
  PROVE  LET p == First(text)
             window == sent..(sent + 31)
         IN deadline = Min({day \in window : Fits(p, sent, day)})
<1>1. text \in SUBSET PhraseRows
  BY DeadlinesAreGiven
<1>2. PICK p \in PhraseRows : p = First(text) /\ (p.rule = "by_weekday" => p.n \in 0..6)
  BY <1>1, SomePhraseIsFirst, DeadlinesAreGiven
<1>3. deadline = Resolves(p, sent)
  BY <1>2 DEF ParseDuePhrase
<1>4. sent \in Nat /\ sent < MonthStart[26]
  BY DeadlinesAreGiven, MonthsFollow
<1>5. FirstFit(p, sent, deadline)
  BY <1>2, <1>3, <1>4, DeadlinesFit
<1>6. PICK S : S = {day \in sent..(sent + 31) : Fits(p, sent, day)}
  OBVIOUS
<1>7. S \in SUBSET Int /\ deadline \in S
  BY <1>4, <1>5, <1>6 DEF FirstFit
<1>8. ASSUME NEW day \in S PROVE deadline <= day
  <2>1. day \in sent..(sent + 31) /\ Fits(p, sent, day) /\ deadline \in Int
    BY <1>6, <1>7
  <2> QED BY <1>4, <1>5, <2>1 DEF FirstFit
<1>9. Min(S) = deadline
  BY <1>7, <1>8, LeastIsMin
<1> QED BY <1>2, <1>6, <1>9

-----------------------------------------------------------------------------
(* What answers and repeated reads come to.                                *)

LEMMA DelaysAreBounded ==
  ASSUME NEW i \in Nat, i >= 1, NEW jitter \in 50..150, NEW after \in Nat
  PROVE  Delay(i, jitter, after) \in 0..MaxDelay
<1>1. ASSUME NEW a \in Int, NEW b \in Int
      PROVE  Min({a, b}) = (IF a <= b THEN a ELSE b) /\ Max({a, b}) = (IF a >= b THEN a ELSE b)
  BY DEF Min, Max
<1>2. PICK power \in Int : power = BaseDelay * 2 ^ (i - 1)
  BY DEF BaseDelay
<1>3. PICK backoff \in Int : backoff = Min({power, MaxDelay})
  BY <1>1 DEF MaxDelay
<1>4. PICK draw \in Int : draw = (backoff * jitter) \div 100
  <2>1. jitter \in Int
    OBVIOUS
  <2>2. backoff * jitter \in Int
    BY <2>1
  <2> QED BY <2>2
<1>5. PICK jittered \in Int : jittered = Min({draw, MaxDelay})
  BY <1>1 DEF MaxDelay
<1>6. PICK asked \in Nat : asked = Max({jittered, after})
  BY <1>1
<1>7. Delay(i, jitter, after) = Min({asked, MaxDelay})
  BY <1>2, <1>3, <1>4, <1>5, <1>6 DEF Delay
<1>8. MaxDelay \in Nat
  BY DEF MaxDelay
<1>9. Min({asked, MaxDelay}) = IF asked <= MaxDelay THEN asked ELSE MaxDelay
  BY <1>1, <1>8
<1> QED BY <1>7, <1>8, <1>9

\* The call that ends a read is the first that succeeds, that cannot be
\* repeated, or after which the read gives up.
Delays(n, jitters, after) == [i \in 1..n |-> Delay(i, jitters[i], after)]
Slept(n, jitters, after) == Sums(Delays(n, jitters, after), 1..n)
Ended(answers, jitters, after, limits, i) ==
  \/ ~Retryable(answers[i])
  \/ GivesUp(i, Slept(limits.attempts, jitters, after)[i],
             Delays(limits.attempts, jitters, after)[i], limits)

LEMMA ReadsEnd ==
  ASSUME NEW answers, NEW jitters, NEW after, NEW limits, limits.attempts \in Nat \ {0}
  PROVE  LET read == RetryRead(answers, jitters, after, limits)
         IN /\ read.calls \in 1..limits.attempts
            /\ read.raised = answers[read.calls]
            /\ read.slept = Slept(limits.attempts, jitters, after)[read.calls]
            /\ Ended(answers, jitters, after, limits, read.calls)
            /\ \A i \in 1..(read.calls - 1) : ~Ended(answers, jitters, after, limits, i)
<1>1. PICK n \in Nat \ {0} : n = limits.attempts
  OBVIOUS
<1>2. PICK ends : ends = {i \in 1..n : Ended(answers, jitters, after, limits, i)}
  OBVIOUS
<1>3. n \in ends
  BY <1>1, <1>2 DEF Ended, GivesUp
<1>4. ends \in SUBSET Nat
  BY <1>2
<1>5. Min(ends) \in ends /\ \A i \in ends : Min(ends) <= i
  BY <1>3, <1>4, MinIsLeast
<1>6. PICK last \in 1..n : last = Min(ends) /\ last \in ends /\ \A i \in ends : last <= i
  BY <1>2, <1>5
<1>7. RetryRead(answers, jitters, after, limits)
        = [raised |-> answers[last], calls |-> last, slept |-> Slept(n, jitters, after)[last]]
  <2> DEFINE delay == [i \in 1..limits.attempts |-> Delay(i, jitters[i], after)]
             slept == Sums(delay, 1..limits.attempts)
             first == Min({i \in 1..limits.attempts :
                             ~Retryable(answers[i]) \/ GivesUp(i, slept[i], delay[i], limits)})
  <2>1. RetryRead(answers, jitters, after, limits)
          = [raised |-> answers[first], calls |-> first, slept |-> slept[first]]
    BY Zenon DEF RetryRead, Sums
  <2>2. delay = Delays(n, jitters, after) /\ slept = Slept(n, jitters, after)
    BY <1>1 DEF Delays, Slept
  <2>3. first = Min(ends)
    BY <1>1, <1>2, <2>2 DEF Ended
  <2> HIDE DEF first, slept
  <2> QED BY <1>6, <2>1, <2>2, <2>3
<1>8. ASSUME NEW i \in 1..(last - 1) PROVE ~Ended(answers, jitters, after, limits, i)
  BY <1>1, <1>2, <1>6
<1>9. Ended(answers, jitters, after, limits, last)
  BY <1>1, <1>2, <1>6
<1> QED BY <1>1, <1>7, <1>8, <1>9

\* The limits of a read hold: an error that is repeated may pass, and the
\* budget of sleep is kept, and used up to one delay.
LEMMA ReadsAreBounded ==
  ASSUME NEW c \in Reads, NEW read, read = RetryRead(c.answers, c.jitters, c.after, c.limits)
  PROVE  /\ read.calls <= c.limits.attempts /\ read.slept <= c.limits.budget
         /\ read.raised = c.answers[read.calls]
         /\ \A i \in 1..(read.calls - 1) : c.answers[i] \in {"auth", "transient"}
         /\ read.raised \in {"auth", "transient"} =>
              read.calls = c.limits.attempts \/ read.slept > c.limits.budget - MaxDelay
<1>1. PICK n \in Nat \ {0} : n = c.limits.attempts
  BY ReadsAreGiven
<1>2. PICK budget \in Nat : budget = c.limits.budget
  BY ReadsAreGiven
<1>3. PICK delay : delay = Delays(n, c.jitters, c.after)
  OBVIOUS
<1>4. \A i \in 1..n : delay[i] \in 0..MaxDelay
  <2>1. ASSUME NEW i \in 1..n PROVE delay[i] \in 0..MaxDelay
    <3>1. c.jitters[i] \in 50..150 /\ c.after \in Nat
      BY <1>1, ReadsAreGiven
    <3>2. delay[i] = Delay(i, c.jitters[i], c.after)
      BY <1>3 DEF Delays
    <3>3. i \in Nat /\ i >= 1
      BY <1>1
    <3> QED BY <3>1, <3>2, <3>3, DelaysAreBounded
  <2> QED BY <2>1
<1>5. delay \in [1..n -> Int]
  <2>1. 0..MaxDelay \subseteq Int
    BY DEF MaxDelay
  <2>2. \A i \in 1..n : delay[i] \in Int
    BY <1>4, <2>1
  <2> QED BY <1>3, <2>2 DEF Delays
<1>6. PICK slept : slept = Sums(delay, 1..n)
  OBVIOUS
<1>7. /\ \A i \in 1..n : slept[i] \in Int
      /\ slept[1] = 0 /\ \A i \in 1..(n - 1) : slept[i + 1] = slept[i] + delay[i]
  <2>1. n \in Nat /\ n > 0
    BY <1>1
  <2>2. \A i \in 1..n : delay[i] \in Int
    BY <1>5
  <2> QED BY <1>6, <2>1, <2>2, SumsAdd
<1>8. PICK last \in 1..n : last = read.calls
  BY <1>1, ReadsEnd
<1>9. /\ read.raised = c.answers[last] /\ read.slept = slept[last]
      /\ Ended(c.answers, c.jitters, c.after, c.limits, last)
      /\ \A i \in 1..(last - 1) : ~Ended(c.answers, c.jitters, c.after, c.limits, i)
  BY <1>1, <1>3, <1>6, <1>8, ReadsEnd DEF Slept
<1>10. \A i \in 1..n : Ended(c.answers, c.jitters, c.after, c.limits, i) <=>
         ~Retryable(c.answers[i]) \/ i = n \/ slept[i] + delay[i] > budget
  BY <1>1, <1>2, <1>3, <1>6 DEF Ended, Slept, GivesUp
<1>11. \A i \in 1..n : Retryable(c.answers[i]) <=> c.answers[i] \in {"auth", "transient"}
  <2>1. \A i \in 1..n : c.answers[i] \in {"ok", "auth", "transient", "client"}
    BY <1>1, ReadsAreGiven
  <2> QED BY <2>1 DEF Retryable, Classified
<1>12. slept[last] <= budget
  <2>1. CASE last = 1
    BY <1>7, <2>1
  <2>2. CASE last # 1
    <3>1. PICK i \in 1..(n - 1) : i = last - 1 /\ i + 1 = last /\ i \in 1..(last - 1) /\ i \in 1..n
      BY <2>2
    <3>2. ~(slept[i] + delay[i] > budget)
      BY <1>9, <1>10, <3>1
    <3>3. slept[i] \in Int /\ delay[i] \in Int /\ slept[last] = slept[i] + delay[i]
      BY <1>5, <1>7, <3>1
    <3> QED BY <3>2, <3>3
  <2> QED BY <2>1, <2>2
<1>13. \A i \in 1..(last - 1) : c.answers[i] \in {"auth", "transient"}
  <2>1. ASSUME NEW i \in 1..(last - 1) PROVE c.answers[i] \in {"auth", "transient"}
    <3>1. i \in 1..n
      OBVIOUS
    <3> QED BY <1>9, <1>10, <1>11, <3>1
  <2> QED BY <2>1
<1>14. ASSUME c.answers[last] \in {"auth", "transient"}
       PROVE  last = n \/ slept[last] > budget - MaxDelay
  <2>1. last = n \/ slept[last] + delay[last] > budget
    BY <1>9, <1>10, <1>11, <1>14
  <2>2. slept[last] \in Int
    BY <1>7
  <2>3. delay[last] \in 0..MaxDelay
    BY <1>4
  <2>4. MaxDelay \in Int
    BY DEF MaxDelay
  <2> QED BY <2>1, <2>2, <2>3, <2>4
<1>15. PICK slumber : slumber = slept[last]
  OBVIOUS
<1>16. read.slept = slumber /\ read.raised = c.answers[last]
  BY <1>9, <1>15, Zenon
<1>17. read.calls <= n /\ read.slept <= budget
  BY <1>8, <1>12, <1>15, <1>16
<1>18. \A i \in 1..(read.calls - 1) : c.answers[i] \in {"auth", "transient"}
  BY <1>8, <1>13
<1>19. read.raised \in {"auth", "transient"} => read.calls = n \/ read.slept > budget - MaxDelay
  BY <1>8, <1>14, <1>15, <1>16
<1> QED BY <1>1, <1>2, <1>8, <1>16, <1>17, <1>18, <1>19

\* What is read back is what an answer brings, at once or repeated.
LEMMA ReadingsBack ==
  ASSUME NEW api, NEW reads, DOMAIN reads = 1..2
  PROVE  /\ ReadBack(api, reads) = "ok" => \E i \in 1..2 : Answer(api, reads[i]) = "ok"
         /\ Answer(api, reads[1]) = "ok" => ReadBack(api, reads) = "ok"
<1>1. PICK answers : answers = [i \in 1..2 |-> Answer(api, reads[i])]
  OBVIOUS
<1>2. PICK read : read = RetryRead(answers, Steady, 0, Verification) /\ ReadBack(api, reads) = read.raised
  BY <1>1 DEF ReadBack
<1>3. Verification.attempts = 2
  BY DEF Verification
<1>4. /\ read.calls \in 1..2 /\ read.raised = answers[read.calls]
      /\ \A i \in 1..(read.calls - 1) : ~Ended(answers, Steady, 0, Verification, i)
  BY <1>2, <1>3, ReadsEnd
<1>5. Ended(answers, Steady, 0, Verification, 1) \/ answers[1] # "ok"
  BY DEF Ended, Retryable
<1> QED BY <1>1, <1>2, <1>4, <1>5

\* What an executor answers, whatever it compares.
LEMMA OutcomesAreTrue ==
  ASSUME NEW api \in {"gmail", "calendar"}, NEW c, DOMAIN c.reads = 1..2,
         Told(api, c), NEW matches \in BOOLEAN,
         NEW outcome, outcome = Executed(api, c, matches)
  PROVE  /\ outcome = "failed" => ~Happened(c) \/ c.posted \in Unlisted
         /\ outcome = "succeeded" =>
              Happened(c) /\ matches /\ \E i \in DOMAIN c.reads : c.reads[i] \in {200, 201}
         /\ (Happened(c) /\ matches /\ c.posted = 200 /\ c.reads[1] = 200) => outcome = "succeeded"
<1>1. PICK token : token = TokenForExecution(c.token)
  OBVIOUS
<1>2. PICK posted : posted = Answer(api, c.posted)
  OBVIOUS
<1>3. PICK back : back = ReadBack(api, c.reads)
  OBVIOUS
<1>4. outcome = IF token # "ok" THEN Caught(token)
                ELSE IF posted # "ok" THEN Caught(posted)
                ELSE Confirms(back, matches)
  BY <1>1, <1>2, <1>3 DEF Executed
<1>5. posted \in {"ok", "auth", "transient", "client"}
  BY <1>2 DEF Answer, GmailAnswer, CalendarAnswer, Raised
<1>6. ASSUME NEW answer, Answer(api, answer) = "ok" PROVE answer \in {200, 201}
  BY <1>6 DEF Answer, GmailAnswer, CalendarAnswer, Raised
<1>7. Answer(api, 200) = "ok"
  BY DEF Answer, GmailAnswer, CalendarAnswer, Raised
<1>8. Happened(c) <=> token = "ok" /\ c.applied
  BY <1>1 DEF Happened
<1>9. back = "ok" => \E i \in DOMAIN c.reads : c.reads[i] \in {200, 201}
  <2>1. back = "ok" => \E i \in 1..2 : Answer(api, c.reads[i]) = "ok"
    BY <1>3, ReadingsBack
  <2> QED BY <1>6, <2>1
<1>10. (c.posted = 200 /\ c.reads[1] = 200) => posted = "ok" /\ back = "ok"
  BY <1>2, <1>3, <1>7, ReadingsBack
<1>11. CASE token # "ok"
  BY <1>4, <1>8, <1>11 DEF Caught
<1>12. CASE token = "ok" /\ posted # "ok"
  <2>1. posted \in {"auth", "client"} => c.posted \in Rejections \cup Unlisted
    <3>1. PICK status \in {NoAnswer} \cup {200, 201} \cup 400..599 : status = c.posted
      BY DEF Told, Accepts
    <3>2. posted \in {"auth", "client"} => status \notin {200, NoAnswer} \cup TransientStatuses
      BY <1>2, <3>1 DEF Answer, GmailAnswer, CalendarAnswer, Raised, TransientStatuses, NoAnswer
    <3>3. posted \in {"auth", "client"} => status # 201
      BY <1>2, <3>1 DEF Answer, GmailAnswer, CalendarAnswer, Raised, Told, Accepts
    <3> QED BY <3>1, <3>2, <3>3 DEF TransientStatuses, Rejections, Unlisted
  <2>2. outcome = "failed" => posted \in {"auth", "client"}
    BY <1>4, <1>5, <1>12 DEF Caught
  <2>3. outcome # "succeeded"
    BY <1>4, <1>12 DEF Caught
  <2> QED BY <1>8, <1>10, <1>12, <2>1, <2>2, <2>3 DEF Told
<1>13. CASE token = "ok" /\ posted = "ok"
  <2>1. c.applied
    <3>1. c.posted \in Accepts[api]
      BY <1>2, <1>13 DEF Answer, GmailAnswer, CalendarAnswer, Raised, Accepts
    <3> QED BY <3>1 DEF Told
  <2> QED BY <1>4, <1>8, <1>9, <1>10, <1>13, <2>1 DEF Confirms
<1> QED BY <1>11, <1>12, <1>13

\* The comparison with what is stored is that with what was agreed to.
LEMMA DraftsAreCompared ==
  ASSUME NEW c, IsSubject(c.approved.subject), IsSubject(c.stored.subject)
  PROVE  DraftMatches(c.approved, c.stored) <=> AsAgreed("draft", c)
<1>1. PICK re, text : re \in Nat /\ c.approved.subject = [re |-> re, text |-> text]
  BY DEF IsSubject
<1>2. PICK were, read : were \in Nat /\ c.stored.subject = [re |-> were, text |-> read]
  BY DEF IsSubject
<1>3. SubjectMatches(c.approved.subject, c.stored.subject, c.approved.reply)
        <=> read = text /\ re - were \in (IF c.approved.reply THEN {0, 1} ELSE {0})
  <2>1. [c.approved.subject EXCEPT !.re = @ - 1] = [re |-> re - 1, text |-> text]
    BY <1>1
  <2>2. c.stored.subject = c.approved.subject <=> were = re /\ read = text
    BY <1>1, <1>2
  <2>3. c.stored.subject = [re |-> re - 1, text |-> text] <=> were = re - 1 /\ read = text
    BY <1>2
  <2>4. c.approved.subject.re = re
    BY <1>1
  <2>5. re \in Nat /\ were \in Nat
    BY <1>1, <1>2
  <2> QED BY <2>1, <2>2, <2>3, <2>4, <2>5 DEF SubjectMatches
<1>4. AsAgreed("draft", c) <=>
        /\ c.stored.to = c.approved.to /\ c.stored.body = c.approved.body
        /\ read = text /\ re - were \in (IF c.approved.reply THEN {0, 1} ELSE {0})
  BY <1>1, <1>2 DEF AsAgreed
<1> QED BY <1>3, <1>4 DEF DraftMatches

LEMMA InstantsAreCompared ==
  ASSUME Absent \notin Int, NEW t, NEW u, IsClock(t), IsClock(u)
  PROVE  SameInstant(t, u) <=>
           Absent \notin {t.offset, u.offset} /\ t.minute - u.minute = t.offset - u.offset
<1>1. PICK m \in Int, n \in Int : m = t.minute /\ n = u.minute
  BY DEF IsClock
<1>2. PICK a \in Int \cup {Absent}, b \in Int \cup {Absent} : a = t.offset /\ b = u.offset
  BY DEF IsClock
<1>3. CASE a = Absent \/ b = Absent
  BY <1>1, <1>2, <1>3 DEF SameInstant, AwareInstant
<1>4. CASE a \in Int /\ b \in Int
  BY <1>1, <1>2, <1>4 DEF SameInstant, AwareInstant
<1> QED BY <1>2, <1>3, <1>4

LEMMA EventsAreCompared ==
  ASSUME NEW c \in Events
  PROVE  EventMatches(c.approved, c.stored) <=> AsAgreed("event", c)
<1>1. SameInstant(c.stored.start, c.approved.start) <=>
        /\ Absent \notin {c.stored.start.offset, c.approved.start.offset}
        /\ c.stored.start.minute - c.approved.start.minute
             = c.stored.start.offset - c.approved.start.offset
  BY CallsAreGiven, InstantsAreCompared
<1>2. SameInstant(c.stored.end, c.approved.end) <=>
        /\ Absent \notin {c.stored.end.offset, c.approved.end.offset}
        /\ c.stored.end.minute - c.approved.end.minute
             = c.stored.end.offset - c.approved.end.offset
  BY CallsAreGiven, InstantsAreCompared
<1>3. ASSUME NEW S, NEW T, NEW o
      PROVE  (S \subseteq T /\ T \ S \subseteq {o}) <=> T \in {S, S \cup {o}}
  OBVIOUS
<1>4. AsAgreed("event", c) <=>
        /\ ~c.stored.cancelled /\ c.stored.title = c.approved.title
        /\ SameInstant(c.stored.start, c.approved.start) /\ SameInstant(c.stored.end, c.approved.end)
        /\ c.stored.attendees \in {c.approved.attendees, c.approved.attendees \cup {c.stored.organiser}}
  <2> DEFINE start == <<c.stored.start, c.approved.start>>
             end == <<c.stored.end, c.approved.end>>
             Same(t) == Absent \notin {t[1].offset, t[2].offset}
                        /\ t[1].minute - t[2].minute = t[1].offset - t[2].offset
  <2>1. Same(start) <=> SameInstant(c.stored.start, c.approved.start)
    BY <1>1
  <2>2. Same(end) <=> SameInstant(c.stored.end, c.approved.end)
    BY <1>2
  <2>3. (\A t \in {start, end} : Same(t)) <=> Same(start) /\ Same(end)
    OBVIOUS
  <2>4. AsAgreed("event", c) <=>
          /\ ~c.stored.cancelled /\ c.stored.title = c.approved.title
          /\ \A t \in {start, end} : Same(t)
          /\ c.stored.attendees \in {c.approved.attendees, c.approved.attendees \cup {c.stored.organiser}}
    BY DEF AsAgreed
  <2> HIDE DEF Same
  <2> QED BY <2>1, <2>2, <2>3, <2>4
<1>5. (/\ c.approved.attendees \subseteq c.stored.attendees
       /\ c.stored.attendees \ c.approved.attendees \subseteq {c.stored.organiser})
      <=> c.stored.attendees \in {c.approved.attendees, c.approved.attendees \cup {c.stored.organiser}}
  <2>1. PICK S, T, o : S = c.approved.attendees /\ T = c.stored.attendees /\ o = c.stored.organiser
    OBVIOUS
  <2>2. (S \subseteq T /\ T \ S \subseteq {o}) <=> T \in {S, S \cup {o}}
    BY <1>3, Zenon
  <2> QED BY <2>1, <2>2, Zenon
<1> QED BY <1>4, <1>5, Zenon DEF EventMatches

-----------------------------------------------------------------------------
(* The bucket.                                                             *)

PolicyRows == [capacity : Nat \ {0}, amount : Nat \ {0}, window : Nat \ {0}]
Capacity(p) == p.capacity * p.window

\* What a bucket may be at a time, and what it holds then.
Fitting(p, b, now) ==
  b = NoBucket \/ (b \in [tokens : Nat, ts : Nat] /\ b.tokens <= Capacity(p) /\ b.ts <= now)
Level(p, b, now) == Refilled(p, Found(p, b, now), now)

LEMMA FullIsPositive ==
  ASSUME NEW p \in PolicyRows
  PROVE  /\ p.capacity \in Nat /\ p.amount \in Nat /\ p.window \in Nat /\ p.amount >= 1 /\ p.window >= 1
         /\ Capacity(p) \in Nat /\ Capacity(p) >= p.window
<1>1. PICK c \in Nat, w \in Nat : c = p.capacity /\ w = p.window /\ c >= 1 /\ w >= 1
  BY DEF PolicyRows
<1>2. c * w \in Nat /\ c * w >= w
  BY <1>1
<1> QED BY <1>1, <1>2 DEF PolicyRows, Capacity

LEMMA TTLIsPositive ==
  ASSUME NEW p \in PolicyRows
  PROVE  /\ BucketTTL(p) \in Nat /\ BucketTTL(p) >= 1
         /\ p.window <= 7 * 24 * 60 * 60 => p.window <= BucketTTL(p)
<1>1. PICK w \in Nat : w = p.window /\ w >= 1
  BY DEF PolicyRows
<1>2. PICK week \in Nat : week = 7 * 24 * 60 * 60
  OBVIOUS
<1>3. PICK a \in Nat : a = Min({week, 2 * w}) /\ a = IF week <= 2 * w THEN week ELSE 2 * w
  BY PairBounds
<1>4. Max({60, a}) = IF 60 >= a THEN 60 ELSE a
  BY PairBounds
<1>5. BucketTTL(p) = Max({60, a})
  BY <1>1, <1>2, <1>3 DEF BucketTTL
<1> QED BY <1>1, <1>2, <1>3, <1>4, <1>5

LEMMA LevelIs ==
  ASSUME NEW p \in PolicyRows, NEW now \in Nat, NEW b, Fitting(p, b, now)
  PROVE  Level(p, b, now) =
           IF b = NoBucket \/ now >= b.ts + BucketTTL(p) THEN Capacity(p)
           ELSE IF Capacity(p) <= b.tokens + (now - b.ts) * p.amount THEN Capacity(p)
           ELSE b.tokens + (now - b.ts) * p.amount
<1>1. PICK full \in Nat : full = Capacity(p)
  BY FullIsPositive
<1>2. PICK amount \in Nat : amount = p.amount
  BY FullIsPositive
<1>3. CASE b = NoBucket \/ now >= b.ts + BucketTTL(p)
  <2>1. Found(p, b, now) = [tokens |-> full, ts |-> now]
    BY <1>1, <1>3 DEF Found, Capacity
  <2>2. Max({0, now - now}) = 0
    BY PairBounds
  <2>3. 0 * amount = 0
    OBVIOUS
  <2>4. Refilled(p, [tokens |-> full, ts |-> now], now) = Min({full, full + 0})
    BY <1>1, <1>2, <2>2, <2>3 DEF Refilled, Capacity
  <2>5. Min({full, full + 0}) = full
    BY PairBounds
  <2> QED BY <1>1, <1>3, <2>1, <2>4, <2>5 DEF Level
<1>4. CASE ~(b = NoBucket \/ now >= b.ts + BucketTTL(p))
  <2>1. Found(p, b, now) = b
    BY <1>4 DEF Found
  <2>2. PICK t \in Nat, s \in Nat : t = b.tokens /\ s = b.ts /\ s <= now
    BY <1>4 DEF Fitting
  <2>3. Max({0, now - b.ts}) = now - s
    <3>1. PICK age \in Nat : age = now - s
      BY <2>2
    <3>2. Max({0, age}) = age
      BY PairBounds
    <3> QED BY <2>2, <3>1, <3>2
  <2>4. PICK gain \in Int : gain = (now - s) * amount
    BY <2>2
  <2>5. Level(p, b, now) = Min({full, t + gain})
    BY <1>1, <1>2, <2>1, <2>2, <2>3, <2>4 DEF Refilled, Capacity, Level
  <2>6. Min({full, t + gain}) = IF full <= t + gain THEN full ELSE t + gain
    BY PairBounds
  <2> QED BY <1>1, <1>2, <1>4, <2>2, <2>4, <2>5, <2>6
<1> QED BY <1>3, <1>4

LEMMA LevelFits ==
  ASSUME NEW p \in PolicyRows, NEW now \in Nat, NEW b, Fitting(p, b, now)
  PROVE  Level(p, b, now) \in 0..Capacity(p)
<1>1. PICK full \in Nat : full = Capacity(p)
  BY FullIsPositive
<1>2. CASE Level(p, b, now) = full
  BY <1>1, <1>2
<1>3. CASE Level(p, b, now) # full
  <2>1. PICK t \in Nat, d \in Nat : t = b.tokens /\ d = now - b.ts
    BY <1>1, <1>3, LevelIs DEF Fitting
  <2>2. PICK amount \in Nat : amount = p.amount
    BY FullIsPositive
  <2>3. d * amount \in Nat
    OBVIOUS
  <2> QED BY <1>1, <1>3, <2>1, <2>2, <2>3, LevelIs
<1> QED BY <1>2, <1>3

\* A policy whose buckets are kept until they are full.
KeptUntilFull(p) == Capacity(p) <= BucketTTL(p) * p.amount

\* What a bucket holds grows by its rate at most, over its expiry too.
LEMMA LevelGrows ==
  ASSUME NEW p \in PolicyRows, KeptUntilFull(p), NEW now \in Nat, NEW later \in Nat, now <= later,
         NEW b, Fitting(p, b, now)
  PROVE  Fitting(p, b, later) /\ Level(p, b, later) <= Level(p, b, now) + (later - now) * p.amount
<1>1. PICK full \in Nat : full = Capacity(p)
  BY FullIsPositive
<1>2. PICK amount \in Nat : amount = p.amount
  BY FullIsPositive
<1>3. PICK gain \in Nat : gain = (later - now) * amount
  <2>1. later - now \in Nat
    OBVIOUS
  <2> QED BY <2>1
<1>4. Fitting(p, b, later)
  BY DEF Fitting
<1>5. Level(p, b, later) <= full /\ Level(p, b, later) \in Int
  BY <1>1, <1>4, LevelFits
<1>6. CASE Level(p, b, now) = full
  BY <1>2, <1>3, <1>4, <1>5, <1>6
<1>7. CASE Level(p, b, now) # full
  <2>1. b # NoBucket
    BY <1>1, <1>7, LevelIs
  <2>2. PICK t \in Nat, s \in Nat : t = b.tokens /\ s = b.ts /\ s <= now
    BY <2>1 DEF Fitting
  <2>3. Level(p, b, now) = t + (now - s) * amount
    BY <1>1, <1>2, <1>7, <2>2, LevelIs
  <2>4. (later - s) * amount = (now - s) * amount + gain
    BY <1>3, <2>2
  <2>5. PICK all \in Nat : all = (later - s) * amount
    <3>1. later - s \in Nat
      BY <2>2
    <3> QED BY <3>1
  <2>6. Level(p, b, later) <= t + all
    <3>1. CASE later >= s + BucketTTL(p)
      <4>1. PICK ttl \in Nat : ttl = BucketTTL(p)
        BY TTLIsPositive
      <4>2. ttl <= later - s
        BY <2>2, <3>1, <4>1
      <4>3. ttl * amount <= (later - s) * amount
        BY <2>2, <4>2
      <4>4. ttl * amount \in Nat /\ full <= ttl * amount
        BY <1>1, <1>2, <4>1 DEF KeptUntilFull
      <4> QED BY <1>1, <1>5, <2>5, <4>3, <4>4
    <3>2. CASE ~(later >= s + BucketTTL(p))
      BY <1>1, <1>2, <1>4, <2>1, <2>2, <2>5, <3>2, LevelIs
    <3> QED BY <3>1, <3>2
  <2>7. PICK before \in Int : before = (now - s) * amount
    BY <2>2
  <2> QED BY <1>2, <1>3, <1>4, <1>5, <2>3, <2>4, <2>5, <2>6, <2>7
<1> QED BY <1>6, <1>7

\* A run of the script leaves what it found, less a token if it admits.
LEMMA ScriptTakes ==
  ASSUME NEW p \in PolicyRows, NEW now \in Nat, NEW b, Fitting(p, b, now)
  PROVE  LET run == Consumed(p, b, now)
             left == Level(p, b, now) - (IF run.allowed THEN p.window ELSE 0)
         IN /\ run.allowed \in BOOLEAN /\ (run.allowed <=> Level(p, b, now) >= p.window)
            /\ run.bucket = [tokens |-> left, ts |-> now] /\ left \in Nat /\ left <= Capacity(p)
            /\ run.retry = IF run.allowed THEN 0
                           ELSE Min({CeilDiv(p.window - left, p.amount), p.window})
            /\ Fitting(p, run.bucket, now) /\ Level(p, run.bucket, now) = left
<1>1. PICK full \in Nat : full = Capacity(p)
  BY FullIsPositive
<1>2. PICK w \in Nat : w = p.window /\ w >= 1
  BY FullIsPositive
<1>3. PICK level \in Nat : level = Level(p, b, now) /\ level <= full
  BY <1>1, LevelFits
<1>4. PICK allowed \in BOOLEAN : allowed <=> level >= w
  OBVIOUS
<1>5. PICK left \in Nat : left = (IF allowed THEN level - w ELSE level) /\ left <= full
  BY <1>2, <1>3, <1>4
<1>6. Consumed(p, b, now) =
        [allowed |-> allowed, bucket |-> [tokens |-> left, ts |-> now],
         retry |-> IF allowed THEN 0 ELSE Min({CeilDiv(w - left, p.amount), w})]
  <2>1. (level >= w) = allowed
    BY <1>4
  <2> QED BY <1>2, <1>3, <1>5, <2>1 DEF Consumed, Level
<1>7. PICK found : found = [tokens |-> left, ts |-> now]
  OBVIOUS
<1>8. Fitting(p, found, now)
  BY <1>1, <1>5, <1>7 DEF Fitting
<1>9. Level(p, found, now) = left
  <2>1. found.tokens = left /\ found.ts = now /\ found # NoBucket
    BY <1>7 DEF NoBucket
  <2>2. ~(now >= now + BucketTTL(p))
    BY TTLIsPositive
  <2>3. PICK amount \in Nat : amount = p.amount
    BY FullIsPositive
  <2>4. now - now = 0 /\ 0 * amount = 0 /\ left + 0 = left
    OBVIOUS
  <2>5. Level(p, found, now) = IF full <= left + 0 THEN full ELSE left + 0
    BY <1>1, <1>8, <2>1, <2>2, <2>3, <2>4, LevelIs
  <2> QED BY <1>5, <2>4, <2>5
<1>10. left = level - (IF allowed THEN w ELSE 0)
  BY <1>5
<1> QED BY <1>1, <1>2, <1>3, <1>4, <1>5, <1>6, <1>7, <1>8, <1>9, <1>10

-----------------------------------------------------------------------------
(* The requests, one after the other.                                      *)

Arrived == [gap : Nat, redis : {"answers", "late", "down"}]
FirstTold == [at |-> 0, bucket |-> NoBucket]
Told2(p, arrivals, n) ==
  CHOOSE t : t = [i \in 0..n |-> IF i = 0 THEN FirstTold ELSE Served(p, t[i - 1], arrivals[i])]

LEMMA ToldExists ==
  ASSUME NEW p, NEW arrivals, NEW n \in Nat
  PROVE  \E t : t = [i \in 0..n |-> IF i = 0 THEN FirstTold ELSE Served(p, t[i - 1], arrivals[i])]
<1> DEFINE IsTold(t, m) ==
             t = [i \in 0..m |-> IF i = 0 THEN FirstTold ELSE Served(p, t[i - 1], arrivals[i])]
           Without == {m \in Nat : ~\E t : IsTold(t, m)}
<1>1. SUFFICES ASSUME Without # {} PROVE FALSE
  OBVIOUS
<1>2. PICK m \in Without : \A k \in Without : m <= k
  BY <1>1, LeastNumber
<1>3. m # 0
  <2>1. PICK t : t = [i \in 0..0 |-> FirstTold]
    OBVIOUS
  <2>2. 0..0 = {0}
    OBVIOUS
  <2>3. IsTold(t, 0)
    BY <2>1, <2>2
  <2>4. m = 0 => IsTold(t, m)
    BY <2>3
  <2> QED BY <1>2, <2>4
<1>4. m - 1 \in Nat /\ m - 1 \notin Without
  <2>1. m \in Nat /\ m # 0
    BY <1>2, <1>3
  <2>2. m - 1 \in Nat /\ ~(m <= m - 1)
    BY <2>1
  <2> HIDE DEF Without
  <2> QED BY <1>2, <2>2
<1>5. PICK s : IsTold(s, m - 1)
  BY <1>4
<1>6. PICK t : t = [i \in 0..m |-> IF i = 0 THEN FirstTold
                                   ELSE IF i = m THEN Served(p, s[m - 1], arrivals[m])
                                   ELSE Served(p, s[i - 1], arrivals[i])]
  OBVIOUS
<1>7. ASSUME NEW i \in 0..(m - 1) PROVE t[i] = s[i]
  <2>1. m \in Nat /\ i \in 0..m /\ i # m
    BY <1>2
  <2>2. s[i] = IF i = 0 THEN FirstTold ELSE Served(p, s[i - 1], arrivals[i])
    BY <1>5
  <2>3. t[i] = IF i = 0 THEN FirstTold ELSE Served(p, s[i - 1], arrivals[i])
    BY <1>6, <2>1
  <2> QED BY <2>2, <2>3
<1>8. ASSUME NEW i \in 0..m PROVE t[i] = IF i = 0 THEN FirstTold ELSE Served(p, t[i - 1], arrivals[i])
  <2>1. CASE i = 0
    BY <2>1, <1>6
  <2>2. CASE i # 0
    <3>1. m \in Nat
      BY <1>2
    <3>2. i - 1 \in 0..(m - 1)
      BY <2>2, <3>1
    <3>3. t[i - 1] = s[i - 1]
      BY <3>2, <1>7
    <3>4. t[i] = Served(p, s[i - 1], arrivals[i])
      <4>1. CASE i = m
        BY <2>2, <1>6, <4>1
      <4>2. CASE i # m
        BY <2>2, <1>6, <4>2
      <4> QED BY <4>1, <4>2
    <3> QED BY <2>2, <3>3, <3>4
  <2> QED BY <2>1, <2>2
<1>9. IsTold(t, m)
  BY <1>6, <1>8
<1> QED BY <1>2, <1>9

LEMMA ToldIs ==
  ASSUME NEW p, NEW arrivals, NEW n \in Nat, NEW told, told = Told2(p, arrivals, n)
  PROVE  told = [i \in 0..n |-> IF i = 0 THEN FirstTold ELSE Served(p, told[i - 1], arrivals[i])]
BY ToldExists DEF Told2

LEMMA RequestsAreServed ==
  ASSUME NEW p, NEW arrivals \in Seq(Arrived)
  PROVE  LET n == Len(arrivals)
             told == Told2(p, arrivals, n)
         IN /\ Enforced(p, arrivals) = [i \in 1..n |-> told[i]]
            /\ told[0] = FirstTold
            /\ \A i \in 1..n : told[i] = Served(p, told[i - 1], arrivals[i])
<1>1. PICK n \in Nat : n = Len(arrivals) /\ DOMAIN arrivals = 1..n
  OBVIOUS
<1>2. PICK told : told = Told2(p, arrivals, n)
  OBVIOUS
<1>3. told = [i \in 0..n |-> IF i = 0 THEN FirstTold ELSE Served(p, told[i - 1], arrivals[i])]
  BY <1>2, ToldIs
<1>4. Enforced(p, arrivals) = [i \in DOMAIN arrivals |-> Told2(p, arrivals, Len(arrivals))[i]]
  BY Zenon DEF Enforced, Told2, FirstTold
<1>5. \A i \in 1..n : told[i] = Served(p, told[i - 1], arrivals[i])
  BY <1>3
<1>6. told[0] = FirstTold
  BY <1>3
<1> QED BY <1>1, <1>2, <1>4, <1>5, <1>6

\* What is known of one request after the one before.
Standing(p, told) == told.at \in Nat /\ Fitting(p, told.bucket, told.at)

LEMMA OneRequest ==
  ASSUME NEW p \in PolicyRows, KeptUntilFull(p), NEW before, Standing(p, before), NEW arrival \in Arrived,
         NEW told, told = Served(p, before, arrival)
  PROVE  LET granted == told.decision.allowed /\ ~told.decision.degraded
         IN /\ Standing(p, told) /\ told.at = before.at + arrival.gap
            /\ Level(p, told.bucket, told.at) + (IF granted THEN p.window ELSE 0)
                 <= Level(p, before.bucket, before.at) + arrival.gap * p.amount
            /\ Level(p, told.bucket, told.at) + (IF granted THEN p.window ELSE 0) <= Capacity(p)
<1>1. PICK gap \in Nat : gap = arrival.gap
  BY DEF Arrived
<1>2. PICK at \in Nat : at = before.at
  BY DEF Standing
<1>3. PICK now \in Nat : now = at + gap /\ at <= now /\ now - at = gap
  OBVIOUS
<1>4. PICK b : b = before.bucket /\ Fitting(p, b, at)
  BY <1>2 DEF Standing
<1>5. Fitting(p, b, now) /\ Level(p, b, now) <= Level(p, b, at) + gap * p.amount
  BY <1>3, <1>4, LevelGrows
<1>6. PICK run : run = Consumed(p, b, now)
  OBVIOUS
<1>7. PICK checked : checked = Check(p, b, now, arrival.redis)
  OBVIOUS
<1>8. told = [at |-> now, bucket |-> checked.bucket, decision |-> checked.decision]
  BY <1>1, <1>2, <1>3, <1>4, <1>7 DEF Served
<1>9. Level(p, b, now) \in Int /\ p.window \in Nat
  BY <1>5, LevelFits, FullIsPositive
<1>10. /\ run.allowed \in BOOLEAN /\ Fitting(p, run.bucket, now)
       /\ Level(p, run.bucket, now) + (IF run.allowed THEN p.window ELSE 0) = Level(p, b, now)
       /\ Level(p, run.bucket, now) \in Nat
  <2>1. PICK left : left = Level(p, b, now) - (IF run.allowed THEN p.window ELSE 0)
    OBVIOUS
  <2>2. /\ run.allowed \in BOOLEAN /\ Fitting(p, run.bucket, now)
        /\ Level(p, run.bucket, now) = left /\ left \in Nat
    BY <1>5, <1>6, <2>1, ScriptTakes
  <2> QED BY <1>9, <2>1, <2>2
<1>11. PICK level \in Int, grown \in Int :
         level = Level(p, b, now) /\ grown = Level(p, b, at) + gap * p.amount /\ level <= grown
         /\ level <= Capacity(p) /\ Capacity(p) \in Nat
  <2>1. Level(p, b, at) \in Int
    BY <1>4, LevelFits, FullIsPositive
  <2>2. p.amount \in Nat
    BY FullIsPositive
  <2>3. gap * p.amount \in Int
    BY <2>2
  <2>4. Level(p, b, now) <= Capacity(p) /\ Capacity(p) \in Nat
    BY <1>5, LevelFits, FullIsPositive
  <2> QED BY <1>5, <1>9, <2>1, <2>3, <2>4
<1>12. CASE arrival.redis = "answers"
  <2>1. checked = [decision |-> [allowed |-> run.allowed, retry |-> run.retry, degraded |-> FALSE],
                   bucket |-> run.bucket]
    BY <1>6, <1>7, <1>12 DEF Check
  <2>2. told.bucket = run.bucket /\ told.at = now
        /\ (told.decision.allowed /\ ~told.decision.degraded <=> run.allowed)
    BY <1>8, <2>1
  <2> QED BY <1>1, <1>2, <1>3, <1>4, <1>9, <1>10, <1>11, <2>2 DEF Standing
<1>13. CASE arrival.redis = "late"
  <2>1. checked = [decision |-> [allowed |-> TRUE, retry |-> 0, degraded |-> TRUE],
                   bucket |-> run.bucket]
    BY <1>6, <1>7, <1>13 DEF Check
  <2>2. told.bucket = run.bucket /\ told.at = now
        /\ ~(told.decision.allowed /\ ~told.decision.degraded)
    BY <1>8, <2>1
  <2> QED BY <1>1, <1>2, <1>3, <1>4, <1>9, <1>10, <1>11, <2>2 DEF Standing
<1>14. CASE arrival.redis = "down"
  <2>1. checked = [decision |-> [allowed |-> TRUE, retry |-> 0, degraded |-> TRUE], bucket |-> b]
    BY <1>7, <1>14 DEF Check
  <2>2. told.bucket = b /\ told.at = now /\ ~(told.decision.allowed /\ ~told.decision.degraded)
    BY <1>8, <2>1
  <2> QED BY <1>1, <1>2, <1>3, <1>4, <1>5, <1>9, <1>11, <2>2 DEF Standing
<1> QED BY <1>12, <1>13, <1>14 DEF Arrived

LEMMA StandingHolds ==
  ASSUME NEW p \in PolicyRows, NEW before, Standing(p, before), NEW arrival \in Arrived,
         NEW told, told = Served(p, before, arrival)
  PROVE  /\ Standing(p, told) /\ told.at = before.at + arrival.gap
         /\ ~told.decision.allowed =>
              \E b : /\ Fitting(p, b, told.at)
                     /\ LET run == Consumed(p, b, told.at)
                        IN ~run.allowed /\ told.bucket = run.bucket /\ told.decision.retry = run.retry
<1>1. PICK gap \in Nat : gap = arrival.gap
  BY DEF Arrived
<1>2. PICK now \in Nat : now = before.at + gap /\ before.at <= now
  BY DEF Standing
<1>3. PICK b : b = before.bucket /\ Fitting(p, b, now)
  BY <1>2 DEF Standing, Fitting
<1>4. PICK run : run = Consumed(p, b, now)
  OBVIOUS
<1>5. Fitting(p, run.bucket, now)
  BY <1>3, <1>4, ScriptTakes
<1>6. PICK checked : checked = Check(p, b, now, arrival.redis)
  OBVIOUS
<1>7. told = [at |-> now, bucket |-> checked.bucket, decision |-> checked.decision]
  BY <1>1, <1>2, <1>3, <1>6 DEF Served
<1>8. CASE arrival.redis = "answers"
  <2>1. checked = [decision |-> [allowed |-> run.allowed, retry |-> run.retry, degraded |-> FALSE],
                   bucket |-> run.bucket]
    BY <1>4, <1>6, <1>8 DEF Check
  <2>2. /\ told.bucket = run.bucket /\ told.at = now /\ told.decision.allowed = run.allowed
        /\ told.decision.retry = run.retry
    BY <1>7, <2>1
  <2> QED BY <1>1, <1>2, <1>3, <1>4, <1>5, <2>2 DEF Standing
<1>9. CASE arrival.redis # "answers"
  <2>1. \/ checked = [decision |-> [allowed |-> TRUE, retry |-> 0, degraded |-> TRUE],
                      bucket |-> run.bucket]
        \/ checked = [decision |-> [allowed |-> TRUE, retry |-> 0, degraded |-> TRUE], bucket |-> b]
    BY <1>4, <1>6, <1>9 DEF Check
  <2>2. (told.bucket = run.bucket \/ told.bucket = b) /\ told.at = now /\ told.decision.allowed = TRUE
    BY <1>7, <2>1
  <2> QED BY <1>1, <1>2, <1>3, <1>5, <2>2 DEF Standing
<1> QED BY <1>8, <1>9

LEMMA CeilDivIs ==
  ASSUME NEW a \in Nat, a >= 1, NEW b \in Nat, b >= 1
  PROVE  /\ CeilDiv(a, b) \in Nat /\ CeilDiv(a, b) >= 1 /\ CeilDiv(a, b) <= a
         /\ CeilDiv(a, b) * b >= a /\ (CeilDiv(a, b) - 1) * b < a
<1>1. PICK x \in Nat : x = a + b - 1
  OBVIOUS
<1>2. PICK q \in Int, r \in Int : q = x \div b /\ r = x % b
  OBVIOUS
<1>3. x = b * q + r /\ 0 <= r /\ r < b
  BY <1>2
<1>4. PICK y \in Int : y = b * q
  OBVIOUS
<1>5. y + r = a + b - 1
  BY <1>1, <1>3, <1>4
<1>6. y >= a
  BY <1>3, <1>5
<1>7. y - b < a
  BY <1>3, <1>5
<1>8. (q - 1) * b = y - b /\ q * b = y
  BY <1>4
<1>9. q >= 1
  BY <1>4, <1>6
<1>10. q <= a
  <2>1. SUFFICES ASSUME q > a PROVE FALSE
    OBVIOUS
  <2>2. q - 1 >= a
    BY <2>1
  <2>3. (q - 1) * b >= q - 1
    BY <1>9
  <2> QED BY <1>7, <1>8, <2>2, <2>3
<1> QED BY <1>1, <1>2, <1>6, <1>7, <1>8, <1>9, <1>10 DEF CeilDiv

\* Who is refused is told the first second at which the script admits.
LEMMA WaitsAreExact ==
  ASSUME NEW p \in PolicyRows, p.window <= 7 * 24 * 60 * 60,
         NEW now \in Nat, NEW b, Fitting(p, b, now),
         NEW run, run = Consumed(p, b, now), ~run.allowed
  PROVE  /\ Consumed(p, run.bucket, now + run.retry).allowed
         /\ ~Consumed(p, run.bucket, now + run.retry - 1).allowed
<1>1. PICK w \in Nat : w = p.window /\ w >= 1
  BY FullIsPositive
<1>2. PICK full \in Nat : full = Capacity(p) /\ full >= w
  BY <1>1, FullIsPositive
<1>3. PICK amount \in Nat : amount = p.amount /\ amount >= 1
  BY FullIsPositive
<1>4. PICK ttl \in Nat : ttl = BucketTTL(p) /\ w <= ttl
  BY <1>1, TTLIsPositive
<1>5. PICK left \in Nat : left = Level(p, b, now) /\ left < w
  <2>1. Level(p, b, now) \in Nat
    BY <1>2, LevelFits
  <2>2. run.allowed <=> Level(p, b, now) >= p.window
    BY ScriptTakes
  <2> QED BY <1>1, <2>1, <2>2
<1>6. /\ run.bucket = [tokens |-> left, ts |-> now] /\ Fitting(p, run.bucket, now)
      /\ run.retry = Min({CeilDiv(w - left, amount), w})
  <2>1. PICK less : less = Level(p, b, now) - (IF run.allowed THEN p.window ELSE 0)
    OBVIOUS
  <2>2. less = left
    BY <1>5, <2>1
  <2>3. /\ run.bucket = [tokens |-> less, ts |-> now] /\ Fitting(p, run.bucket, now)
        /\ run.retry = Min({CeilDiv(p.window - less, p.amount), p.window})
    BY <2>1, ScriptTakes
  <2> QED BY <1>1, <1>3, <2>2, <2>3
<1>7. PICK wanted \in Nat : wanted = w - left /\ wanted >= 1 /\ wanted <= w
  BY <1>5
<1>8. PICK q \in Nat : /\ q = CeilDiv(wanted, amount) /\ q >= 1 /\ q <= wanted
                       /\ q * amount >= wanted /\ (q - 1) * amount < wanted
  BY <1>3, <1>7, CeilDivIs
<1>9. run.retry = q
  <2>1. Min({q, w}) = q
    BY <1>7, <1>8, PairBounds
  <2> QED BY <1>6, <1>7, <1>8, <2>1
<1>10. PICK kept : kept = run.bucket /\ kept.tokens = left /\ kept.ts = now /\ kept # NoBucket
  BY <1>6 DEF NoBucket
<1>11. ASSUME NEW d \in Nat, d <= q, NEW gain \in Nat, gain = d * amount
       PROVE  /\ Consumed(p, kept, now + d).allowed <=> Level(p, kept, now + d) >= w
              /\ Level(p, kept, now + d) = IF d >= ttl THEN full
                                           ELSE IF full <= left + gain THEN full ELSE left + gain
  <2>1. now + d \in Nat /\ now + d - now = d /\ (now + d >= now + ttl <=> d >= ttl)
    OBVIOUS
  <2>2. Fitting(p, kept, now + d)
    BY <1>6, <1>10, <2>1 DEF Fitting
  <2>3. Consumed(p, kept, now + d).allowed <=> Level(p, kept, now + d) >= w
    BY <1>1, <2>1, <2>2, ScriptTakes
  <2>4. Level(p, kept, now + d) = IF d >= ttl THEN full
                                  ELSE IF full <= left + gain THEN full ELSE left + gain
    BY <1>2, <1>3, <1>4, <1>10, <1>11, <2>1, <2>2, LevelIs
  <2> QED BY <2>3, <2>4
<1>12. Consumed(p, kept, now + q).allowed
  <2>1. PICK gain \in Nat : gain = q * amount /\ gain >= wanted
    BY <1>8
  <2>2. Level(p, kept, now + q) >= w
    BY <1>2, <1>7, <1>8, <1>11, <2>1
  <2> QED BY <1>11, <2>1, <2>2
<1>13. ~Consumed(p, kept, now + (q - 1)).allowed
  <2>1. PICK d \in Nat : d = q - 1 /\ d <= q /\ d < ttl
    BY <1>4, <1>7, <1>8
  <2>2. PICK gain \in Nat : gain = d * amount /\ gain < wanted
    BY <1>8, <2>1
  <2>3. Level(p, kept, now + d) = left + gain
    BY <1>2, <1>5, <1>7, <1>11, <2>1, <2>2
  <2>4. ~(Level(p, kept, now + d) >= w)
    BY <1>7, <2>2, <2>3
  <2> QED BY <1>11, <2>1, <2>2, <2>4
<1>14. now + run.retry - 1 = now + (q - 1)
  BY <1>8, <1>9
<1> QED BY <1>9, <1>10, <1>12, <1>13, <1>14

LEMMA RegistryIsKept ==
  ASSUME NEW code \in DOMAIN Registry
  PROVE  Registry[code] \in PolicyRows /\ KeptUntilFull(Registry[code])
<1>1. /\ Registry[code] \in PolicyRows /\ Registry[code].window <= 302400
      /\ Registry[code].capacity <= 2 * Registry[code].amount
  BY DEF Registry, Policy, PolicyRows
<1>2. PICK p \in PolicyRows : p = Registry[code]
  BY <1>1
<1>3. PICK c \in Nat, a \in Nat, w \in Nat :
        c = p.capacity /\ a = p.amount /\ w = p.window /\ c <= 2 * a /\ w <= 302400
  BY <1>1, <1>2, FullIsPositive
<1>4. PICK ttl \in Nat : ttl = BucketTTL(p) /\ ttl >= 2 * w
  <2>1. PICK week \in Nat : week = 7 * 24 * 60 * 60
    OBVIOUS
  <2>2. PICK kept \in Nat : kept = Min({week, 2 * w}) /\ kept = 2 * w
    BY <1>3, <2>1, PairBounds
  <2>3. Max({60, kept}) \in Nat /\ Max({60, kept}) >= kept
    <3>1. Max({60, kept}) = IF 60 <= kept THEN kept ELSE 60
      BY PairBounds
    <3> QED BY <3>1
  <2>4. BucketTTL(p) = Max({60, kept})
    BY <1>3, <2>1, <2>2 DEF BucketTTL
  <2> QED BY <2>2, <2>3, <2>4
<1>5. c * w <= (2 * a) * w
  BY <1>3
<1>6. (2 * a) * w = (2 * w) * a
  OBVIOUS
<1>7. (2 * w) * a <= ttl * a
  BY <1>4
<1>8. c * w \in Int /\ (2 * a) * w \in Int /\ ttl * a \in Int
  OBVIOUS
<1>9. c * w <= ttl * a
  BY <1>5, <1>6, <1>7, <1>8
<1> QED BY <1>1, <1>2, <1>3, <1>4, <1>9 DEF KeptUntilFull, Capacity

LEMMA AllStand ==
  ASSUME NEW p \in PolicyRows, NEW arrivals \in Seq(Arrived), NEW n \in Nat, n = Len(arrivals),
         NEW told, told = Told2(p, arrivals, n)
  PROVE  \A k \in 0..n : Standing(p, told[k])
<1> DEFINE Odd == {k \in 0..n : ~Standing(p, told[k])}
<1>1. SUFFICES ASSUME Odd # {} PROVE FALSE
  OBVIOUS
<1>2. PICK m \in Odd : \A k \in Odd : m <= k
  <2>1. Odd \in SUBSET Nat
    OBVIOUS
  <2> HIDE DEF Odd
  <2> QED BY <1>1, <2>1, LeastNumber
<1>3. m # 0
  <2>1. told[0] = FirstTold
    BY RequestsAreServed
  <2>2. Standing(p, FirstTold)
    BY DEF Standing, FirstTold, Fitting
  <2> QED BY <1>2, <2>1, <2>2
<1>4. PICK k \in 1..n : k = m
  BY <1>2, <1>3
<1>5. k - 1 \in 0..n /\ ~(k <= k - 1)
  OBVIOUS
<1>6. Standing(p, told[k - 1])
  BY <1>2, <1>4, <1>5
<1>7. arrivals[k] \in Arrived /\ told[k] = Served(p, told[k - 1], arrivals[k])
  BY <1>4, RequestsAreServed
<1>8. Standing(p, told[k])
  BY <1>6, <1>7, StandingHolds
<1> QED BY <1>2, <1>4, <1>8

\* Between two requests a bucket that is kept until it is full gives no more
\* than it can hold and what the time between them brings.
LEMMA BudgetsAreKept ==
  ASSUME NEW p \in PolicyRows, KeptUntilFull(p), NEW arrivals \in Seq(Arrived)
  PROVE  WithinBudget(p, Enforced(p, arrivals))
<1>1. PICK n \in Nat : n = Len(arrivals)
  OBVIOUS
<1>2. PICK told : told = Told2(p, arrivals, n)
  OBVIOUS
<1>3. Enforced(p, arrivals) = [k \in 1..n |-> told[k]]
  BY <1>1, <1>2, RequestsAreServed
<1>4. PICK w \in Nat, amount \in Nat, full \in Nat :
        w = p.window /\ amount = p.amount /\ full = Capacity(p) /\ full = p.capacity * p.window
  BY FullIsPositive DEF Capacity
<1>5. PICK level : level = [k \in 0..n |-> Level(p, told[k].bucket, told[k].at)]
  OBVIOUS
<1>6. PICK at : at = [k \in 0..n |-> told[k].at]
  OBVIOUS
<1>7. PICK granted : granted = {k \in 1..n : told[k].decision.allowed /\ ~told[k].decision.degraded}
  OBVIOUS
<1>8. /\ \A k \in 0..n : at[k] \in Nat /\ level[k] \in Nat
      /\ \A k \in 1..n : at[k - 1] <= at[k]
      /\ \A k \in 1..n : level[k] + (IF k \in granted THEN w ELSE 0) <= full
      /\ \A k \in 1..n : level[k] + (IF k \in granted THEN w ELSE 0)
                           <= level[k - 1] + (at[k] - at[k - 1]) * amount
  <2>1. ASSUME NEW k \in 0..n
        PROVE  at[k] \in Nat /\ level[k] \in Nat /\ Standing(p, told[k])
    <3>1. Standing(p, told[k])
      BY <1>1, <1>2, AllStand
    <3>2. PICK now \in Nat : now = told[k].at /\ Fitting(p, told[k].bucket, now)
      BY <3>1 DEF Standing
    <3>3. Level(p, told[k].bucket, now) \in Nat
      BY <3>2, LevelFits, FullIsPositive
    <3> QED BY <1>5, <1>6, <3>1, <3>2, <3>3
  <2>2. ASSUME NEW k \in 1..n
        PROVE  /\ at[k - 1] <= at[k]
               /\ level[k] + (IF k \in granted THEN w ELSE 0) <= full
               /\ level[k] + (IF k \in granted THEN w ELSE 0)
                    <= level[k - 1] + (at[k] - at[k - 1]) * amount
    <3>1. k - 1 \in 0..n /\ k \in 0..n
      OBVIOUS
    <3>2. Standing(p, told[k - 1])
      BY <2>1, <3>1
    <3>3. arrivals[k] \in Arrived /\ told[k] = Served(p, told[k - 1], arrivals[k])
      BY <1>1, <1>2, RequestsAreServed
    <3>4. PICK gap \in Nat : gap = arrivals[k].gap
      BY <3>3 DEF Arrived
    <3>5. k \in granted <=> told[k].decision.allowed /\ ~told[k].decision.degraded
      BY <1>7
    <3>6. PICK before : before = told[k - 1] /\ Standing(p, before)
      BY <3>2
    <3>7. PICK arrival \in Arrived : arrival = arrivals[k]
      BY <3>3
    <3>8. PICK now : now = told[k] /\ now = Served(p, before, arrival)
      BY <3>3, <3>6, <3>7
    <3>9. LET gave == now.decision.allowed /\ ~now.decision.degraded
          IN /\ now.at = before.at + arrival.gap
             /\ Level(p, now.bucket, now.at) + (IF gave THEN p.window ELSE 0)
                  <= Level(p, before.bucket, before.at) + arrival.gap * p.amount
             /\ Level(p, now.bucket, now.at) + (IF gave THEN p.window ELSE 0) <= Capacity(p)
      BY <3>6, <3>8, OneRequest
    <3>10. at[k] = at[k - 1] + gap /\ at[k - 1] \in Nat /\ at[k] - at[k - 1] = gap
      <4>1. at[k] = at[k - 1] + gap
        BY <1>6, <3>1, <3>4, <3>6, <3>7, <3>8, <3>9
      <4>2. at[k - 1] \in Nat
        BY <2>1, <3>1
      <4> QED BY <4>1, <4>2
    <3>11. level[k] = Level(p, now.bucket, now.at)
           /\ level[k - 1] = Level(p, before.bucket, before.at)
      BY <1>5, <3>1, <3>8, <3>6
    <3>12. PICK give : give = (IF k \in granted THEN w ELSE 0)
      OBVIOUS
    <3>13. /\ level[k] + give <= level[k - 1] + gap * amount
           /\ level[k] + give <= full
      BY <1>4, <3>4, <3>7, <3>5, <3>8, <3>9, <3>11, <3>12
    <3>14. at[k - 1] <= at[k]
      BY <3>10
    <3> QED BY <3>10, <3>12, <3>13, <3>14
  <2> QED BY <2>1, <2>2
<1> DEFINE Given(i, j) == {k \in i..j : k \in granted}
           Spent(i, j) == Cardinality(Given(i, j)) * w + level[j] <= full + (at[j] - at[i]) * amount
<1>9. ASSUME NEW i \in 1..n, NEW j \in 1..n, i <= j
      PROVE  Cardinality(Given(i, j)) \in Nat /\ IsFiniteSet(Given(i, j))
  <2>1. IsFiniteSet(i..j)
    BY FS_Interval
  <2>2. Given(i, j) \in SUBSET (i..j)
    OBVIOUS
  <2> QED BY <2>1, <2>2, FS_Subset, FS_CardinalityType
<1>10. ASSUME NEW i \in 1..n PROVE Spent(i, i)
  <2>1. at[i] - at[i] = 0 /\ 0 * amount = 0 /\ full + 0 = full
    BY <1>8
  <2>2. PICK l \in Nat : l = level[i]
    BY <1>8
  <2>3. CASE i \in granted
    <3>1. Given(i, i) = {i}
      BY <2>3
    <3>2. Cardinality({i}) = 1 /\ 1 * w = w
      <4>1. Cardinality({i}) = 1
        BY FS_Singleton
      <4>2. 1 * w = w
        OBVIOUS
      <4> QED BY <4>1, <4>2
    <3>3. l + w <= full
      BY <1>8, <2>2, <2>3
    <3>4. Cardinality(Given(i, i)) * w + level[i] = w + l
      BY <2>2, <3>1, <3>2
    <3> QED BY <2>1, <3>3, <3>4
  <2>4. CASE i \notin granted
    <3>1. Given(i, i) = {}
      BY <2>4
    <3>2. Cardinality({}) = 0 /\ 0 * w = 0
      BY FS_EmptySet
    <3>3. l <= full
      BY <1>8, <2>2, <2>4
    <3>4. Cardinality(Given(i, i)) * w + level[i] = 0 + l
      BY <2>2, <3>1, <3>2
    <3> QED BY <2>1, <3>3, <3>4
  <2> QED BY <2>3, <2>4
<1>11. ASSUME NEW i \in 1..n, NEW k \in 1..n, i < k, Spent(i, k - 1) PROVE Spent(i, k)
  <2>1. k - 1 \in 1..n /\ i <= k - 1 /\ k - 1 \in 0..n /\ k \in 0..n /\ i \in 0..n
    BY <1>11
  <2>2. PICK c \in Nat : c = Cardinality(Given(i, k - 1)) /\ IsFiniteSet(Given(i, k - 1))
    BY <1>9, <2>1
  <2>3. PICK l \in Nat, ll \in Nat : l = level[k - 1] /\ ll = level[k]
    BY <1>8, <2>1
  <2>4. PICK s \in Nat, t \in Nat, u \in Nat : s = at[i] /\ t = at[k - 1] /\ u = at[k]
    BY <1>8, <2>1
  <2>5. c * w + l <= full + (t - s) * amount
    BY <1>11, <2>2, <2>3, <2>4
  <2>6. (u - s) * amount = (t - s) * amount + (u - t) * amount
    OBVIOUS
  <2>7. PICK x \in Int, y \in Int : x = (t - s) * amount /\ y = (u - t) * amount
    OBVIOUS
  <2>8. PICK cw \in Nat : cw = c * w
    OBVIOUS
  <2>9. CASE k \in granted
    <3>1. Given(i, k) = Given(i, k - 1) \cup {k} /\ k \notin Given(i, k - 1)
      BY <1>11, <2>9
    <3>2. Cardinality(Given(i, k)) = c + 1
      <4> HIDE DEF Given
      <4> QED BY <2>2, <3>1, FS_AddElement
    <3>3. (c + 1) * w = cw + w
      BY <2>8
    <3>4. ll + w <= l + y
      BY <1>8, <2>3, <2>4, <2>7, <2>9
    <3>5. Cardinality(Given(i, k)) * w + level[k] = cw + w + ll
      BY <2>3, <3>2, <3>3
    <3>6. full + (at[k] - at[i]) * amount = full + x + y
      BY <2>4, <2>6, <2>7
    <3>7. cw + l <= full + x
      BY <2>5, <2>7, <2>8
    <3> QED BY <3>4, <3>5, <3>6, <3>7
  <2>10. CASE k \notin granted
    <3>1. Given(i, k) = Given(i, k - 1)
      BY <1>11, <2>10
    <3>2. Cardinality(Given(i, k)) = c
      BY <2>2, <3>1
    <3>4. ll <= l + y
      <4>1. level[k] + 0 <= level[k - 1] + (at[k] - at[k - 1]) * amount
        BY <1>8, <2>10
      <4>2. ll + 0 = ll
        OBVIOUS
      <4> QED BY <2>3, <2>4, <2>7, <4>1, <4>2
    <3>5. Cardinality(Given(i, k)) * w + level[k] = cw + ll
      BY <2>3, <2>8, <3>2
    <3>6. full + (at[k] - at[i]) * amount = full + x + y
      BY <2>4, <2>6, <2>7
    <3>7. cw + l <= full + x
      BY <2>5, <2>7, <2>8
    <3> QED BY <3>4, <3>5, <3>6, <3>7
  <2> QED BY <2>9, <2>10
<1>12. ASSUME NEW i \in 1..n, NEW j \in 1..n, i <= j PROVE Spent(i, j)
  <2> DEFINE Odd == {k \in i..n : ~Spent(i, k)}
  <2> HIDE DEF Spent
  <2>1. SUFFICES ASSUME Odd # {} PROVE FALSE
    BY <1>12
  <2>2. PICK m \in Odd : \A k \in Odd : m <= k
    <3>1. Odd \in SUBSET Nat
      OBVIOUS
    <3> HIDE DEF Odd
    <3> QED BY <2>1, <3>1, LeastNumber
  <2>3. m # i
    BY <1>10, <2>2
  <2>4. m \in 1..n /\ i < m /\ m - 1 \in i..n /\ ~(m <= m - 1)
    BY <2>2, <2>3
  <2>5. Spent(i, m - 1)
    BY <2>2, <2>4
  <2> QED BY <1>11, <2>2, <2>4, <2>5
<1>13. ASSUME NEW i \in 1..n, NEW j \in 1..n, i <= j
       PROVE  Cardinality(Given(i, j)) * p.window
                <= p.capacity * p.window + (told[j].at - told[i].at) * p.amount
  <2>1. PICK c \in Nat : c = Cardinality(Given(i, j))
    BY <1>9, <1>13
  <2>2. PICK l \in Nat : l = level[j]
    BY <1>8
  <2>3. told[j].at = at[j] /\ told[i].at = at[i]
    BY <1>6
  <2>4. PICK cw \in Nat : cw = c * w
    OBVIOUS
  <2>5. PICK x \in Int : x = (at[j] - at[i]) * amount
    <3>1. at[j] \in Nat /\ at[i] \in Nat
      BY <1>8
    <3> QED BY <3>1
  <2>6. cw + l <= full + x
    BY <1>12, <1>13, <2>1, <2>2, <2>4, <2>5
  <2>7. cw <= full + x
    BY <2>6
  <2> QED BY <1>4, <2>1, <2>3, <2>4, <2>5, <2>7
<1>14. PICK e : e = Enforced(p, arrivals)
  OBVIOUS
<1>15. DOMAIN e = 1..n /\ \A k \in 1..n : e[k] = told[k]
  BY <1>3, <1>14
<1>16. ASSUME NEW i \in 1..n, NEW j \in 1..n
       PROVE  {k \in i..j : e[k].decision.allowed /\ ~e[k].decision.degraded} = Given(i, j)
  BY <1>7, <1>15
<1> HIDE DEF Given, Spent
<1>17. WithinBudget(p, e)
  <2> SUFFICES ASSUME NEW i \in 1..n, NEW j \in 1..n, i <= j
               PROVE  LET admitted == {k \in i..j : e[k].decision.allowed /\ ~e[k].decision.degraded}
                      IN Cardinality(admitted) * p.window
                           <= p.capacity * p.window + (e[j].at - e[i].at) * p.amount
    BY <1>15 DEF WithinBudget
  <2>1. e[i].at = told[i].at /\ e[j].at = told[j].at
    BY <1>15
  <2> QED BY <1>13, <1>16, <2>1
<1> QED BY <1>14, <1>17

LEMMA RefusalsAreExact ==
  ASSUME NEW p \in PolicyRows, p.window <= 7 * 24 * 60 * 60, NEW arrivals \in Seq(Arrived),
         NEW e, e = Enforced(p, arrivals), NEW i \in DOMAIN e, ~e[i].decision.allowed
  PROVE  /\ Consumed(p, e[i].bucket, e[i].at + e[i].decision.retry).allowed
         /\ ~Consumed(p, e[i].bucket, e[i].at + e[i].decision.retry - 1).allowed
<1>1. PICK n \in Nat : n = Len(arrivals)
  OBVIOUS
<1>2. PICK all : all = Told2(p, arrivals, n)
  OBVIOUS
<1>3. e = [k \in 1..n |-> all[k]]
  BY <1>1, <1>2, RequestsAreServed
<1>4. i \in 1..n /\ i - 1 \in 0..n
  BY <1>3
<1>5. PICK told : told = e[i] /\ told = all[i]
  BY <1>3, <1>4
<1>6. PICK before : before = all[i - 1] /\ Standing(p, before)
  BY <1>1, <1>2, <1>4, AllStand
<1>7. PICK arrival \in Arrived : arrival = arrivals[i]
  BY <1>1, <1>4
<1>8. told = Served(p, before, arrival)
  BY <1>1, <1>2, <1>4, <1>5, <1>6, <1>7, RequestsAreServed
<1>9. ~told.decision.allowed
  BY <1>5
<1>10. PICK b : /\ Fitting(p, b, told.at)
                /\ ~Consumed(p, b, told.at).allowed
                /\ told.bucket = Consumed(p, b, told.at).bucket
                /\ told.decision.retry = Consumed(p, b, told.at).retry
  BY <1>6, <1>8, <1>9, StandingHolds
<1>11. told.at \in Nat
  BY <1>6, <1>7, <1>8, StandingHolds DEF Standing
<1>12. PICK run : run = Consumed(p, b, told.at)
  OBVIOUS
<1>13. /\ Consumed(p, run.bucket, told.at + run.retry).allowed
       /\ ~Consumed(p, run.bucket, told.at + run.retry - 1).allowed
  BY <1>10, <1>11, <1>12, WaitsAreExact
<1> QED BY <1>5, <1>10, <1>12, <1>13

-----------------------------------------------------------------------------
(* The invariant: what was read is what the rules make of the case.        *)

DeadlineRead ==
  written.kind = "deadline" =>
    /\ written.text \in DueTexts /\ written.at \in SentDays
    /\ reading # Null => reading.due = ParseDuePhrase(written.text, written.at)
BriefingRead ==
  written.kind = "briefing" =>
    /\ written.text.zone \in Zones /\ written.text.time \in BriefingTimes /\ written.at \in Ticks
    /\ reading # Null =>
         reading.target = Target(LocalDate(written.at, written.text.zone),
                                 written.text.time, written.text.zone)
RequestRead ==
  written.kind = "schedule" =>
    /\ written.text \in Requests /\ written.at \in References
    /\ reading # Null =>
         /\ reading.x = ParseSchedulingRequest(written.text)
         /\ reading.executable <=> Executable(reading.x, written.at)
CallRead ==
  /\ written.kind = "read" =>
       /\ written.call \in Reads
       /\ reading # Null =>
            reading = RetryRead(written.call.answers, written.call.jitters,
                                written.call.after, written.call.limits)
  /\ written.kind = "draft" =>
       written.call \in Drafts /\ (reading # Null => reading = CreateDraft(written.call))
  /\ written.kind = "event" =>
       written.call \in Events /\ (reading # Null => reading = InsertEvent(written.call))
LimitRead ==
  written.kind = "limit" =>
    /\ written.policy \in Policies /\ written.requests \in Arrivals(written.policy)
    /\ reading # Null => reading = Enforced(written.policy, written.requests)
RulesInv ==
  /\ DeadlineRead
  /\ RequestRead
  /\ BriefingRead
  /\ CallRead
  /\ LimitRead

LEMMA CasesAreGiven == RulesInit => RulesInv
<1> SUFFICES ASSUME RulesInit PROVE RulesInv
  OBVIOUS
<1>1. reading = Null
  BY DEF RulesInit
<1>2. DeadlineRead
  <2>1. written.kind = "deadline" =>
          \E text \in DueTexts, sent \in SentDays :
            written = [kind |-> "deadline", text |-> text, at |-> sent]
    BY DEF RulesInit
  <2> QED BY <1>1, <2>1 DEF DeadlineRead
<1>3. RequestRead
  <2>1. written.kind = "schedule" =>
          \E r \in Requests, reference \in References :
            written = [kind |-> "schedule", text |-> r, at |-> reference]
    BY DEF RulesInit
  <2> QED BY <1>1, <2>1 DEF RequestRead
<1>4. BriefingRead
  <2>1. written.kind = "briefing" =>
          \E z \in Zones, time \in BriefingTimes, now \in Ticks :
            written = [kind |-> "briefing", text |-> [zone |-> z, time |-> time], at |-> now]
    BY DEF RulesInit
  <2> QED BY <1>1, <2>1 DEF BriefingRead
<1>5. CallRead
  <2>1. /\ written.kind = "read" => \E read \in Reads : written = [kind |-> "read", call |-> read]
        /\ written.kind = "draft" => \E call \in Drafts : written = [kind |-> "draft", call |-> call]
        /\ written.kind = "event" => \E call \in Events : written = [kind |-> "event", call |-> call]
    BY DEF RulesInit
  <2> QED BY <1>1, <2>1 DEF CallRead
<1>6. LimitRead
  <2>1. written.kind = "limit" =>
          \E p \in Policies : \E requests \in Arrivals(p) :
            written = [kind |-> "limit", policy |-> p, requests |-> requests]
    BY DEF RulesInit
  <2> QED BY <1>1, <2>1 DEF LimitRead
<1> QED BY <1>2, <1>3, <1>4, <1>5, <1>6 DEF RulesInv

\* An action reads the cases of its kind.
LEMMA CasesAreRead == RulesInv /\ [RulesNext]_cases => RulesInv'
<1> SUFFICES ASSUME RulesInv, [RulesNext]_cases PROVE RulesInv'
  OBVIOUS
<1> USE DEF RulesInv
<1>1. CASE ReadsDeadline
  <2>1. /\ written.kind = "deadline" /\ UNCHANGED written
        /\ reading'.due = ParseDuePhrase(written.text, written.at)
    BY <1>1 DEF ReadsDeadline
  <2> QED BY <2>1 DEF DeadlineRead, RequestRead, BriefingRead, CallRead, LimitRead
<1>2. CASE ReadsRequest
  <2>1. PICK x : x = ParseSchedulingRequest(written.text)
    OBVIOUS
  <2>2. /\ written.kind = "schedule" /\ UNCHANGED written
        /\ reading' = [x |-> x, executable |-> Executable(x, written.at)]
    BY <1>2, <2>1 DEF ReadsRequest
  <2>3. reading'.x = x /\ (reading'.executable <=> Executable(x, written.at))
    BY <2>2
  <2> QED BY <2>1, <2>2, <2>3 DEF DeadlineRead, RequestRead, BriefingRead, CallRead, LimitRead
<1>3. CASE ReadsBriefingTime
  <2>1. /\ written.kind = "briefing" /\ UNCHANGED written
        /\ reading'.target = Target(LocalDate(written.at, written.text.zone),
                                    written.text.time, written.text.zone)
    BY <1>3 DEF ReadsBriefingTime
  <2> QED BY <2>1 DEF DeadlineRead, RequestRead, BriefingRead, CallRead, LimitRead
<1>4. CASE Retries \/ CallsGmail \/ CallsCalendar
  <2>1. written.kind \in {"read", "draft", "event"} /\ UNCHANGED written
    BY <1>4 DEF Retries, CallsGmail, CallsCalendar
  <2>2. /\ written.kind = "read" =>
             reading' = RetryRead(written.call.answers, written.call.jitters,
                                  written.call.after, written.call.limits)
        /\ written.kind = "draft" => reading' = CreateDraft(written.call)
        /\ written.kind = "event" => reading' = InsertEvent(written.call)
    BY <1>4 DEF Retries, CallsGmail, CallsCalendar
  <2>3. CallRead'
    BY <2>1, <2>2 DEF CallRead
  <2> QED BY <2>1, <2>3 DEF DeadlineRead, RequestRead, BriefingRead, LimitRead
<1>5. CASE Limits
  <2>1. /\ written.kind = "limit" /\ UNCHANGED written
        /\ reading' = Enforced(written.policy, written.requests)
    BY <1>5 DEF Limits
  <2> QED BY <2>1 DEF DeadlineRead, RequestRead, BriefingRead, CallRead, LimitRead
<1>6. CASE UNCHANGED cases
  BY <1>6 DEF cases, DeadlineRead, RequestRead, BriefingRead, CallRead, LimitRead
<1> QED BY <1>1, <1>2, <1>3, <1>4, <1>5, <1>6 DEF RulesNext

LEMMA RulesAreApplied == RulesSpec => []RulesInv
BY CasesAreGiven, CasesAreRead, PTL DEF RulesSpec

\* Whatever the offsets of a zone, if its clocks skip at most four hours
\* (ZonesAreGiven), a briefing is due at the first instant of
\* its day at which the local clock shows its time or has passed it: once when
\* the time comes twice, and as soon as the clocks have changed when it is
\* skipped (scheduled_briefs.py:113-123).
THEOREM BriefingsAreOnTime == RulesSpec => []BriefingIsTheFirstInstant
<1>1. RulesInv => BriefingIsTheFirstInstant
  <2> SUFFICES ASSUME RulesInv, written.kind = "briefing", reading # Null
               PROVE  LET z == written.text.zone
                          wall == 1440 * LocalDate(written.at, z) + written.text.time
                          offsets == {z.before, z.after}
                          window == (wall - Max(offsets))..(wall - Min(offsets) + GapSearchBound)
                      IN reading.target = Min({u \in window : Local(u, z) >= wall})
    BY DEF BriefingIsTheFirstInstant
  <2>1. PICK z \in [at : Int, before : Int, after : Int] :
          z = written.text.zone /\ z.after - z.before <= GapSearchBound
    BY ZonesAreGiven DEF RulesInv, BriefingRead
  <2>2. written.at \in Int /\ written.text.time \in Int
    BY ZonesAreGiven DEF RulesInv, BriefingRead
  <2>3. Local(written.at, z) \in Int
    BY <2>2 DEF Local
  <2>4. LocalDate(written.at, z) \in Int
    BY <2>3 DEF LocalDate
  <2>5. PICK wall \in Int : wall = 1440 * LocalDate(written.at, z) + written.text.time
    BY <2>2, <2>4
  <2>6. reading.target = ResolveLocal(wall, z)
    BY <2>1, <2>5 DEF RulesInv, BriefingRead, Target
  <2>7. FirstInstant(reading.target, wall, z)
    BY <2>1, <2>6, ResolvesToTheFirst
  <2>8. reading.target = Min({v \in (wall - Max({z.before, z.after}))
                                     ..(wall - Min({z.before, z.after}) + GapSearchBound) :
                                 Local(v, z) >= wall})
    BY <2>1, <2>7, TheFirstInWindow
  <2> QED BY <2>1, <2>5, <2>8
<1> QED BY <1>1, RulesAreApplied, PTL

\* An event that may be proposed stands in the email, whatever the patterns
\* find there: its one date, a start and an end that its clocks mean or the
\* stated duration; and it ends after it starts and is to come
\* (scheduling_phrases.py:7).
THEOREM EventsAreStated == RulesSpec => []PreparedEventIsStated
<1>1. RulesInv => PreparedEventIsStated
  <2> DEFINE Stated(r, x, day) ==
        LET FromRange == /\ r.range # Null
                     /\ x.starts % 1440 \in Meant(r.range.s, OrElse(r.range.s.half, r.range.e.half))
                     /\ x.ends - 1440 * day \in Meant(r.range.e, OrElse(r.range.e.half, r.range.s.half))
            FromSingle == /\ r.single # Null /\ r.duration # Null
                      /\ x.starts % 1440 \in Meant(r.single, r.single.half)
                      /\ x.ends = x.starts + Duration(r)
        IN FromRange \/ FromSingle
  <2> SUFFICES ASSUME RulesInv, written.kind = "schedule", reading # Null, reading.executable
               PROVE  LET r == written.text
                          x == reading.x
                          day == x.starts \div 1440
                      IN /\ \E d \in r.dates : d.day = day /\ d.weekday # "wrong"
                         /\ \A d \in r.dates : d.weekday = "wrong" \/ d.day = day
                         /\ Stated(r, x, day)
                         /\ x.starts < x.ends /\ x.starts > written.at
                         /\ x.attendees \in 1..50
    BY DEF PreparedEventIsStated
  <2>1. PICK r \in RequestRows : r = written.text /\ IsFiniteSet(r.dates)
    BY RequestsAreGiven DEF RulesInv, RequestRead
  <2>2. Null \notin Int \cup Halves /\ written.at \in Int
    BY RequestsAreGiven DEF RulesInv, RequestRead
  <2>3. PICK x : x = reading.x /\ x = ParseSchedulingRequest(r) /\ Executable(x, written.at)
    BY <2>1 DEF RulesInv, RequestRead
  <2>4. PICK date : date = ExtractDate(r)
    OBVIOUS
  <2>5. PICK start : start = ExtractTimes(r)[1]
    OBVIOUS
  <2>6. PICK end : end = ExtractTimes(r)[2]
    OBVIOUS
  <2>7. /\ date # Null /\ start # Null
        /\ x.starts = 1440 * date + start /\ x.starts > written.at
        /\ \/ end # Null /\ x.ends = 1440 * date + end
           \/ end = Null /\ r.duration # Null /\ x.ends = x.starts + Duration(r)
        /\ x.ends = Null \/ ~(x.ends <= x.starts)
        /\ x.attendees = Attendees(r) /\ Attendees(r) # 0
    BY <2>3, <2>4, <2>5, <2>6, NothingMissing
  <2>8. /\ date \in Nat
        /\ \E d \in r.dates : d.day = date /\ d.weekday # "wrong"
        /\ \A d \in r.dates : d.weekday = "wrong" \/ d.day = date
    BY <2>1, <2>4, <2>7, OneDate
  <2>9. FromTheRange(r, start, end) \/ (FromTheSingle(r, start) /\ end = Null)
    BY <2>2, <2>5, <2>6, <2>7, TimesAreStated
  <2>10. start \in 0..1439
    BY <2>9 DEF FromTheRange, FromTheSingle
  <2>11. x.starts \in Nat /\ x.starts \div 1440 = date /\ x.starts % 1440 = start
    <3>1. PICK d \in Nat : d = date
      BY <2>8
    <3>2. PICK t \in 0..1439 : t = start
      BY <2>10
    <3>3. x.starts = 1440 * d + t
      BY <2>7, <3>1, <3>2
    <3>4. x.starts \in Nat /\ x.starts \div 1440 = d /\ x.starts % 1440 = t
      BY <3>3
    <3> QED BY <3>1, <3>2, <3>4
  <2>12. x.ends \in Int
    <3>1. CASE end # Null
      <4>1. end \in 0..1439 /\ x.ends = 1440 * date + end
        BY <2>7, <2>9, <3>1 DEF FromTheRange
      <4> QED BY <2>8, <4>1
    <3>2. CASE end = Null
      <4>1. Duration(r) \in Int
        BY <2>7, <3>2 DEF Duration, RequestRows
      <4> QED BY <2>7, <2>11, <3>2, <4>1
    <3> QED BY <3>1, <3>2
  <2>13. x.starts < x.ends
    BY <2>2, <2>7, <2>11, <2>12
  <2>14. Stated(r, x, date)
    <3>1. CASE FromTheRange(r, start, end)
      <4>1. end \in 0..1439 /\ x.ends = 1440 * date + end
        BY <2>2, <2>7, <3>1 DEF FromTheRange
      <4>2. x.ends - 1440 * date = end
        BY <2>8, <4>1
      <4> QED BY <2>11, <3>1, <4>2 DEF FromTheRange, StartHalf, EndHalf
    <3>2. CASE FromTheSingle(r, start) /\ end = Null
      BY <2>7, <2>11, <3>2 DEF FromTheSingle
    <3> QED BY <2>9, <3>1, <3>2
  <2>15. x.attendees \in 1..50
    BY <2>7, PeopleAreInvited
  <2> HIDE DEF Stated
  <2> QED BY <2>1, <2>3, <2>7, <2>8, <2>11, <2>13, <2>14, <2>15
<1> QED BY <1>1, RulesAreApplied, PTL

\* Whatever an email of the calendar's days says, its deadline is the first day
\* from the sending on that its first phrase can mean, over the ends of months
\* and years (deadline_phrases.py:44, parse_due_phrase).
THEOREM DeadlinesAreFirst == RulesSpec => []DueIsTheFirstDayMeant
<1>1. RulesInv => DueIsTheFirstDayMeant
  <2> SUFFICES ASSUME RulesInv, written.kind = "deadline", reading # Null, written.text # {},
                      reading.due # Null
               PROVE  LET p == First(written.text)
                          window == written.at..(written.at + 31)
                      IN reading.due = Min({day \in window : Fits(p, written.at, day)})
    BY DEF DueIsTheFirstDayMeant
  <2>1. /\ written.text \in DueTexts /\ written.at \in SentDays
        /\ reading.due = ParseDuePhrase(written.text, written.at)
    BY DEF RulesInv, DeadlineRead
  <2>2. PICK text \in DueTexts, sent \in SentDays : text = written.text /\ sent = written.at
    BY <2>1
  <2>3. PICK deadline : deadline = reading.due /\ deadline = ParseDuePhrase(text, sent)
    BY <2>1, <2>2
  <2> QED BY <2>2, <2>3, DeadlineIsFirst
<1> QED BY <1>1, RulesAreApplied, PTL

LEMMA CallsHold == CallRead => CallsInv
<1> SUFFICES ASSUME CallRead PROVE CallsInv
  OBVIOUS
<1>1. OutcomeIsHonest
  <2>1. CASE written.kind = "draft" /\ reading # Null
    <3>1. PICK c \in Drafts : c = written.call /\ reading = CreateDraft(c)
      BY <2>1 DEF CallRead
    <3>2. PICK matches \in BOOLEAN : matches <=> DraftMatches(c.approved, c.stored)
      OBVIOUS
    <3>3. reading = Executed("gmail", c, matches)
      BY <3>1, <3>2 DEF CreateDraft, DraftMatches
    <3>4. matches <=> AsAgreed("draft", c)
      BY <3>2, CallsAreGiven, DraftsAreCompared
    <3>5. DOMAIN c.reads = 1..2 /\ Told("gmail", c)
      BY CallsAreGiven
    <3> QED BY <2>1, <3>1, <3>3, <3>4, <3>5, OutcomesAreTrue DEF OutcomeIsHonest
  <2>2. CASE written.kind = "event" /\ reading # Null
    <3>1. PICK c \in Events : c = written.call /\ reading = InsertEvent(c)
      BY <2>2 DEF CallRead
    <3>2. PICK matches \in BOOLEAN : matches <=> EventMatches(c.approved, c.stored)
      OBVIOUS
    <3>3. reading = Executed("calendar", c, matches)
      BY <3>1, <3>2 DEF InsertEvent, EventMatches
    <3>4. matches <=> AsAgreed("event", c)
      BY <3>2, EventsAreCompared
    <3>5. DOMAIN c.reads = 1..2 /\ Told("calendar", c)
      BY CallsAreGiven
    <3> QED BY <2>2, <3>1, <3>3, <3>4, <3>5, OutcomesAreTrue DEF OutcomeIsHonest
  <2> QED BY <2>1, <2>2 DEF OutcomeIsHonest
<1>2. RetriesStop
  BY ReadsAreBounded DEF RetriesStop, CallRead
<1> QED BY <1>1, <1>2 DEF CallsInv

\* Whatever a provider answers and stores, an executor says that a write has
\* failed only of one that was not done, or that was answered with one of the
\* few server errors that the clients do not list (Unlisted), and that it has
\* succeeded only and always of one that was read back as agreed to; and
\* whatever the answers to a read and the draws of its delays, it is repeated
\* after errors that may pass, within its attempts and its budget, and not
\* given up early (action_executors.py:224, :351, retry.py:49).
THEOREM CallsAreHonest == RulesSpec => []CallsInv
<1>1. RulesInv => CallsInv
  BY CallsHold DEF RulesInv
<1> QED BY <1>1, RulesAreApplied, PTL

\* A bucket is kept for the time of its window, the longest that anyone is told
\* to wait; bucket_ttl_seconds ends after a week, whatever the window.
WindowsAreKept == \A p \in Policies : p.window <= 7 * 24 * 60 * 60

LEMMA LimitsHold ==
  ASSUME WindowsAreKept
  PROVE  LimitRead => BudgetsHold
<1> SUFFICES ASSUME LimitRead, written.kind = "limit", reading # Null PROVE BudgetsHold
  BY DEF BudgetsHold
<1>1. PICK p, arrivals : /\ p = written.policy /\ p \in Policies /\ arrivals \in Arrivals(p)
                         /\ reading = Enforced(p, arrivals)
  BY DEF LimitRead
<1>2. p \in PolicyRows /\ p.window <= 7 * 24 * 60 * 60
  BY <1>1, PoliciesAreGiven DEF PolicyRows, WindowsAreKept
<1>3. arrivals \in Seq(Arrived)
  BY <1>1, PoliciesAreGiven DEF Arrived
<1>4. (\E code \in DOMAIN Registry : Registry[code] = p) => WithinBudget(p, reading)
  BY <1>1, <1>2, <1>3, RegistryIsKept, BudgetsAreKept
<1>5. ASSUME NEW i \in DOMAIN reading, ~reading[i].decision.allowed
      PROVE  /\ Consumed(p, reading[i].bucket, reading[i].at + reading[i].decision.retry).allowed
             /\ ~Consumed(p, reading[i].bucket, reading[i].at + reading[i].decision.retry - 1).allowed
  BY <1>1, <1>2, <1>3, <1>5, RefusalsAreExact
<1> QED BY <1>1, <1>4, <1>5 DEF BudgetsHold

\* Under any policy of the registry, for any sequence of requests and outages
\* of Redis, no more is admitted between two requests than a burst and what
\* the time between them brings; and under any policy, overridden or not, whose
\* window is a week at most, who waits as long as told is admitted and who
\* waits less is not (rate_limiter.py:35, rate_limit_policy.py:1).
THEOREM BudgetsAreHeld ==
  ASSUME WindowsAreKept
  PROVE  RulesSpec => []BudgetsHold
<1>1. RulesInv => BudgetsHold
  BY LimitsHold DEF RulesInv
<1> QED BY <1>1, RulesAreApplied, PTL
=============================================================================
