------------------------ MODULE DeletionEngineProofs ------------------------
(***************************************************************************)
(* Theorems about DeletionEngine, for every number of operations, workers, *)
(* requests, attempts, batches and faults.                                 *)
(*                                                                         *)
(* The argument: a heartbeat ages only when nobody runs the operation, so  *)
(* what recovery takes up has no worker; a claim takes only what is        *)
(* pending, so it finds no other worker; and a running worker's copy of    *)
(* the cursor is the row's, because no one else writes it.                 *)
(***************************************************************************)
EXTENDS DeletionEngine, FiniteSetTheorems, TLAPS

-----------------------------------------------------------------------------
(* The inductive invariant.                                                *)

\* What a row says of itself.  An operation that may still start has an
\* attempt left; past the bulk phases no source item is left; and only a
\* deletion of the account goes through its phases.
RowSound(r) ==
  /\ r.state # "none" => r.scope \in Scopes
  /\ r.state # "failed"
  /\ r.attempts <= MaxAttempts
  /\ r.state \in {"previewed", "pending"} => r.attempts < MaxAttempts
  /\ r.phase \in {"minimise", "finalise", "done"} => r.left = 0
  /\ r.phase \in {"credentials", "product", "minimise", "finalise"} => r.scope = "account"
  /\ r.state = "succeeded" => ~r.revokeFailed

RowsAreSound == \A o \in Ops : RowSound(row[o])

\* A running worker holds the cursor of its row, which is not up for recovery.
RunsAreCurrent ==
  \A w \in Workers :
    /\ worker[w].step # "idle" => worker[w].op \in Ops
    /\ worker[w].step = "run" =>
         /\ row[worker[w].op].state \in {"running", "cancelled"}
         /\ ~row[worker[w].op].stale
         /\ row[worker[w].op].phase = worker[w].phase
         /\ row[worker[w].op].revokeFailed = worker[w].revokeFailed

RunsAreApart ==
  \A v, w \in Workers :
    worker[v].step = "run" /\ worker[w].step = "run" /\ worker[v].op = worker[w].op
      => v = w

\* What the tick has decided about stays stale until it commits.
RecoveryIsCurrent ==
  /\ tick.step = "requeue" => \A o \in tick.todo : Stale(row[o])
  /\ \A o \in tick.requeued \cup tick.exhausted : Stale(row[o])
  /\ \A o \in tick.requeued : row[o].attempts < MaxAttempts

\* A fingerprint seen with a version is that version's while the row is
\* previewed: a refresh moves both.
Seen(o, version, fingerprint) ==
  row[o].state = "previewed" =>
    /\ version <= row[o].version
    /\ version = row[o].version => fingerprint = row[o].plan

Made(o) == o \in Ops /\ row[o].state # "none"

\* A cancellation under way has read its row before it could go stale.
RequestsAreCurrent ==
  \A h \in Handlers :
    /\ handler[h].step = "preview" => handler[h].scope \in Scopes
    /\ handler[h].step \in {"confirm", "refresh", "cancel", "cancelling"} =>
         Made(handler[h].op)
    /\ handler[h].step = "confirm" =>
         Seen(handler[h].op, handler[h].version, handler[h].plan)
    /\ handler[h].step = "cancelling" => ~Stale(row[handler[h].op])

ScreenIsCurrent ==
  screen.op # None =>
    Made(screen.op) /\ Seen(screen.op, screen.version, screen.plan)

EngineInv ==
  /\ DeletionTypeOK
  /\ RowsAreSound
  /\ RunsAreCurrent
  /\ RunsAreApart
  /\ RecoveryIsCurrent
  /\ RequestsAreCurrent
  /\ ScreenIsCurrent

LEMMA InitEngineInv == Init => EngineInv
<1> SUFFICES ASSUME Init PROVE EngineInv
  OBVIOUS
<1> USE Bounds, NoneIsOutside DEF Init, NoRow, IdleWorker, IdleHandler, NoTick, BlankScreen
<1>1. DeletionTypeOK
  BY DEF DeletionTypeOK, Rows, ActiveStates, TerminalStates, Phases, AccountStates
<1>2. RowsAreSound
  BY DEF RowsAreSound, RowSound
<1>3. RunsAreCurrent /\ RunsAreApart
  BY DEF RunsAreCurrent, RunsAreApart
<1>4. RecoveryIsCurrent /\ RequestsAreCurrent /\ ScreenIsCurrent
  BY DEF RecoveryIsCurrent, RequestsAreCurrent, ScreenIsCurrent
<1> QED BY <1>1, <1>2, <1>3, <1>4 DEF EngineInv

-----------------------------------------------------------------------------
(* How the variables are typed, and what one assignment to each does.      *)

WorkerStates  == [step : {"idle", "claim", "run"}, op : Ops \cup {None},
                  phase : Phases, revokeFailed : BOOLEAN]
HandlerStates ==
  [step : {"idle", "preview", "confirm", "refresh", "cancel", "cancelling"},
   op : Ops \cup {None}, scope : Scopes \cup {None}, version : Nat,
   counts : Plans \cup {None}, plan : Plans \cup {None}, user : AccountStates]
TickStates == [step : {"off", "requeue", "drain"}, todo : SUBSET Ops,
               requeued : SUBSET Ops, exhausted : SUBSET Ops, enqueued : SUBSET Ops]

LEMMA RowUpdate ==
  ASSUME DeletionTypeOK, NEW o \in Ops, NEW r \in Rows, row' = [row EXCEPT ![o] = r]
  PROVE  /\ row' \in [Ops -> Rows]
         /\ row'[o] = r
         /\ \A other \in Ops : other # o => row'[other] = row[other]
BY DEF DeletionTypeOK

LEMMA ShownType ==
  ASSUME NEW o \in Ops, NEW r \in Rows
  PROVE  /\ Shown(o, r) \in [op : Ops \cup {None}, version : Nat, counts : Plans \cup {None},
                             plan : Plans \cup {None}, lapsed : BOOLEAN]
         /\ [Shown(o, r) EXCEPT !.lapsed = FALSE] \in
              [op : Ops \cup {None}, version : Nat, counts : Plans \cup {None},
               plan : Plans \cup {None}, lapsed : BOOLEAN]
BY DEF Shown, Rows

LEMMA HandlerUpdate ==
  ASSUME DeletionTypeOK, NEW h \in Handlers, NEW x \in HandlerStates,
         handler' = [handler EXCEPT ![h] = x]
  PROVE  /\ handler' \in [Handlers -> HandlerStates]
         /\ handler'[h] = x
         /\ \A other \in Handlers : other # h => handler'[other] = handler[other]
BY DEF DeletionTypeOK, HandlerStates

LEMMA IdleHandlerType == IdleHandler \in HandlerStates
BY DEF IdleHandler, HandlerStates, AccountStates

LEMMA NewRowIsSound ==
  ASSUME NEW s \in Scopes, NEW state \in {"previewed", "pending"},
         NEW counts \in Plans \cup {None}, NEW fingerprint \in Plans \cup {None}, NEW left \in Nat
  PROVE  LET new == NewRow(s, state, counts, fingerprint, left)
         IN  new \in Rows /\ RowSound(new) /\ new.state = state /\ ~Stale(new)
<1> DEFINE new == NewRow(s, state, counts, fingerprint, left)
<1>1. /\ FirstPhase(s) \in {"credentials", "derived"}
      /\ FirstPhase(s) = "credentials" => s = "account"
  BY DEF FirstPhase
<1>2. new \in Rows
  <2>1. NoRow \in Rows
    BY DEF NoRow, Rows, Phases
  <2>2. FirstPhase(s) \in Phases /\ state \in ActiveStates /\ 1 \in Nat
    BY <1>1 DEF Phases, ActiveStates
  <2> QED BY <2>1, <2>2 DEF NewRow, Rows
<1>3. /\ new.state = state /\ new.scope = s /\ new.attempts = 0 /\ new.stale = FALSE
      /\ new.phase = FirstPhase(s)
  BY DEF NewRow, NoRow
<1> HIDE DEF new
<1>4. RowSound(new)
  BY <1>1, <1>3, Bounds DEF RowSound
<1> QED BY <1>2, <1>3, <1>4 DEF Stale, new

\* A change of one row by anyone who respects what others hold of it: the
\* runs, the recovery, the cancellations under way and what has been seen.
Respects(o, r) ==
  /\ RowSound(r) /\ r.state # "none"
  /\ Stale(row[o]) => Stale(r) /\ r.attempts = row[o].attempts
  /\ r.state = "previewed" /\ row[o].state # "none" =>
       /\ row[o].state = "previewed"
       /\ \/ r.version > row[o].version
          \/ r.version = row[o].version /\ r.plan = row[o].plan
  /\ \A h \in Handlers :
       handler[h].step = "cancelling" /\ handler[h].op = o => ~Stale(r)

RespectsRuns(o, r) ==
  \A w \in Workers : worker[w].step = "run" /\ worker[w].op = o =>
    /\ r.state \in {"running", "cancelled"} /\ ~r.stale
    /\ r.phase = row[o].phase /\ r.revokeFailed = row[o].revokeFailed

LEMMA OneRowChanges ==
  ASSUME EngineInv, NEW o \in Ops, NEW r \in Rows, row' = [row EXCEPT ![o] = r],
         Respects(o, r)
  PROVE  /\ row' \in [Ops -> Rows]
         /\ RowsAreSound'
         /\ \A x : Made(x) => Made(x)'
         /\ \A x : \A v \in Nat : \A f : Made(x) /\ Seen(x, v, f) => Seen(x, v, f)'
         /\ UNCHANGED tick => RecoveryIsCurrent'
         /\ UNCHANGED worker /\ RespectsRuns(o, r) => RunsAreCurrent' /\ RunsAreApart'
         /\ \A h \in Handlers : handler[h].step = "cancelling" => ~Stale(row'[handler[h].op])
<1>1. /\ row' \in [Ops -> Rows] /\ row'[o] = r
      /\ \A other \in Ops : other # o => row'[other] = row[other]
  BY RowUpdate DEF EngineInv
<1>2. RowsAreSound'
  BY <1>1 DEF EngineInv, RowsAreSound, Respects
<1>3. \A x : Made(x) => Made(x)'
  BY <1>1 DEF Made, Respects
<1>4. ASSUME NEW x, NEW v \in Nat, NEW f, Made(x), Seen(x, v, f) PROVE Seen(x, v, f)'
  <2>1. CASE x = o
    <3>1. r.version \in Nat /\ row[o].version \in Nat
      BY DEF EngineInv, DeletionTypeOK, Rows
    <3> QED BY <1>1, <1>4, <2>1, <3>1 DEF Made, Seen, Respects
  <2>2. CASE x # o
    BY <1>1, <1>4, <2>2 DEF Made, Seen
  <2> QED BY <2>1, <2>2
<1>5. UNCHANGED tick => RecoveryIsCurrent'
  BY <1>1 DEF EngineInv, DeletionTypeOK, RecoveryIsCurrent, Respects
<1>6. UNCHANGED worker /\ RespectsRuns(o, r) => RunsAreCurrent' /\ RunsAreApart'
  BY <1>1 DEF EngineInv, RunsAreCurrent, RunsAreApart, RespectsRuns
<1>7. ASSUME NEW h \in Handlers, handler[h].step = "cancelling"
      PROVE  ~Stale(row'[handler[h].op])
  BY <1>1, <1>7 DEF EngineInv, RequestsAreCurrent, Respects, Made, Stale
<1> QED BY <1>1, <1>2, <1>3, <1>4, <1>5, <1>6, <1>7

\* A request that commits a row and answers with it.
LEMMA RequestCommits ==
  ASSUME EngineInv, NEW h \in Handlers, NEW o \in Ops, NEW r \in Rows,
         row' = [row EXCEPT ![o] = r], Respects(o, r), RespectsRuns(o, r),
         handler' = [handler EXCEPT ![h] = IdleHandler],
         screen' = Shown(o, r), account' \in AccountStates,
         UNCHANGED <<plan, tokens, jobs, worker, tick, faults, destroyed>>
  PROVE  EngineInv'
<1>1. /\ row' \in [Ops -> Rows] /\ row'[o] = r
      /\ RowsAreSound' /\ RecoveryIsCurrent' /\ RunsAreCurrent' /\ RunsAreApart'
      /\ \A x : Made(x) => Made(x)'
      /\ \A x : \A v \in Nat : \A f : Made(x) /\ Seen(x, v, f) => Seen(x, v, f)'
      /\ \A g \in Handlers : handler[g].step = "cancelling" => ~Stale(row'[handler[g].op])
  <2>1. DeletionTypeOK
    BY DEF EngineInv
  <2> QED BY <2>1, OneRowChanges, RowUpdate
<1>2. /\ handler' \in [Handlers -> HandlerStates] /\ handler'[h] = IdleHandler
      /\ \A other \in Handlers : other # h => handler'[other] = handler[other]
      /\ handler \in [Handlers -> HandlerStates]
  BY HandlerUpdate, IdleHandlerType DEF EngineInv, DeletionTypeOK, HandlerStates
<1>3. DeletionTypeOK'
  BY <1>1, <1>2, ShownType DEF EngineInv, DeletionTypeOK, HandlerStates
<1>4. RequestsAreCurrent'
  <2> SUFFICES ASSUME NEW g \in Handlers, g # h
               PROVE  /\ handler[g].step = "preview" => handler[g].scope \in Scopes
                      /\ handler[g].step \in {"confirm", "refresh", "cancel", "cancelling"}
                           => Made(handler[g].op)'
                      /\ handler[g].step = "confirm" =>
                           Seen(handler[g].op, handler[g].version, handler[g].plan)'
                      /\ handler[g].step = "cancelling" => ~Stale(row'[handler[g].op])
    BY <1>2 DEF RequestsAreCurrent, IdleHandler, Seen, Made
  <2>1. handler[g].version \in Nat
    BY <1>2 DEF HandlerStates
  <2> QED BY <1>1, <2>1 DEF EngineInv, RequestsAreCurrent
<1>5. ScreenIsCurrent'
  <2>1. row'[o].state # "none" /\ r.version \in Nat
    BY <1>1 DEF Respects, Rows
  <2> QED BY <1>1, <2>1 DEF ScreenIsCurrent, Shown, Made, Seen
<1> QED BY <1>1, <1>3, <1>4, <1>5 DEF EngineInv

-----------------------------------------------------------------------------
(* Every step keeps the invariant.  First the requests.                    *)

\* A step that leaves the rows, the runs and the tick alone, and ends no
\* request's hold on what it has read.
LEMMA RequestMoves ==
  ASSUME EngineInv, NEW h \in Handlers, NEW x \in HandlerStates,
         handler' = [handler EXCEPT ![h] = x],
         x.step = "preview" => x.scope \in Scopes,
         x.step \in {"confirm", "refresh", "cancel", "cancelling"} => Made(x.op),
         x.step = "confirm" => Seen(x.op, x.version, x.plan),
         x.step = "cancelling" => ~Stale(row[x.op]),
         UNCHANGED <<row, plan, account, tokens, jobs, worker, tick, screen, faults, destroyed>>
  PROVE  EngineInv'
<1>1. /\ handler' \in [Handlers -> HandlerStates] /\ handler'[h] = x
      /\ \A other \in Handlers : other # h => handler'[other] = handler[other]
  BY HandlerUpdate DEF EngineInv
<1>2. DeletionTypeOK'
  BY <1>1 DEF EngineInv, DeletionTypeOK, HandlerStates
<1>3. RowsAreSound' /\ RunsAreCurrent' /\ RunsAreApart' /\ RecoveryIsCurrent' /\ ScreenIsCurrent'
  BY DEF EngineInv, RowsAreSound, RunsAreCurrent, RunsAreApart, RecoveryIsCurrent,
         ScreenIsCurrent, Made, Seen
<1>4. RequestsAreCurrent'
  BY <1>1 DEF EngineInv, RequestsAreCurrent, Made, Seen
<1> QED BY <1>2, <1>3, <1>4 DEF EngineInv

LEMMA RequestArrivesInv ==
  ASSUME EngineInv, NEW h \in Handlers, RequestArrives(h)
  PROVE  EngineInv'
<1>1. ASSUME NEW s \in Scopes, PreviewCounted(h, s) PROVE EngineInv'
  <2> DEFINE x == [IdleHandler EXCEPT !.step = "preview", !.scope = s, !.counts = plan[s]]
  <2>1. x \in HandlerStates /\ x.step = "preview" /\ x.scope = s
    BY DEF EngineInv, DeletionTypeOK, IdleHandler, HandlerStates, AccountStates
  <2> HIDE DEF x
  <2> QED BY <1>1, <2>1, RequestMoves DEF PreviewCounted, x
<1>2. ASSUME NEW step \in {"confirm", "cancel"}, RequestBegin(h, step) PROVE EngineInv'
  <2> DEFINE x == [step |-> step, op |-> screen.op, scope |-> None,
                   version |-> screen.version, counts |-> screen.counts,
                   plan |-> screen.plan, user |-> account]
  <2>1. x \in HandlerStates
    BY DEF EngineInv, DeletionTypeOK, HandlerStates
  <2>2. Made(x.op) /\ Seen(x.op, x.version, x.plan) /\ x.step = step
    BY <1>2 DEF RequestBegin, EngineInv, ScreenIsCurrent
  <2>3. /\ handler' = [handler EXCEPT ![h] = x]
        /\ UNCHANGED <<row, plan, account, tokens, jobs, worker, tick, screen, faults, destroyed>>
    BY <1>2 DEF RequestBegin
  <2> HIDE DEF x
  <2> QED BY <2>1, <2>2, <2>3, RequestMoves
<1> QED BY <1>1, <1>2 DEF RequestArrives

\* What the invariant says of the row a request is about.
LEMMA RequestedRow ==
  ASSUME EngineInv, NEW h \in Handlers,
         handler[h].step \in {"confirm", "refresh", "cancel", "cancelling"}
  PROVE  /\ handler[h].op \in Ops /\ row[handler[h].op].state # "none"
         /\ row[handler[h].op] \in Rows /\ RowSound(row[handler[h].op])
         /\ row[handler[h].op].scope \in Scopes
         /\ handler[h] \in HandlerStates
         /\ plan[row[handler[h].op].scope] \in Plans
BY DEF EngineInv, DeletionTypeOK, HandlerStates, RequestsAreCurrent, RowsAreSound, RowSound, Made

LEMMA RequestProceedsInv ==
  ASSUME EngineInv, NEW h \in Handlers, RequestProceeds(h)
  PROVE  EngineInv'
<1>1. ASSUME NEW o \in Ops, NEW left \in 0..Batches, PreviewCreated(h, o, left)
      PROVE  EngineInv'
  <2> DEFINE new == NewRow(handler[h].scope, "previewed", handler[h].counts,
                           plan[handler[h].scope], left)
  <2>1. /\ new \in Rows /\ RowSound(new) /\ new.state = "previewed" /\ ~Stale(new)
    <3>1. /\ handler[h].scope \in Scopes /\ handler[h].counts \in Plans \cup {None}
          /\ plan[handler[h].scope] \in Plans /\ left \in Nat
      BY <1>1, Bounds DEF PreviewCreated, EngineInv, RequestsAreCurrent, DeletionTypeOK
    <3> QED BY <3>1, NewRowIsSound
  <2>2. /\ row[o].state = "none" /\ row' = [row EXCEPT ![o] = new]
        /\ handler' = [handler EXCEPT ![h] = IdleHandler]
        /\ UNCHANGED <<plan, account, tokens, jobs, worker, tick, faults, destroyed>>
        /\ screen' = Shown(o, row'[o])
    BY <1>1 DEF PreviewCreated
  <2> HIDE DEF new
  <2>3. Respects(o, new) /\ RespectsRuns(o, new)
    BY <2>1, <2>2 DEF Respects, RespectsRuns, Stale, EngineInv, RunsAreCurrent
  <2>4. screen' = Shown(o, new) /\ account' \in AccountStates
    BY <2>1, <2>2 DEF EngineInv, DeletionTypeOK
  <2> QED BY <2>1, <2>2, <2>3, <2>4, RequestCommits
<1>2. ASSUME ConfirmAccepted(h) PROVE EngineInv'
  <2> DEFINE o == handler[h].op
             new == [row[o] EXCEPT !.state = "pending", !.version = row[o].version + 1]
  <2>1. /\ o \in Ops /\ row[o].state = "previewed" /\ row[o] \in Rows /\ RowSound(row[o])
    BY <1>2, RequestedRow DEF ConfirmAccepted, Confirmable
  <2>2. /\ new \in Rows /\ RowSound(new) /\ new.state = "pending" /\ ~Stale(new)
    <3>1. row[o].version + 1 \in Nat
      BY <2>1 DEF Rows
    <3>2. /\ new \in Rows /\ new.state = "pending" /\ new.scope = row[o].scope
          /\ new.attempts = row[o].attempts /\ new.phase = row[o].phase
          /\ new.left = row[o].left
      BY <2>1, <3>1 DEF Rows, ActiveStates
    <3> QED BY <2>1, <3>2 DEF RowSound, Stale
  <2>3. /\ row' = [row EXCEPT ![o] = new]
        /\ screen' = Shown(o, row'[o])
        /\ account' \in {"deletion_pending", account}
        /\ handler' = [handler EXCEPT ![h] = IdleHandler]
        /\ UNCHANGED <<plan, tokens, jobs, worker, tick, faults, destroyed>>
    BY <1>2, <2>1 DEF ConfirmAccepted, Assigned
  <2> HIDE DEF new, o
  <2>4. Respects(o, new) /\ RespectsRuns(o, new)
    BY <2>1, <2>2 DEF Respects, RespectsRuns, Stale, EngineInv, RunsAreCurrent
  <2>5. screen' = Shown(o, new) /\ account' \in AccountStates
    BY <2>1, <2>3 DEF EngineInv, DeletionTypeOK, AccountStates
  <2> QED BY <2>1, <2>2, <2>3, <2>4, <2>5, RequestCommits
<1>3. ASSUME ConfirmFindsChange(h) PROVE EngineInv'
  <2> DEFINE o == handler[h].op
             x == [handler[h] EXCEPT !.step = "refresh", !.counts = plan[row[o].scope]]
  <2>1. /\ Made(o) /\ handler[h] \in HandlerStates /\ plan[row[o].scope] \in Plans
    BY <1>3, RequestedRow DEF ConfirmFindsChange, Made
  <2>2. x \in HandlerStates /\ x.step = "refresh" /\ x.op = o
    BY <2>1 DEF HandlerStates
  <2>3. /\ handler' = [handler EXCEPT ![h] = x]
        /\ UNCHANGED <<row, plan, account, tokens, jobs, worker, tick, screen, faults, destroyed>>
    BY <1>3 DEF ConfirmFindsChange
  <2> HIDE DEF x
  <2> QED BY <2>1, <2>2, <2>3, RequestMoves
<1>4. ASSUME ConfirmRefreshes(h) PROVE EngineInv'
  <2> DEFINE o == handler[h].op
             new == [row[o] EXCEPT !.counts = handler[h].counts, !.plan = plan[row[o].scope],
                                   !.expired = FALSE, !.version = row[o].version + 1]
  <2>1. /\ o \in Ops /\ row[o].state # "none" /\ row[o] \in Rows /\ RowSound(row[o])
        /\ handler[h] \in HandlerStates /\ plan[row[o].scope] \in Plans
    BY <1>4, RequestedRow DEF ConfirmRefreshes
  <2>2. /\ new \in Rows /\ RowSound(new) /\ new.version > row[o].version
        /\ new.state = row[o].state /\ new.stale = row[o].stale /\ new.phase = row[o].phase
        /\ new.revokeFailed = row[o].revokeFailed /\ new.attempts = row[o].attempts
    <3>1. /\ row[o].version + 1 \in Nat /\ row[o].version + 1 > row[o].version
          /\ handler[h].counts \in Plans \cup {None}
      BY <2>1 DEF Rows, HandlerStates
    <3>2. /\ new \in Rows /\ new.version = row[o].version + 1
          /\ new.state = row[o].state /\ new.stale = row[o].stale /\ new.phase = row[o].phase
          /\ new.revokeFailed = row[o].revokeFailed /\ new.attempts = row[o].attempts
          /\ new.scope = row[o].scope /\ new.left = row[o].left
      BY <2>1, <3>1 DEF Rows
    <3> HIDE DEF new
    <3> QED BY <2>1, <3>1, <3>2 DEF RowSound
  <2>3. /\ row' = [row EXCEPT ![o] = new]
        /\ screen' = Shown(o, row'[o])
        /\ handler' = [handler EXCEPT ![h] = IdleHandler]
        /\ UNCHANGED <<plan, account, tokens, jobs, worker, tick, faults, destroyed>>
    BY <1>4, <2>1 DEF ConfirmRefreshes
  <2> HIDE DEF new, o
  <2>4. Respects(o, new) /\ RespectsRuns(o, new)
    BY <2>1, <2>2 DEF Respects, RespectsRuns, Stale, EngineInv, RunsAreCurrent,
                      RequestsAreCurrent
  <2>5. screen' = Shown(o, new) /\ account' \in AccountStates
    BY <2>1, <2>3 DEF EngineInv, DeletionTypeOK
  <2> QED BY <2>1, <2>2, <2>3, <2>4, <2>5, RequestCommits
<1>5. ASSUME ConfirmRefused(h) \/ RequestFails(h) PROVE EngineInv'
  BY <1>5, IdleHandlerType, RequestMoves DEF ConfirmRefused, RequestFails, IdleHandler
<1>6. ASSUME CancelRead(h) PROVE EngineInv'
  <2> DEFINE o == handler[h].op
             x == IF row[o].state \in CancellableStates
                    THEN [handler[h] EXCEPT !.step = "cancelling", !.version = row[o].version]
                    ELSE IdleHandler
  <2>1. /\ Made(o) /\ handler[h] \in HandlerStates /\ row[o] \in Rows
    BY <1>6, RequestedRow DEF CancelRead, Made
  <2>2. /\ x \in HandlerStates /\ x.step \in {"idle", "cancelling"}
        /\ x.step = "cancelling" => x.op = o /\ ~Stale(row[o])
    BY <2>1, IdleHandlerType DEF HandlerStates, IdleHandler, CancellableStates, Stale, Rows
  <2>3. /\ handler' = [handler EXCEPT ![h] = x]
        /\ UNCHANGED <<row, plan, account, tokens, jobs, worker, tick, screen, faults, destroyed>>
    BY <1>6 DEF CancelRead
  <2> HIDE DEF x
  <2> QED BY <2>1, <2>2, <2>3, RequestMoves
<1>7. ASSUME CancelCommit(h) PROVE EngineInv'
  <2> DEFINE o == handler[h].op
             new == [row[o] EXCEPT !.state = "cancelled", !.version = handler[h].version + 1]
  <2>1. /\ o \in Ops /\ row[o].state # "none" /\ row[o] \in Rows /\ RowSound(row[o])
        /\ handler[h] \in HandlerStates /\ ~Stale(row[o])
    BY <1>7, RequestedRow DEF CancelCommit, EngineInv, RequestsAreCurrent
  <2>2. /\ new \in Rows /\ RowSound(new)
        /\ new.state = "cancelled" /\ new.stale = row[o].stale /\ new.phase = row[o].phase
        /\ new.revokeFailed = row[o].revokeFailed
    <3>1. handler[h].version + 1 \in Nat
      BY <2>1 DEF HandlerStates
    <3>2. /\ new \in Rows
          /\ new.state = "cancelled" /\ new.stale = row[o].stale /\ new.phase = row[o].phase
          /\ new.revokeFailed = row[o].revokeFailed /\ new.attempts = row[o].attempts
          /\ new.scope = row[o].scope /\ new.left = row[o].left
      BY <2>1, <3>1 DEF Rows, TerminalStates
    <3> HIDE DEF new
    <3> QED BY <2>1, <3>2 DEF RowSound
  <2>3. /\ row' = [row EXCEPT ![o] = new]
        /\ screen' = Shown(o, row'[o])
        /\ account' \in {"active", account}
        /\ handler' = [handler EXCEPT ![h] = IdleHandler]
        /\ UNCHANGED <<plan, tokens, jobs, worker, tick, faults, destroyed>>
    BY <1>7, <2>1 DEF CancelCommit, Assigned
  <2> HIDE DEF new, o
  <2>4. Respects(o, new) /\ RespectsRuns(o, new)
    BY <2>1, <2>2 DEF Respects, RespectsRuns, Stale, EngineInv, RunsAreCurrent
  <2>5. screen' = Shown(o, new) /\ account' \in AccountStates
    BY <2>1, <2>3 DEF EngineInv, DeletionTypeOK, AccountStates
  <2> QED BY <2>1, <2>2, <2>3, <2>4, <2>5, RequestCommits
<1> QED BY <1>1, <1>2, <1>3, <1>4, <1>5, <1>6, <1>7 DEF RequestProceeds

-----------------------------------------------------------------------------
(* The user and the surroundings.                                          *)

\* A step that changes neither rows nor requests, runs nor the tick, but may
\* show a row.
LEMMA ScreenMoves ==
  ASSUME EngineInv, UNCHANGED <<row, worker, tick, handler, jobs, account, faults, destroyed>>,
         plan' \in [Scopes -> Plans], tokens' \in BOOLEAN,
         \/ UNCHANGED screen
         \/ \E o \in Ops : /\ row[o].state # "none"
                           /\ \/ screen' = Shown(o, row[o])
                              \/ screen' = [Shown(o, row[o]) EXCEPT !.lapsed = FALSE]
  PROVE  EngineInv'
<1>1. ASSUME NEW o \in Ops, row[o].state # "none",
             \/ screen' = Shown(o, row[o])
             \/ screen' = [Shown(o, row[o]) EXCEPT !.lapsed = FALSE]
      PROVE  /\ screen' \in [op : Ops \cup {None}, version : Nat, counts : Plans \cup {None},
                             plan : Plans \cup {None}, lapsed : BOOLEAN]
             /\ screen'.op = o /\ screen'.version = row[o].version
             /\ screen'.plan = row[o].plan /\ row[o].version \in Nat
  <2>1. row[o] \in Rows /\ row[o].version \in Nat
    BY DEF EngineInv, DeletionTypeOK, Rows
  <2>2. /\ screen'.op = o /\ screen'.version = row[o].version
        /\ screen'.plan = row[o].plan
    BY <1>1 DEF Shown
  <2>3. screen' \in [op : Ops \cup {None}, version : Nat, counts : Plans \cup {None},
                     plan : Plans \cup {None}, lapsed : BOOLEAN]
    <3>1. /\ Shown(o, row[o]) \in [op : Ops \cup {None}, version : Nat,
                counts : Plans \cup {None}, plan : Plans \cup {None}, lapsed : BOOLEAN]
          /\ [Shown(o, row[o]) EXCEPT !.lapsed = FALSE] \in [op : Ops \cup {None}, version : Nat,
                counts : Plans \cup {None}, plan : Plans \cup {None}, lapsed : BOOLEAN]
      BY <2>1, ShownType
    <3> QED BY <1>1, <3>1
  <2> QED BY <2>1, <2>2, <2>3
<1>2. DeletionTypeOK'
  BY <1>1 DEF EngineInv, DeletionTypeOK
<1>3. RowsAreSound' /\ RunsAreCurrent' /\ RunsAreApart' /\ RecoveryIsCurrent' /\ RequestsAreCurrent'
  BY DEF EngineInv, RowsAreSound, RunsAreCurrent, RunsAreApart, RecoveryIsCurrent,
         RequestsAreCurrent, Made, Seen
<1>4. ScreenIsCurrent'
  BY <1>1 DEF EngineInv, ScreenIsCurrent, Made, Seen
<1> QED BY <1>2, <1>3, <1>4 DEF EngineInv

\* What is held of the rows survives a step that respects it.
LEMMA RequestsStay ==
  ASSUME EngineInv, UNCHANGED <<handler, screen>>,
         \A x : Made(x) => Made(x)',
         \A x : \A v \in Nat : \A f : Made(x) /\ Seen(x, v, f) => Seen(x, v, f)',
         \A g \in Handlers : handler[g].step = "cancelling" => ~Stale(row'[handler[g].op])
  PROVE  RequestsAreCurrent' /\ ScreenIsCurrent'
<1>1. screen.version \in Nat /\ \A g \in Handlers : handler[g].version \in Nat
  BY DEF EngineInv, DeletionTypeOK
<1>2. ScreenIsCurrent'
  <2> SUFFICES ASSUME screen.op # None
               PROVE  Made(screen.op)' /\ Seen(screen.op, screen.version, screen.plan)'
    BY DEF ScreenIsCurrent
  <2>1. Made(screen.op) /\ Seen(screen.op, screen.version, screen.plan)
    BY DEF EngineInv, ScreenIsCurrent
  <2> QED BY <1>1, <2>1
<1>3. RequestsAreCurrent'
  <2> SUFFICES ASSUME NEW g \in Handlers
               PROVE  /\ handler[g].step = "preview" => handler[g].scope \in Scopes
                      /\ handler[g].step \in {"confirm", "refresh", "cancel", "cancelling"}
                           => Made(handler[g].op)'
                      /\ handler[g].step = "confirm" =>
                           Seen(handler[g].op, handler[g].version, handler[g].plan)'
                      /\ handler[g].step = "cancelling" => ~Stale(row'[handler[g].op])
    BY DEF RequestsAreCurrent
  <2> QED BY <1>1 DEF EngineInv, RequestsAreCurrent
<1> QED BY <1>2, <1>3

\* One row changes, and nothing else that the invariant relates to it.
LEMMA RowMoves ==
  ASSUME EngineInv, NEW o \in Ops, NEW r \in Rows, row' = [row EXCEPT ![o] = r],
         Respects(o, r), RespectsRuns(o, r),
         UNCHANGED <<plan, account, tokens, jobs, worker, tick, handler, screen, faults,
                     destroyed>>
  PROVE  EngineInv'
<1>1. /\ row' \in [Ops -> Rows]
      /\ RowsAreSound' /\ RecoveryIsCurrent' /\ RunsAreCurrent' /\ RunsAreApart'
      /\ \A x : Made(x) => Made(x)'
      /\ \A x : \A v \in Nat : \A f : Made(x) /\ Seen(x, v, f) => Seen(x, v, f)'
      /\ \A g \in Handlers : handler[g].step = "cancelling" => ~Stale(row'[handler[g].op])
  BY OneRowChanges
<1>2. DeletionTypeOK'
  BY <1>1 DEF EngineInv, DeletionTypeOK
<1>3. RequestsAreCurrent' /\ ScreenIsCurrent'
  BY <1>1, RequestsStay
<1> QED BY <1>1, <1>2, <1>3 DEF EngineInv

LEMMA UserInv ==
  ASSUME EngineInv, UserNext
  PROVE  EngineInv'
<1>1. plan \in [Scopes -> Plans] /\ tokens \in BOOLEAN
  BY DEF EngineInv, DeletionTypeOK
<1>2. ASSUME NEW s \in Scopes, PreviewReused(s) PROVE EngineInv'
  BY <1>1, <1>2, ScreenMoves DEF PreviewReused, ActiveOps, ActiveStates
<1>3. ASSUME NEW o \in Ops, ViewStatus(o) PROVE EngineInv'
  BY <1>1, <1>3, ScreenMoves DEF ViewStatus
<1>4. ASSUME NEW s \in Scopes, NEW p \in Plans, PlanChanges(s, p) PROVE EngineInv'
  BY <1>1, <1>4, ScreenMoves DEF PlanChanges
<1>5. ASSUME NEW connected \in BOOLEAN, Connects(connected) PROVE EngineInv'
  BY <1>1, <1>5, ScreenMoves DEF Connects
<1>6. ASSUME NEW o \in Ops, PreviewExpires(o) PROVE EngineInv'
  <2> DEFINE new == [row[o] EXCEPT !.expired = TRUE]
  <2>1. row[o] \in Rows /\ RowSound(row[o]) /\ row[o].state = "previewed"
    BY <1>6 DEF PreviewExpires, EngineInv, DeletionTypeOK, RowsAreSound
  <2>2. /\ new \in Rows /\ new.state = "previewed" /\ new.scope = row[o].scope
        /\ new.attempts = row[o].attempts /\ new.phase = row[o].phase /\ new.left = row[o].left
        /\ new.version = row[o].version /\ new.plan = row[o].plan
    BY <2>1 DEF Rows
  <2>3. /\ row' = [row EXCEPT ![o] = new]
        /\ UNCHANGED <<plan, account, tokens, jobs, worker, tick, handler, screen, faults,
                       destroyed>>
    BY <1>6 DEF PreviewExpires
  <2> HIDE DEF new
  <2>4. Respects(o, new) /\ RespectsRuns(o, new)
    BY <2>1, <2>2 DEF Respects, RespectsRuns, RowSound, Stale, EngineInv, RunsAreCurrent
  <2> QED BY <2>2, <2>3, <2>4, RowMoves
<1> QED BY <1>2, <1>3, <1>4, <1>5, <1>6 DEF UserNext

LEMMA HeartbeatInv ==
  ASSUME TimeoutCoversJob, EngineInv, NEW o \in Ops, HeartbeatAges(o)
  PROVE  EngineInv'
<1> DEFINE new == [row[o] EXCEPT !.stale = TRUE]
<1>1. row[o] \in Rows /\ RowSound(row[o]) /\ row[o].state = "running" /\ ~row[o].stale
  BY DEF HeartbeatAges, EngineInv, DeletionTypeOK, RowsAreSound
<1>2. /\ new \in Rows /\ new.state = "running" /\ new.scope = row[o].scope
      /\ new.attempts = row[o].attempts /\ new.phase = row[o].phase /\ new.left = row[o].left
  BY <1>1 DEF Rows
<1>3. /\ row' = [row EXCEPT ![o] = new]
      /\ UNCHANGED <<plan, account, tokens, jobs, worker, tick, handler, screen, faults, destroyed>>
  BY DEF HeartbeatAges
<1> HIDE DEF new
<1>4. Respects(o, new)
  BY <1>1, <1>2 DEF HeartbeatAges, Respects, RowSound, Stale
<1>5. RespectsRuns(o, new)
  BY DEF HeartbeatAges, RespectsRuns, RunningIt
<1> QED BY <1>2, <1>3, <1>4, <1>5, RowMoves

LEMMA RetentionInv ==
  ASSUME EngineInv, NEW o \in Ops, NEW left \in 0..Batches, RetentionScan(o, left)
  PROVE  EngineInv'
<1> DEFINE new == NewRow("retention", "pending", None, None, left)
<1>1. new \in Rows /\ RowSound(new) /\ new.state = "pending" /\ ~Stale(new)
  BY Bounds, NewRowIsSound DEF RetentionScan
<1>2. /\ row[o].state = "none" /\ row' = [row EXCEPT ![o] = new]
      /\ UNCHANGED <<plan, account, tokens, jobs, worker, tick, handler, screen, faults, destroyed>>
  BY DEF RetentionScan
<1> HIDE DEF new
<1>3. Respects(o, new) /\ RespectsRuns(o, new)
  BY <1>1, <1>2 DEF Respects, RespectsRuns, Stale, EngineInv, RunsAreCurrent
<1> QED BY <1>1, <1>2, <1>3, RowMoves

-----------------------------------------------------------------------------
(* The worker.                                                             *)

LEMMA WorkerUpdate ==
  ASSUME EngineInv, NEW w \in Workers, NEW x \in WorkerStates,
         worker' = [worker EXCEPT ![w] = x]
  PROVE  /\ worker' \in [Workers -> WorkerStates]
         /\ worker'[w] = x
         /\ \A other \in Workers : other # w => worker'[other] = worker[other]
BY DEF EngineInv, DeletionTypeOK, WorkerStates

\* A worker that takes a job or stops changes no row.
LEMMA WorkerMoves ==
  ASSUME EngineInv, NEW w \in Workers, NEW x \in WorkerStates,
         worker' = [worker EXCEPT ![w] = x],
         x.step # "run", x.step # "idle" => x.op \in Ops, jobs' \in [Ops -> Nat],
         UNCHANGED <<row, plan, account, tokens, tick, handler, screen, faults, destroyed>>
  PROVE  EngineInv'
<1>1. /\ worker' \in [Workers -> WorkerStates] /\ worker'[w] = x
      /\ \A other \in Workers : other # w => worker'[other] = worker[other]
  BY WorkerUpdate
<1>2. DeletionTypeOK'
  BY <1>1 DEF EngineInv, DeletionTypeOK, WorkerStates
<1>3. RunsAreCurrent' /\ RunsAreApart'
  BY <1>1 DEF EngineInv, RunsAreCurrent, RunsAreApart
<1>4. RowsAreSound' /\ RecoveryIsCurrent' /\ RequestsAreCurrent' /\ ScreenIsCurrent'
  BY DEF EngineInv, RowsAreSound, RecoveryIsCurrent, RequestsAreCurrent, ScreenIsCurrent,
         Made, Seen
<1> QED BY <1>2, <1>3, <1>4 DEF EngineInv

\* A worker that commits a row.
LEMMA WorkerCommits ==
  ASSUME EngineInv, NEW w \in Workers, NEW x \in WorkerStates, NEW o \in Ops, NEW r \in Rows,
         worker' = [worker EXCEPT ![w] = x], row' = [row EXCEPT ![o] = r], Respects(o, r),
         \A v \in Workers : v # w /\ worker[v].step = "run" => worker[v].op # o,
         x.step \in {"idle", "run"},
         x.step = "run" =>
           /\ x.op = o /\ r.state \in {"running", "cancelled"} /\ ~r.stale
           /\ r.phase = x.phase /\ r.revokeFailed = x.revokeFailed,
         account' \in AccountStates, tokens' \in BOOLEAN, destroyed' \in [Ops -> BOOLEAN],
         UNCHANGED <<plan, jobs, tick, handler, screen, faults>>
  PROVE  EngineInv'
<1>1. /\ row' \in [Ops -> Rows] /\ row'[o] = r
      /\ \A other \in Ops : other # o => row'[other] = row[other]
      /\ RowsAreSound' /\ RecoveryIsCurrent'
      /\ \A y : Made(y) => Made(y)'
      /\ \A y : \A v \in Nat : \A f : Made(y) /\ Seen(y, v, f) => Seen(y, v, f)'
      /\ \A g \in Handlers : handler[g].step = "cancelling" => ~Stale(row'[handler[g].op])
  <2>1. DeletionTypeOK
    BY DEF EngineInv
  <2> QED BY <2>1, OneRowChanges, RowUpdate
<1>2. /\ worker' \in [Workers -> WorkerStates] /\ worker'[w] = x
      /\ \A other \in Workers : other # w => worker'[other] = worker[other]
  BY WorkerUpdate
<1>3. DeletionTypeOK'
  BY <1>1, <1>2 DEF EngineInv, DeletionTypeOK, WorkerStates
<1>4. RunsAreCurrent' /\ RunsAreApart'
  BY <1>1, <1>2 DEF EngineInv, RunsAreCurrent, RunsAreApart
<1>5. RequestsAreCurrent' /\ ScreenIsCurrent'
  BY <1>1, RequestsStay
<1> QED BY <1>1, <1>3, <1>4, <1>5 DEF EngineInv

LEMMA WorkerStepInv ==
  ASSUME EngineInv, NEW w \in Workers, WorkerStep(w) \/ WorkerDies(w)
  PROVE  EngineInv'
<1>1. /\ worker[w] \in WorkerStates /\ jobs \in [Ops -> Nat]
      /\ account \in AccountStates /\ tokens \in BOOLEAN /\ destroyed \in [Ops -> BOOLEAN]
  BY DEF EngineInv, DeletionTypeOK, WorkerStates
<1>2. IdleWorker \in WorkerStates /\ IdleWorker.step = "idle"
  BY DEF IdleWorker, WorkerStates, Phases
<1>3. ASSUME NEW o \in Ops, TakeJob(w, o) PROVE EngineInv'
  <2> DEFINE x == [IdleWorker EXCEPT !.step = "claim", !.op = o]
  <2>1. x \in WorkerStates /\ x.step = "claim" /\ x.op = o
    BY <1>2 DEF WorkerStates
  <2>2. jobs' \in [Ops -> Nat]
    BY <1>1, <1>3 DEF TakeJob
  <2> QED BY <1>3, <2>1, <2>2, WorkerMoves DEF TakeJob
<1>4. ASSUME WorkerDies(w) PROVE EngineInv'
  BY <1>1, <1>2, <1>4, WorkerMoves DEF WorkerDies
<1>5. ASSUME Claim(w) PROVE EngineInv'
  <2> DEFINE o == worker[w].op
  <2>1. /\ o \in Ops /\ row[o] \in Rows /\ RowSound(row[o])
    BY <1>5 DEF Claim, EngineInv, DeletionTypeOK, RunsAreCurrent, RowsAreSound
  <2>2. CASE ~Claimable(row[o])
    BY <1>1, <1>2, <1>5, <2>2, WorkerMoves DEF Claim
  <2>3. CASE Claimable(row[o])
    <3> DEFINE new == [row[o] EXCEPT !.state = "running", !.stale = FALSE,
                                     !.attempts = row[o].attempts + 1]
               x == [step |-> "run", op |-> o, phase |-> row[o].phase,
                     revokeFailed |-> row[o].revokeFailed]
    <3>1. row[o].attempts + 1 \in Nat /\ row[o].attempts + 1 <= MaxAttempts
      BY <2>1, <2>3, Bounds DEF Rows, RowSound, Claimable
    <3>2. /\ new \in Rows /\ new.state = "running" /\ new.stale = FALSE
          /\ new.attempts = row[o].attempts + 1 /\ new.scope = row[o].scope
          /\ new.phase = row[o].phase /\ new.left = row[o].left
          /\ new.revokeFailed = row[o].revokeFailed
      BY <2>1, <3>1 DEF Rows, ActiveStates
    <3>3. x \in WorkerStates
      BY <2>1 DEF WorkerStates, Rows
    <3>4. /\ row' = [row EXCEPT ![o] = new] /\ worker' = [worker EXCEPT ![w] = x]
          /\ UNCHANGED <<plan, account, tokens, jobs, tick, handler, screen, faults, destroyed>>
      BY <1>5, <2>1, <2>3 DEF Claim, ResumePhase
    <3> HIDE DEF new
    <3>5. Respects(o, new)
      BY <2>1, <2>3, <3>1, <3>2 DEF Respects, RowSound, Stale, Claimable
    <3>6. \A v \in Workers : v # w /\ worker[v].step = "run" => worker[v].op # o
      BY <2>3 DEF Claimable, EngineInv, RunsAreCurrent
    <3> QED BY <1>1, <2>1, <3>2, <3>3, <3>4, <3>5, <3>6, WorkerCommits
  <2> QED BY <2>2, <2>3
\* Of a running worker.
<1>6. ASSUME worker[w].step = "run"
      PROVE  LET o == worker[w].op
             IN  /\ o \in Ops /\ row[o] \in Rows /\ RowSound(row[o])
                 /\ row[o].state \in {"running", "cancelled"} /\ row[o].stale = FALSE
                 /\ row[o].phase = worker[w].phase
                 /\ row[o].revokeFailed = worker[w].revokeFailed
                 /\ \A v \in Workers : v # w /\ worker[v].step = "run" => worker[v].op # o
                 /\ row[o].attempts \in Nat /\ ~Refused(o)
  <2>1. /\ worker[w].op \in Ops /\ row[worker[w].op] \in Rows
        /\ RowSound(row[worker[w].op])
    BY <1>6 DEF EngineInv, DeletionTypeOK, RunsAreCurrent, RowsAreSound
  <2>2. row[worker[w].op].attempts \in Nat /\ ~Refused(worker[w].op)
    BY <2>1, Bounds DEF Rows, RowSound, Refused
  <2>3. \A v \in Workers : v # w /\ worker[v].step = "run" => worker[v].op # worker[w].op
    BY <1>6 DEF EngineInv, RunsAreApart
  <2>4. row[worker[w].op].stale = FALSE
    BY <1>6, <2>1 DEF EngineInv, RunsAreCurrent, Rows
  <2> QED BY <1>6, <2>1, <2>2, <2>3, <2>4 DEF EngineInv, RunsAreCurrent
<1>7. ASSUME NEW revocationFails \in BOOLEAN, Batch(w, revocationFails) PROVE EngineInv'
  <2> DEFINE o == worker[w].op
             phase == worker[w].phase
             again == Bulk(phase) /\ row[o].left > 0
             next == IF again THEN phase ELSE PhaseAfter[phase]
             failed == worker[w].revokeFailed \/ revocationFails
             left == IF again THEN row[o].left - 1 ELSE row[o].left
             new == [row[o] EXCEPT !.phase = next, !.revokeFailed = failed, !.left = left]
             x == [worker[w] EXCEPT !.phase = next, !.revokeFailed = failed]
  <2>1. worker[w].step = "run" /\ phase \in Phases /\ phase # "done"
    BY <1>1, <1>7 DEF Batch, WorkerStates
  <2>2. row[o].left \in Nat /\ row[o].phase = phase /\ RowSound(row[o])
    BY <1>6, <2>1 DEF Rows
  <2>3. /\ next \in Phases /\ left \in Nat /\ failed \in BOOLEAN
        /\ next \in {"minimise", "finalise", "done"} => left = 0
        /\ next \in {"credentials", "product", "minimise", "finalise"} => row[o].scope = "account"
    BY <1>1, <2>1, <2>2 DEF WorkerStates, Phases, PhaseAfter, Bulk, RowSound
  <2>4. /\ row' = [row EXCEPT ![o] = new] /\ worker' = [worker EXCEPT ![w] = x]
        /\ UNCHANGED <<plan, jobs, tick, handler, screen, faults>>
        /\ account' \in {account, "deleted"} /\ tokens' \in BOOLEAN
        /\ destroyed' \in [Ops -> BOOLEAN]
    BY <1>1, <1>7 DEF Batch
  <2> HIDE DEF next, left, failed
  <2>5. /\ new \in Rows /\ new.state = row[o].state /\ new.stale = row[o].stale
        /\ new.attempts = row[o].attempts /\ new.scope = row[o].scope
        /\ new.phase = next /\ new.left = left /\ new.revokeFailed = failed
    BY <1>6, <2>1, <2>3 DEF Rows
  <2>6. /\ x \in WorkerStates /\ x.step = "run" /\ x.op = o /\ x.phase = next
        /\ x.revokeFailed = failed
    BY <1>1, <2>1, <2>3 DEF WorkerStates
  <2> HIDE DEF new, x
  <2>7. Respects(o, new)
    BY <1>6, <2>1, <2>2, <2>3, <2>5 DEF Respects, RowSound, Stale
  <2>8. account' \in AccountStates
    BY <1>1, <2>4 DEF AccountStates
  <2>9. /\ o \in Ops
        /\ new.state \in {"running", "cancelled"} /\ ~new.stale
        /\ new.phase = x.phase /\ new.revokeFailed = x.revokeFailed
        /\ \A v \in Workers : v # w /\ worker[v].step = "run" => worker[v].op # o
    BY <1>6, <2>1, <2>5, <2>6
  <2> HIDE DEF o
  <2> QED BY <2>4, <2>5, <2>6, <2>7, <2>8, <2>9, WorkerCommits
<1>8. ASSUME FinishRun(w) PROVE EngineInv'
  <2> DEFINE o == worker[w].op
             new == [row[o] EXCEPT !.state = Outcome(w)]
  <2>1. worker[w].step = "run"
    BY <1>8 DEF FinishRun
  <2>2. /\ Outcome(w) \in {"partially_failed", "succeeded"}
        /\ Outcome(w) = "succeeded" => ~row[o].revokeFailed
    BY <1>6, <2>1 DEF Outcome
  <2>3. /\ new \in Rows /\ new.state = Outcome(w) /\ new.stale = row[o].stale
        /\ new.attempts = row[o].attempts /\ new.scope = row[o].scope
        /\ new.phase = row[o].phase /\ new.left = row[o].left
        /\ new.revokeFailed = row[o].revokeFailed
    BY <1>6, <2>1, <2>2 DEF Rows, TerminalStates
  <2>4. /\ row' = [row EXCEPT ![o] = new] /\ worker' = [worker EXCEPT ![w] = IdleWorker]
        /\ UNCHANGED <<plan, account, tokens, jobs, tick, handler, screen, faults, destroyed>>
    BY <1>8 DEF FinishRun
  <2> HIDE DEF new
  <2>5. Respects(o, new)
    BY <1>6, <2>1, <2>2, <2>3 DEF Respects, RowSound, Stale
  <2> QED BY <1>1, <1>2, <1>6, <2>1, <2>3, <2>4, <2>5, WorkerCommits
<1> QED BY <1>3, <1>4, <1>5, <1>7, <1>8 DEF WorkerStep

-----------------------------------------------------------------------------
(* The tick.                                                               *)

\* Before its commit the tick only decides, pushes jobs and counts faults.
LEMMA TickMoves ==
  ASSUME EngineInv, tick' \in TickStates, jobs' \in [Ops -> Nat], faults' \in 0..MaxFaults,
         tick'.step = "requeue" => \A o \in tick'.todo : Stale(row[o]),
         \A o \in tick'.requeued \cup tick'.exhausted : Stale(row[o]),
         \A o \in tick'.requeued : row[o].attempts < MaxAttempts,
         UNCHANGED <<row, plan, account, tokens, worker, handler, screen, destroyed>>
  PROVE  EngineInv'
<1>1. DeletionTypeOK'
  BY DEF EngineInv, DeletionTypeOK, TickStates
<1>2. RecoveryIsCurrent'
  BY DEF RecoveryIsCurrent
<1>3. RowsAreSound' /\ RunsAreCurrent' /\ RunsAreApart' /\ RequestsAreCurrent' /\ ScreenIsCurrent'
  BY DEF EngineInv, RowsAreSound, RunsAreCurrent, RunsAreApart, RequestsAreCurrent,
         ScreenIsCurrent, Made, Seen
<1> QED BY <1>1, <1>2, <1>3 DEF EngineInv

LEMMA PushType ==
  ASSUME EngineInv, NEW o \in Ops, NEW works \in BOOLEAN, Push(o, works)
  PROVE  jobs' \in [Ops -> Nat] /\ faults' \in 0..MaxFaults
BY Bounds DEF EngineInv, DeletionTypeOK, Push

LEMMA TickInv ==
  ASSUME EngineInv, TickStep \/ TickDies, ~TickCommits
  PROVE  EngineInv'
<1>1. /\ tick \in TickStates /\ jobs \in [Ops -> Nat] /\ faults \in 0..MaxFaults
      /\ RecoveryIsCurrent
  BY DEF EngineInv, DeletionTypeOK, TickStates
<1>2. NoTick \in TickStates /\ NoTick.requeued = {} /\ NoTick.exhausted = {} /\ NoTick.step = "off"
  BY DEF NoTick, TickStates
<1>3. ASSUME TickBegins PROVE EngineInv'
  <2> DEFINE todo == {o \in Ops : Stale(row[o])}
             t == [NoTick EXCEPT !.step = "requeue", !.todo = todo]
  <2>1. todo \in SUBSET Ops /\ \A o \in todo : Stale(row[o])
    OBVIOUS
  <2>2. t \in TickStates /\ t.todo = todo /\ t.requeued = {} /\ t.exhausted = {}
    BY <1>2 DEF TickStates, NoTick
  <2>3. /\ tick' = t
        /\ UNCHANGED <<row, plan, account, tokens, jobs, worker, handler, screen, faults, destroyed>>
    BY <1>3 DEF TickBegins
  <2> HIDE DEF todo, t
  <2> QED BY <1>1, <2>1, <2>2, <2>3, TickMoves
<1>4. ASSUME NEW o \in Ops, TickGivesUp(o) PROVE EngineInv'
  <2> DEFINE t == [tick EXCEPT !.todo = tick.todo \ {o}, !.exhausted = tick.exhausted \cup {o}]
  <2>1. /\ t \in TickStates /\ t.todo = tick.todo \ {o} /\ t.requeued = tick.requeued
        /\ t.exhausted = tick.exhausted \cup {o} /\ t.step = tick.step
    BY <1>1 DEF TickStates
  <2>2. /\ tick' = t /\ tick.step = "requeue" /\ o \in tick.todo
        /\ UNCHANGED <<row, plan, account, tokens, jobs, worker, handler, screen, faults, destroyed>>
    BY <1>4 DEF TickGivesUp
  <2> HIDE DEF t
  <2> QED BY <1>1, <2>1, <2>2, TickMoves DEF RecoveryIsCurrent
<1>5. ASSUME NEW o \in Ops, NEW works \in BOOLEAN, TickRequeues(o, works) PROVE EngineInv'
  <2> DEFINE enqueued == IF works THEN tick.enqueued \cup {o} ELSE tick.enqueued
             t == [tick EXCEPT !.todo = tick.todo \ {o}, !.requeued = tick.requeued \cup {o},
                               !.enqueued = enqueued]
  <2>1. enqueued \in SUBSET Ops
    BY <1>1 DEF TickStates
  <2>2. /\ tick' = t /\ tick.step = "requeue" /\ o \in tick.todo /\ ~Exhausted(o)
        /\ Push(o, works)
        /\ UNCHANGED <<row, plan, account, tokens, worker, handler, screen, destroyed>>
    BY <1>5 DEF TickRequeues
  <2> HIDE DEF enqueued
  <2>3. /\ t \in TickStates /\ t.todo = tick.todo \ {o} /\ t.exhausted = tick.exhausted
        /\ t.requeued = tick.requeued \cup {o} /\ t.step = tick.step
    BY <1>1, <2>1 DEF TickStates
  <2> HIDE DEF t
  <2>4. row[o].attempts < MaxAttempts
    <3>1. row[o].attempts \in Nat
      BY DEF EngineInv, DeletionTypeOK, Rows
    <3> QED BY <2>2, <3>1, Bounds DEF Exhausted
  <2> QED BY <1>1, <2>2, <2>3, <2>4, PushType, TickMoves DEF RecoveryIsCurrent
<1>6. ASSUME TickFlushes PROVE EngineInv'
  <2> DEFINE todo == {o \in Ops : Undrained(o)}
             t == [tick EXCEPT !.step = "drain", !.todo = todo]
  <2>1. todo \in SUBSET Ops
    OBVIOUS
  <2>2. /\ tick' = t
        /\ UNCHANGED <<row, plan, account, tokens, jobs, worker, handler, screen, faults, destroyed>>
    BY <1>6 DEF TickFlushes
  <2> HIDE DEF todo
  <2>3. /\ t \in TickStates /\ t.step = "drain" /\ t.exhausted = tick.exhausted
        /\ t.requeued = tick.requeued
    BY <1>1, <2>1 DEF TickStates
  <2> HIDE DEF t
  <2> QED BY <1>1, <2>2, <2>3, TickMoves DEF RecoveryIsCurrent
<1>7. ASSUME NEW o \in Ops, NEW works \in BOOLEAN, TickDrains(o, works) PROVE EngineInv'
  <2> DEFINE enqueued == IF works THEN tick.enqueued \cup {o} ELSE tick.enqueued
             t == [tick EXCEPT !.todo = tick.todo \ {o}, !.enqueued = enqueued]
  <2>1. enqueued \in SUBSET Ops
    BY <1>1 DEF TickStates
  <2>2. /\ tick' = t /\ tick.step = "drain" /\ Push(o, works)
        /\ UNCHANGED <<row, plan, account, tokens, worker, handler, screen, destroyed>>
    BY <1>7 DEF TickDrains
  <2> HIDE DEF enqueued
  <2>3. /\ t \in TickStates /\ t.step = tick.step /\ t.exhausted = tick.exhausted
        /\ t.requeued = tick.requeued
    BY <1>1, <2>1 DEF TickStates
  <2> HIDE DEF t
  <2> QED BY <1>1, <2>2, <2>3, PushType, TickMoves DEF RecoveryIsCurrent
<1>8. ASSUME TickDies PROVE EngineInv'
  <2>1. faults' \in 0..MaxFaults
    BY <1>1, <1>8, Bounds DEF TickDies
  <2> QED BY <1>1, <1>2, <1>8, <2>1, TickMoves DEF TickDies
<1> QED BY <1>3, <1>4, <1>5, <1>6, <1>7, <1>8 DEF TickStep

\* The commit: what was requeued was running and stale, so nobody runs it.
LEMMA TickCommitsInv ==
  ASSUME EngineInv, TickCommits
  PROVE  EngineInv'
<1>1. /\ row \in [Ops -> Rows] /\ tick \in TickStates /\ RecoveryIsCurrent /\ RowsAreSound
  BY DEF EngineInv, DeletionTypeOK, TickStates
<1>2. ASSUME NEW o \in Ops
      PROVE  /\ row'[o] \in Rows /\ row'[o].state = RecoveredState(o)
             /\ row'[o].scope = row[o].scope /\ row'[o].attempts = row[o].attempts
             /\ row'[o].stale = row[o].stale /\ row'[o].phase = row[o].phase
             /\ row'[o].left = row[o].left /\ row'[o].revokeFailed = row[o].revokeFailed
             /\ row'[o].version = row[o].version /\ row'[o].plan = row[o].plan
  <2> DEFINE new == [row[o] EXCEPT !.state = RecoveredState(o),
                                   !.enqueued = row[o].enqueued \/ o \in tick.enqueued]
  <2>1. row'[o] = new
    BY DEF TickCommits
  <2>2. RecoveredState(o) \in ActiveStates \cup TerminalStates \cup {"none"}
    BY <1>1 DEF RecoveredState, Rows, ActiveStates, TerminalStates
  <2>3. (row[o].enqueued \/ o \in tick.enqueued) \in BOOLEAN
    OBVIOUS
  <2>4. new \in Rows
    BY <1>1, <2>2, <2>3 DEF Rows
  <2>5. /\ new.state = RecoveredState(o)
        /\ new.scope = row[o].scope /\ new.attempts = row[o].attempts
        /\ new.stale = row[o].stale /\ new.phase = row[o].phase
        /\ new.left = row[o].left /\ new.revokeFailed = row[o].revokeFailed
        /\ new.version = row[o].version /\ new.plan = row[o].plan
    BY <1>1 DEF Rows
  <2> QED BY <2>1, <2>4, <2>5
<1>3. ASSUME NEW o \in Ops
      PROVE  /\ RecoveredState(o) # row[o].state =>
                  /\ Stale(row[o])
                  /\ \/ RecoveredState(o) = "pending" /\ row[o].attempts < MaxAttempts
                     \/ RecoveredState(o) = "partially_failed"
  BY <1>1 DEF RecoveredState, RecoveryIsCurrent
<1>4. row' \in [Ops -> Rows]
  BY <1>2 DEF TickCommits
<1>5. /\ tick' = NoTick
      /\ UNCHANGED <<plan, account, tokens, jobs, worker, handler, screen, faults, destroyed>>
  BY DEF TickCommits
<1>6. DeletionTypeOK'
  BY <1>4, <1>5 DEF EngineInv, DeletionTypeOK, NoTick
<1>7. RowsAreSound'
  BY <1>1, <1>2, <1>3 DEF RowsAreSound, RowSound, Stale
<1>8. RunsAreCurrent' /\ RunsAreApart'
  BY <1>2, <1>3, <1>5 DEF EngineInv, RunsAreCurrent, RunsAreApart, Stale
<1>9. RecoveryIsCurrent'
  BY <1>5 DEF RecoveryIsCurrent, NoTick
<1>10. \A x : Made(x) => Made(x)'
  BY <1>2, <1>3 DEF Made
<1>11. \A x : \A v \in Nat : \A f : Made(x) /\ Seen(x, v, f) => Seen(x, v, f)'
  BY <1>2, <1>3 DEF Made, Seen
<1>12. ASSUME NEW g \in Handlers, handler[g].step = "cancelling"
       PROVE  ~Stale(row'[handler[g].op])
  <2>1. handler[g].op \in Ops /\ ~Stale(row[handler[g].op])
    BY <1>12 DEF EngineInv, RequestsAreCurrent, Made
  <2> QED BY <1>2, <1>3, <2>1 DEF Stale
<1>13. RequestsAreCurrent' /\ ScreenIsCurrent'
  BY <1>5, <1>10, <1>11, <1>12, RequestsStay
<1> QED BY <1>6, <1>7, <1>8, <1>9, <1>13 DEF EngineInv

LEMMA NextEngineInv ==
  ASSUME TimeoutCoversJob, EngineInv, [Next]_vars
  PROVE  EngineInv'
<1>1. CASE Next
  BY <1>1, UserInv, RequestArrivesInv, RequestProceedsInv, WorkerStepInv, HeartbeatInv,
     RetentionInv, TickInv, TickCommitsInv DEF Next
<1>2. CASE UNCHANGED vars
  <2>1. DeletionTypeOK'
    BY <1>2 DEF EngineInv, DeletionTypeOK, vars
  <2> QED BY <1>2, <2>1 DEF EngineInv, RowsAreSound, RunsAreCurrent, RunsAreApart,
             RecoveryIsCurrent, RequestsAreCurrent, ScreenIsCurrent, Made, Seen, vars
<1> QED BY <1>1, <1>2

LEMMA EngineInvariant ==
  ASSUME TimeoutCoversJob
  PROVE  Spec => []EngineInv
BY InitEngineInv, NextEngineInv, PTL DEF Spec

-----------------------------------------------------------------------------
(* What a step may do to a row.                                            *)

\* Which step may do what to a row: its scope stays, only a batch moves its
\* cursor, only an accepted confirmation takes it from previewed to pending,
\* and only the end of a run takes it out of cancelled or reports a success.
LEMMA StepsOnARow ==
  ASSUME EngineInv, [Next]_vars, NEW o \in Ops
  PROVE  /\ \/ row[o].state = "none"
            \/ row'[o].phase = row[o].phase
            \/ \E w \in Workers, b \in BOOLEAN : Batch(w, b) /\ worker[w].op = o
         /\ row[o].state = "previewed" /\ row'[o].state = "pending" =>
              \E h \in Handlers : ConfirmAccepted(h) /\ handler[h].op = o
         /\ row[o].state = "cancelled" /\ row'[o].state # "cancelled" =>
              \E w \in Workers : FinishRun(w) /\ worker[w].op = o
         /\ row[o].state # "none" =>
              row'[o].state # "none" /\ row'[o].scope = row[o].scope
         /\ row[o].state # "succeeded" /\ row'[o].state = "succeeded" =>
              \E w \in Workers : FinishRun(w) /\ worker[w].op = o
<1> DEFINE Allowed ==
      /\ \/ row[o].state = "none"
         \/ row'[o].phase = row[o].phase
         \/ \E w \in Workers, b \in BOOLEAN : Batch(w, b) /\ worker[w].op = o
      /\ row[o].state = "previewed" /\ row'[o].state = "pending" =>
           \E h \in Handlers : ConfirmAccepted(h) /\ handler[h].op = o
      /\ row[o].state = "cancelled" /\ row'[o].state # "cancelled" =>
           \E w \in Workers : FinishRun(w) /\ worker[w].op = o
      /\ row[o].state # "none" =>
           row'[o].state # "none" /\ row'[o].scope = row[o].scope
      /\ row[o].state # "succeeded" /\ row'[o].state = "succeeded" =>
           \E w \in Workers : FinishRun(w) /\ worker[w].op = o
<1>1. row \in [Ops -> Rows] /\ RecoveryIsCurrent
  BY DEF EngineInv, DeletionTypeOK
<1>2. UNCHANGED row => Allowed
  OBVIOUS
<1>3. ASSUME NEW h \in Handlers, RequestArrives(h) \/ RequestProceeds(h) PROVE Allowed
  <2>1. ASSUME NEW p \in Ops, NEW left \in 0..Batches, PreviewCreated(h, p, left) PROVE Allowed
    BY <1>1, <2>1 DEF PreviewCreated, NewRow, NoRow
  <2>2. CASE ConfirmAccepted(h)
    BY <1>1, <2>2 DEF ConfirmAccepted, Confirmable, Rows
  <2>3. CASE ConfirmRefreshes(h)
    <3>1. /\ row'[o].state = row[o].state /\ row'[o].scope = row[o].scope
          /\ row'[o].phase = row[o].phase
      <4>1. CASE handler[h].op = o
        <5> DEFINE new == [row[o] EXCEPT !.counts = handler[h].counts,
                             !.plan = plan[row[o].scope], !.expired = FALSE,
                             !.version = row[o].version + 1]
        <5>1. row'[o] = new
          BY <1>1, <2>3, <4>1 DEF ConfirmRefreshes
        <5>2. new.state = row[o].state /\ new.scope = row[o].scope /\ new.phase = row[o].phase
          BY <1>1 DEF Rows
        <5> QED BY <5>1, <5>2
      <4>2. CASE handler[h].op # o
        BY <1>1, <2>3, <4>2 DEF ConfirmRefreshes
      <4> QED BY <4>1, <4>2
    <3> QED BY <3>1
  <2>4. CASE CancelCommit(h)
    BY <1>1, <2>4 DEF CancelCommit, Rows
  <2> QED BY <1>2, <1>3, <2>1, <2>2, <2>3, <2>4
      DEF RequestArrives, RequestBegin, PreviewCounted, RequestProceeds, ConfirmFindsChange,
          ConfirmRefused, CancelRead, RequestFails
<1>4. ASSUME NEW w \in Workers, WorkerStep(w) \/ WorkerDies(w) PROVE Allowed
  <2>1. CASE Claim(w)
    BY <1>1, <2>1 DEF Claim, Claimable, Rows
  <2>2. ASSUME NEW b \in BOOLEAN, Batch(w, b) PROVE Allowed
    <3>1. worker[w].op # o => row'[o] = row[o]
      BY <1>1, <2>2 DEF Batch
    <3>2. row'[o].state = row[o].state /\ row'[o].scope = row[o].scope
      BY <1>1, <2>2 DEF Batch, Rows
    <3> QED BY <2>2, <3>1, <3>2
  <2>3. CASE FinishRun(w)
    <3>1. worker[w].op # o => row'[o] = row[o]
      BY <1>1, <2>3 DEF FinishRun
    <3>2. row'[o].phase = row[o].phase /\ row'[o].scope = row[o].scope
      BY <1>1, <2>3 DEF FinishRun, Rows
    <3>3. row'[o] = row[o] \/ row'[o].state \notin {"pending", "none"}
      BY <1>1, <2>3 DEF FinishRun, Outcome, Rows
    <3> QED BY <2>3, <3>1, <3>2, <3>3
  <2> QED BY <1>2, <1>4, <2>1, <2>2, <2>3 DEF WorkerStep, TakeJob, WorkerDies
<1>5. ASSUME NEW p \in Ops, PreviewExpires(p) \/ HeartbeatAges(p) PROVE Allowed
  BY <1>1, <1>5 DEF PreviewExpires, HeartbeatAges, Rows
<1>6. UserNext => Allowed
  BY <1>2, <1>5 DEF UserNext, PreviewReused, PlanChanges, ViewStatus, Connects
<1>7. ASSUME NEW p \in Ops, NEW left \in 0..Batches, RetentionScan(p, left) PROVE Allowed
  BY <1>1, <1>7 DEF RetentionScan, NewRow, NoRow
<1>8. TickStep \/ TickDies => Allowed
  <2>1. CASE TickCommits
    <3>1. /\ row'[o].phase = row[o].phase /\ row'[o].state = RecoveredState(o)
          /\ row'[o].scope = row[o].scope
      BY <1>1, <2>1 DEF TickCommits, Rows
    <3>2. RecoveredState(o) # row[o].state =>
            row[o].state = "running" /\ RecoveredState(o) \in {"pending", "partially_failed"}
      BY <1>1 DEF RecoveryIsCurrent, RecoveredState, Stale
    <3> QED BY <3>1, <3>2
  <2> QED BY <1>2, <2>1 DEF TickStep, TickBegins, TickFlushes, TickGivesUp, TickRequeues,
             TickDrains, TickDies
<1>9. UNCHANGED vars => Allowed
  BY <1>2 DEF vars
<1> HIDE DEF Allowed
<1>10. Allowed
  BY <1>3, <1>4, <1>5, <1>6, <1>7, <1>8, <1>9 DEF Next
<1> QED BY <1>10 DEF Allowed

-----------------------------------------------------------------------------
(* What it means for the operations.                                       *)

\* An operation that has taken the account through every phase.
Erases(r) == r.state # "none" /\ r.scope = "account" /\ r.phase = "done"

\* An account is deleted by an operation, which has then passed every phase;
\* and a success has passed its phases, or some operation on the account has.
ErasuresAreDone ==
  /\ account = "deleted" => \E p \in Ops : Erases(row[p])
  /\ \A o \in Ops : row[o].state = "succeeded" =>
       \/ row[o].phase = "done"
       \/ row[o].scope = "account" /\ \E p \in Ops : Erases(row[p])

\* What a batch finds and leaves.
LEMMA BatchOnItsRow ==
  ASSUME EngineInv, NEW w \in Workers, NEW b \in BOOLEAN, Batch(w, b)
  PROVE  /\ worker[w].op \in Ops
         /\ row[worker[w].op].state # "none" /\ row[worker[w].op].phase # "done"
         /\ account' = "deleted" /\ account # "deleted" =>
              Erases(row'[worker[w].op])
<1> DEFINE o == worker[w].op
<1>1. /\ o \in Ops /\ row \in [Ops -> Rows] /\ row[o].state \in {"running", "cancelled"}
      /\ row[o].phase = worker[w].phase /\ worker[w].phase # "done" /\ RowSound(row[o])
  BY DEF Batch, EngineInv, DeletionTypeOK, RunsAreCurrent, RowsAreSound
<1>2. ASSUME account' = "deleted", account # "deleted" PROVE Erases(row'[o])
  <2>1. worker[w].phase = "finalise" /\ row[o].scope = "account"
    BY <1>1, <1>2 DEF Batch, RowSound
  <2>2. /\ row'[o].state = row[o].state /\ row'[o].scope = row[o].scope
        /\ row'[o].phase = "done"
    BY <1>1, <2>1 DEF Batch, Bulk, PhaseAfter, Rows
  <2> QED BY <1>1, <2>1, <2>2 DEF Erases
<1> QED BY <1>1, <1>2

\* Who may set the account to deleted.
LEMMA OnlyBatchesDelete ==
  ASSUME [Next]_vars, account' = "deleted", account # "deleted"
  PROVE  \E w \in Workers, b \in BOOLEAN : Batch(w, b)
<1>1. ~UserNext
  BY DEF UserNext, PreviewReused, PlanChanges, ViewStatus, PreviewExpires, Connects
<1>2. \A h \in Handlers : ~RequestArrives(h)
  BY DEF RequestArrives, RequestBegin, PreviewCounted
<1>3. \A h \in Handlers : ~RequestProceeds(h)
  BY DEF RequestProceeds, PreviewCreated, ConfirmAccepted, ConfirmFindsChange,
         ConfirmRefreshes, ConfirmRefused, CancelRead, CancelCommit, RequestFails, Assigned
<1>4. ASSUME NEW w \in Workers, WorkerStep(w) \/ WorkerDies(w)
      PROVE  \E b \in BOOLEAN : Batch(w, b)
  BY <1>4 DEF WorkerStep, TakeJob, Claim, FinishRun, WorkerDies
<1>5. ~(TickStep \/ TickDies)
  BY DEF TickStep, TickBegins, TickFlushes, TickCommits, TickGivesUp, TickRequeues,
         TickDrains, TickDies
<1>6. ~(\E o \in Ops : HeartbeatAges(o)) /\ ~(\E o \in Ops, left \in 0..Batches : RetentionScan(o, left))
  BY DEF HeartbeatAges, RetentionScan
<1> QED BY <1>1, <1>2, <1>3, <1>4, <1>5, <1>6 DEF Next, vars

LEMMA NextErasures ==
  ASSUME EngineInv, ErasuresAreDone, [Next]_vars
  PROVE  ErasuresAreDone'
<1>1. ASSUME NEW o \in Ops, row[o].state # "none"
      PROVE  /\ row'[o].state # "none" /\ row'[o].scope = row[o].scope
             /\ row[o].phase = "done" => row'[o].phase = "done"
  BY <1>1, StepsOnARow, BatchOnItsRow
<1>2. (\E p \in Ops : Erases(row[p])) => \E p \in Ops : Erases(row'[p])
  BY <1>1 DEF Erases
<1>3. account' = "deleted" => \E p \in Ops : Erases(row'[p])
  <2>1. CASE account = "deleted"
    BY <1>2, <2>1 DEF ErasuresAreDone
  <2>2. CASE account' = "deleted" /\ account # "deleted"
    BY <2>2, OnlyBatchesDelete, BatchOnItsRow
  <2> QED BY <2>1, <2>2
<1>4. ASSUME NEW o \in Ops, row'[o].state = "succeeded"
      PROVE  \/ row'[o].phase = "done"
             \/ row'[o].scope = "account" /\ \E p \in Ops : Erases(row'[p])
  <2>1. CASE row[o].state = "succeeded"
    BY <1>1, <1>2, <2>1 DEF ErasuresAreDone
  <2>2. CASE row[o].state # "succeeded"
    <3>1. PICK w \in Workers : FinishRun(w) /\ worker[w].op = o
      BY <1>4, <2>2, StepsOnARow
    <3>2. /\ row[o].phase = worker[w].phase /\ row[o].state # "none" /\ ~Refused(o)
      <4>1. /\ row[o].phase = worker[w].phase /\ row[o].state # "none"
            /\ row[o].attempts \in Nat /\ row[o].attempts <= MaxAttempts
        BY <3>1 DEF FinishRun, EngineInv, DeletionTypeOK, Rows, RunsAreCurrent,
                    RowsAreSound, RowSound
      <4> QED BY <4>1, Bounds DEF Refused
    <3>3. CASE row[o].phase = "done"
      BY <1>1, <3>2, <3>3
    <3>4. CASE Moot(o)
      BY <1>1, <1>2, <3>2, <3>4 DEF Moot, ErasuresAreDone
    <3> QED BY <3>1, <3>2, <3>3, <3>4 DEF FinishRun
  <2> QED BY <2>1, <2>2
<1> QED BY <1>3, <1>4 DEF ErasuresAreDone

LEMMA AtMostOneElement ==
  ASSUME NEW S, \A x, y \in S : x = y
  PROVE  Cardinality(S) <= 1
<1>1. CASE S = {}
  BY <1>1, FS_EmptySet
<1>2. ASSUME NEW x \in S PROVE Cardinality(S) <= 1
  <2>1. S = {x}
    OBVIOUS
  <2> QED BY <2>1, FS_Singleton
<1> QED BY <1>1, <1>2

\* An operation is run by one worker, at most MaxAttempts times, and a success
\* has passed every phase, unless it is one on an account that another
\* operation had taken through them already; for any number of operations,
\* workers and requests and every crash between two of their steps.  All that
\* is assumed is that arq's job timeout ends a job before its heartbeat is stale.
THEOREM OperationsAreSound ==
  ASSUME TimeoutCoversJob
  PROVE  Spec => []DeletionInv
<1>1. EngineInv /\ ErasuresAreDone => DeletionInv
  <2> SUFFICES ASSUME EngineInv, ErasuresAreDone PROVE DeletionInv
    OBVIOUS
  <2>1. OneWorkerPerOperation
    BY AtMostOneElement DEF OneWorkerPerOperation, RunningIt, EngineInv, RunsAreApart
  <2>2. AttemptsStayBounded
    BY DEF AttemptsStayBounded, EngineInv, RowsAreSound, RowSound
  <2>3. ASSUME NEW o \in Ops, row[o].phase = "done" PROVE Complete(o)
    BY <2>3 DEF Complete, EngineInv, RowsAreSound, RowSound
  <2>4. SucceededIsComplete
    BY <2>3 DEF SucceededIsComplete, ErasuresAreDone, Erases, EngineInv, RowsAreSound, RowSound
  <2> QED BY <2>1, <2>2, <2>4 DEF DeletionInv, EngineInv
<1>2. Init => ErasuresAreDone
  BY DEF Init, NoRow, ErasuresAreDone
<1> QED BY <1>1, <1>2, NextErasures, EngineInvariant, PTL DEF Spec

-----------------------------------------------------------------------------
(* What a step may never do.                                               *)

\* The durable cursor of an operation never goes back, over crashes,
\* recoveries and second jobs: a batch starts from the row's own cursor.
THEOREM CursorsAdvance ==
  ASSUME TimeoutCoversJob
  PROVE  Spec => ProgressIsKept
<1>1. ASSUME EngineInv, [Next]_vars, NEW o \in Ops, row[o].state # "none"
      PROVE  PhaseRank[row'[o].phase] >= PhaseRank[row[o].phase]
  <2>1. row[o].phase \in Phases
    BY <1>1 DEF EngineInv, DeletionTypeOK, Rows
  <2>2. CASE row'[o].phase = row[o].phase
    BY <2>1, <2>2 DEF PhaseRank, Phases
  <2>3. ASSUME NEW w \in Workers, NEW b \in BOOLEAN, Batch(w, b), worker[w].op = o
        PROVE  PhaseRank[row'[o].phase] >= PhaseRank[row[o].phase]
    <3>1. row[o].phase = worker[w].phase /\ row \in [Ops -> Rows]
      BY <1>1, <2>3 DEF Batch, EngineInv, DeletionTypeOK, RunsAreCurrent
    <3>2. row'[o].phase \in {row[o].phase, PhaseAfter[row[o].phase]}
      BY <2>3, <3>1 DEF Batch, Rows
    <3>3. row[o].phase # "done"
      BY <2>3, <3>1 DEF Batch
    <3> QED BY <2>1, <3>2, <3>3 DEF PhaseRank, PhaseAfter, Phases
  <2> QED BY <1>1, <2>2, <2>3, StepsOnARow
<1>2. EngineInv /\ [Next]_vars =>
        [\A o \in Ops : row[o].state # "none" =>
           PhaseRank[row'[o].phase] >= PhaseRank[row[o].phase]]_vars
  BY <1>1
<1> QED BY <1>2, EngineInvariant, PTL DEF Spec, ProgressIsKept

\* What the user decides stands: what a confirmation starts is the plan whose
\* version the user was shown, and what was cancelled before a worker claimed
\* it is not brought back, by a queued job or by the recovery.
THEOREM DecisionsAreKept ==
  ASSUME TimeoutCoversJob
  PROVE  Spec => DecisionsStand
<1>1. ASSUME EngineInv, [Next]_vars, NEW h \in Handlers,
             handler[h].step = "confirm", handler'[h].step = "idle",
             row[handler[h].op].state = "previewed", row'[handler[h].op].state = "pending"
      PROVE  handler[h].plan = plan[row[handler[h].op].scope]
  <2> DEFINE o == handler[h].op
  <2>1. /\ o \in Ops /\ Seen(o, handler[h].version, handler[h].plan)
        /\ handler \in [Handlers -> HandlerStates]
    BY <1>1 DEF EngineInv, DeletionTypeOK, HandlerStates, RequestsAreCurrent, Made
  <2>2. PICK g \in Handlers : ConfirmAccepted(g) /\ handler[g].op = o
    BY <1>1, <2>1, StepsOnARow
  <2>3. g = h
    BY <1>1, <2>1, <2>2 DEF ConfirmAccepted
  <2>4. handler[h].version = row[o].version /\ row[o].plan = plan[row[o].scope]
    BY <2>2, <2>3 DEF ConfirmAccepted, Confirmable
  <2> QED BY <1>1, <2>1, <2>4 DEF Seen
<1>2. ASSUME EngineInv, [Next]_vars, NEW o \in Ops,
             row[o].state = "cancelled", RunningIt(o) = {}
      PROVE  row'[o].state = "cancelled"
  <2>1. ASSUME NEW w \in Workers, FinishRun(w), worker[w].op = o PROVE FALSE
    BY <1>2, <2>1 DEF FinishRun, RunningIt
  <2> QED BY <1>2, <2>1, StepsOnARow
<1> DEFINE Stands ==
      /\ \A h \in Handlers : LET o == handler[h].op IN
           (/\ handler[h].step = "confirm" /\ handler'[h].step = "idle"
            /\ row[o].state = "previewed" /\ row'[o].state = "pending")
           => handler[h].plan = plan[row[o].scope]
      /\ \A o \in Ops : row[o].state = "cancelled" /\ RunningIt(o) = {} =>
           row'[o].state = "cancelled"
<1>3. EngineInv /\ [Next]_vars => [Stands]_vars
  BY <1>1, <1>2
<1> QED BY <1>3, EngineInvariant, PTL DEF Spec, DecisionsStand
=============================================================================
