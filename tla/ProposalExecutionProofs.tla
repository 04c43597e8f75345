---------------------- MODULE ProposalExecutionProofs -----------------------
(***************************************************************************)
(* Theorems about ProposalExecution, for every number of proposals,        *)
(* requests, handlers and versions.                                        *)
(*                                                                         *)
(* In three parts.  Exclusion: a request keeps the row locked until it has *)
(* committed its attempt, an attempt is committed at most once, so at most *)
(* one request is past that point for a proposal, and it calls Google      *)
(* once.  Agreement: the argument follows the snapshot from the screen to  *)
(* the proposal, to the attempt and to the write; at each hand there is a  *)
(* click it goes back to.  Promise: every step of the pipeline is, for     *)
(* each proposal, a step of ExternalAction or none; on the way, an approval*)
(* that stands is one the user gave for the row's content, proposals       *)
(* without Google evidence never reach Google, and one pass of generation  *)
(* fills one slot per action type.                                         *)
(***************************************************************************)
EXTENDS ProposalExecution, TLAPS

-----------------------------------------------------------------------------
(* Contexts are well formed.                                               *)

LEMMA SingleAccountType ==
  ASSUME NEW ids \in SUBSET AccountIds
  PROVE  SingleAccount(ids) \in AccountIds \cup {None}
BY DEF SingleAccount

LEMMA ResolveType ==
  ASSUME NEW type \in ActionTypes, NEW accounts, NEW evidence \in SUBSET AccountIds,
         \A a \in DOMAIN accounts : accounts[a].revision \in Nat
  PROVE  ResolveExecutionContext(type, accounts, evidence) \in Contexts
<1> DEFINE linked == GoogleIds(accounts, evidence)
           only   == CHOOSE a \in linked : TRUE
           scope  == RequiredGoogleScope(type)
           lone   == SingleAccount(evidence)
<1>1. lone \in AccountIds \cup {None}
  BY SingleAccountType
<1>2. scope \in Scopes
  BY DEF RequiredGoogleScope, Scopes
<1>3. linked # {} => /\ only \in AccountIds
                     /\ accounts[only].revision \in Nat
  BY DEF GoogleIds
<1> HIDE DEF linked, only, scope, lone
<1>4. \A mode \in Modes, provider \in {"google", "synthetic"},
         s \in Scopes \cup {None}, source \in AccountIds \cup {None} :
           Detached(mode, provider, s, source) \in Contexts
  BY DEF Detached, Contexts
<1>5. CASE type = "create_task"
  <2>1. ResolveExecutionContext(type, accounts, evidence)
          = Detached("simulation", "synthetic", None, lone)
    BY <1>5 DEF ResolveExecutionContext, lone
  <2> QED BY <2>1, <1>1, <1>4 DEF Modes
<1>6. CASE type # "create_task" /\ linked # {} /\ evidence # {only}
  <2>1. ResolveExecutionContext(type, accounts, evidence)
          = Detached("unavailable", "google", scope, None)
    BY <1>6 DEF ResolveExecutionContext, linked, only, scope
  <2> QED BY <2>1, <1>2, <1>4 DEF Modes
<1>7. CASE type # "create_task" /\ linked # {} /\ evidence = {only}
  <2>1. \/ ResolveExecutionContext(type, accounts, evidence)
             = Detached("unavailable", "google", scope, only)
        \/ ResolveExecutionContext(type, accounts, evidence)
             = [mode |-> "real", provider |-> "google", account |-> only,
                revision |-> accounts[only].revision, scope |-> scope, source |-> only]
    BY <1>7 DEF ResolveExecutionContext, linked, only, scope
  <2>2. [mode |-> "real", provider |-> "google", account |-> only,
         revision |-> accounts[only].revision, scope |-> scope, source |-> only] \in Contexts
    BY <1>2, <1>3, <1>7 DEF Contexts, Modes
  <2> QED BY <2>1, <2>2, <1>2, <1>3, <1>4, <1>7 DEF Modes
<1>8. CASE type # "create_task" /\ linked = {}
  <2>1. \/ ResolveExecutionContext(type, accounts, evidence)
             = Detached("simulation", "synthetic", None, lone)
        \/ ResolveExecutionContext(type, accounts, evidence)
             = Detached("unavailable", "synthetic", None, lone)
    BY <1>8 DEF ResolveExecutionContext, linked, lone
  <2> QED BY <2>1, <1>1, <1>4 DEF Modes
<1> QED BY <1>5, <1>6, <1>7, <1>8

LEMMA ContextType ==
  ASSUME AccountTypeOK, NEW p \in Proposals
  PROVE  CurrentContext(p) \in Contexts /\ DisplayedContext(p) \in Contexts
<1>1. TypeOf[p] \in ActionTypes /\ Evidence[p] \in SUBSET AccountIds
  BY TypesAndEvidence
<1>2. \A a \in DOMAIN Accounts : Accounts[a].revision \in Nat
  BY DEF Accounts, DemoRow, AccountTypeOK, Rows
<1>3. CurrentContext(p) \in Contexts
  BY <1>1, <1>2, ResolveType DEF CurrentContext
<1>4. DisplayedContext(p) \in Contexts
  BY <1>1, <1>2, ResolveType DEF DisplayedContext
<1> QED BY <1>3, <1>4

-----------------------------------------------------------------------------
(* Type correctness.                                                       *)

\* A request past its first step has a proposal and an approval in hand.
WorkersHaveJobs ==
  \A w \in Workers : worker[w].step # "idle" =>
    worker[w].job \in Proposals /\ worker[w].approval \in Approvals

TypeInv == TypeOK /\ WorkersHaveJobs

LEMMA InitTypeInv == Init => TypeInv
<1> SUFFICES ASSUME Init PROVE TypeInv
  OBVIOUS
<1>1. AccountTypeOK /\ accountLock = None
  BY DEF Init, InitAccount, AccountTypeOK, Rows, NoRow, Idle, AccountStatuses
<1>2. (CHOOSE y \in Payloads : TRUE) \in Payloads
  BY SomePayload
<1>3. proposal \in [Proposals -> ProposalRows]
  BY <1>2 DEF Init, ProposalRows, ProposalStatuses
<1>4. execution \in [Proposals -> ExecutionRows]
  BY DEF Init, ExecutionRows, Outcomes
<1>5. worker \in [Workers -> WorkerStates] /\ WorkersHaveJobs
  BY DEF Init, WorkersHaveJobs, WorkerStates, Steps, Results, Idling
<1>6. writes \in [Proposals -> Seq(Writes)]
  BY DEF Init
<1>7. /\ rowLock \in [Proposals -> Workers \cup {None}]
      /\ sweep \in SUBSET Proposals
      /\ screen \in [Proposals -> Displays \cup {None}]
      /\ listed \in [Proposals -> BOOLEAN]
      /\ clicks \in [Proposals -> SUBSET Displays]
  BY DEF Init
<1> QED BY <1>1, <1>3, <1>4, <1>5, <1>6, <1>7 DEF TypeInv, TypeOK

\* The account's own requests keep its type.
LEMMA AccountStepType ==
  ASSUME TypeInv, AccountNext, UNCHANGED proposalVars
  PROVE  TypeInv'
<1> USE DEF TypeInv, TypeOK, proposalVars
<1>1. AccountTypeOK' /\ accountLock' = accountLock
  <2> USE DEF AccountTypeOK, Rows, AccountStatuses, Idle, NoRow
  <2>1. ASSUME NEW h \in Handlers, NEW granted \in Grants, StoreTokensRead(h, granted)
        PROVE  AccountTypeOK' /\ accountLock' = accountLock
    <3>1. granted \in SUBSET Scopes
      BY GrantsAreScopes
    <3> QED BY <2>1, <3>1 DEF StoreTokensRead
  <2>2. ASSUME NEW h \in Handlers, InsertAccount(h)
        PROVE  AccountTypeOK' /\ accountLock' = accountLock
    <3>1. CASE account.status = "none"
      <4>1. handler[h].scopes \in SUBSET Scopes
        OBVIOUS
      <4>2. /\ account' = [status |-> "active", scopes |-> handler[h].scopes,
                          revision |-> 1, tokens |-> TRUE]
            /\ consents' = consents + 1
            /\ handler' = [handler EXCEPT ![h] = Idle]
            /\ accountLock' = accountLock
        BY <2>2, <3>1 DEF InsertAccount
      <4>3. account' \in Rows
        BY <4>1, <4>2
      <4> QED BY <4>2, <4>3
    <3>2. CASE account.status # "none"
      BY <2>2, <3>2 DEF InsertAccount
    <3> QED BY <3>1, <3>2
  <2>3. ASSUME NEW h \in Handlers, StoreTokensCommit(h)
        PROVE  AccountTypeOK' /\ accountLock' = accountLock
    BY <2>3 DEF StoreTokensCommit, Written
  <2>4. ASSUME NEW h \in Handlers, DisconnectRead(h)
        PROVE  AccountTypeOK' /\ accountLock' = accountLock
    BY <2>4 DEF DisconnectRead
  <2>5. ASSUME NEW h \in Handlers, DisconnectCommit(h)
        PROVE  AccountTypeOK' /\ accountLock' = accountLock
    BY <2>5 DEF DisconnectCommit, Written
  <2>6. ASSUME NEW h \in Handlers, HandlerCrash(h)
        PROVE  AccountTypeOK' /\ accountLock' = accountLock
    BY <2>6 DEF HandlerCrash
  <2>7. CASE RevokedBySync
    BY <2>7 DEF RevokedBySync
  <2> QED BY <2>1, <2>2, <2>3, <2>4, <2>5, <2>6, <2>7 DEF AccountNext
<1>2. WorkersHaveJobs'
  BY DEF WorkersHaveJobs
<1> QED BY <1>1, <1>2

\* An action that changes one variable only keeps the type if that
\* variable keeps its own.
LEMMA ProposalFrame ==
  ASSUME TypeInv, proposal' \in [Proposals -> ProposalRows],
         UNCHANGED <<execution, rowLock, worker, sweep, screen, listed, clicks, writes,
                     accountVars>>
  PROVE  TypeInv'
BY DEF TypeInv, TypeOK, accountVars, AccountTypeOK, WorkersHaveJobs

LEMMA ExecutionFrame ==
  ASSUME TypeInv, execution' \in [Proposals -> ExecutionRows], sweep' \in SUBSET Proposals,
         UNCHANGED <<proposal, rowLock, worker, screen, listed, clicks, writes, accountVars>>
  PROVE  TypeInv'
BY DEF TypeInv, TypeOK, accountVars, AccountTypeOK, WorkersHaveJobs

\* So do the single-step requests on a proposal.
LEMMA ProposalStepType ==
  ASSUME TypeInv, NEW p \in Proposals, ProposalStep(p)
  PROVE  TypeInv'
<1>1. CurrentContext(p) \in Contexts /\ DisplayedContext(p) \in Contexts
  BY ContextType DEF TypeInv, TypeOK
<1>a. proposal \in [Proposals -> ProposalRows] /\ execution \in [Proposals -> ExecutionRows]
  BY DEF TypeInv, TypeOK
<1>2. CASE ViewProposal(p)
  <2>1. proposal' \in [Proposals -> ProposalRows]
    BY <1>2, <1>a DEF ViewProposal, ProposalRows, ProposalStatuses
  <2>2. screen' \in [Proposals -> Displays \cup {None}]
    BY <1>1, <1>2, <1>a DEF ViewProposal, TypeInv, TypeOK, ProposalRows, Displays
  <2> QED BY <1>2, <2>1, <2>2
          DEF TypeInv, TypeOK, ViewProposal, accountVars, AccountTypeOK, WorkersHaveJobs
<1>3. CASE ExpireIfDue(p)
  <2>1. proposal' \in [Proposals -> ProposalRows]
    BY <1>3, <1>a DEF ExpireIfDue, ProposalRows, ProposalStatuses
  <2> QED BY <1>3, <2>1, ProposalFrame DEF ExpireIfDue
<1>4. CASE Reject(p)
  <2>1. proposal' \in [Proposals -> ProposalRows]
    BY <1>4, <1>a DEF Reject, ProposalRows, ProposalStatuses
  <2> QED BY <1>4, <2>1, ProposalFrame DEF Reject
<1>5. ASSUME NEW y \in Payloads, Edit(p, y) PROVE TypeInv'
  <2>1. proposal' \in [Proposals -> ProposalRows]
    BY <1>5, <1>a DEF Edit, ProposalRows, ProposalStatuses
  <2> QED BY <1>5, <2>1, ProposalFrame DEF Edit
<1>6. CASE Replay(p)
  <2>1. execution' \in [Proposals -> ExecutionRows]
    BY <1>6, <1>a DEF Replay, ExecutionRows, Outcomes
  <2> QED BY <1>6, <2>1, ExecutionFrame DEF Replay, TypeInv, TypeOK
<1>7. CASE Invalidate(p)
  <2>1. proposal' \in [Proposals -> ProposalRows]
    BY <1>7, <1>a DEF Invalidate, ProposalRows, ProposalStatuses
  <2> QED BY <1>7, <2>1, ProposalFrame DEF Invalidate
<1>8. CASE Lapse(p)
  <2>1. proposal' \in [Proposals -> ProposalRows]
    BY <1>8, <1>a DEF Lapse, ProposalRows
  <2> QED BY <1>8, <2>1, ProposalFrame DEF Lapse
<1>9. CASE Age(p)
  <2>1. execution' \in [Proposals -> ExecutionRows]
    BY <1>9, <1>a DEF Age, ExecutionRows
  <2> QED BY <1>9, <2>1, ExecutionFrame DEF Age, TypeInv, TypeOK
<1>10. CASE LeaveWindow(p)
  BY <1>10 DEF LeaveWindow, TypeInv, TypeOK, accountVars, AccountTypeOK, WorkersHaveJobs
<1> QED BY <1>2, <1>3, <1>4, <1>5, <1>6, <1>7, <1>8, <1>9, <1>10 DEF ProposalStep

\* Generation gives every row it reaches a legal status, version and payload.
LEMMA GeneratedType ==
  ASSUME proposal \in [Proposals -> ProposalRows], NEW p \in Proposals, NEW y \in Payloads
  PROVE  Generated(p, y) \in ProposalRows
<1>1. [proposal[p] EXCEPT !.status = "expired"] \in ProposalRows
  BY DEF ProposalRows, ProposalStatuses
<1>3. proposal[p].version + 1 \in Nat
  BY DEF ProposalRows
<1>4. \A n \in Nat : [proposal[p] EXCEPT !.payload = y, !.version = n] \in ProposalRows
  BY DEF ProposalRows
<1>2. [status |-> "proposed", version |-> 1, payload |-> y, due |-> FALSE,
       approval |-> None] \in ProposalRows
  BY DEF ProposalRows, ProposalStatuses
<1> QED BY <1>1, <1>2, <1>3, <1>4 DEF Generated

LEMMA GenerateType ==
  ASSUME TypeInv, NEW ranking \in Rankings, NEW offered \in [Proposals -> Payloads],
         Generate(ranking, offered)
  PROVE  TypeInv'
<1>1. proposal \in [Proposals -> ProposalRows]
  BY DEF TypeInv, TypeOK
<1>2. \A p \in Proposals : Generated(p, offered[p]) \in ProposalRows
  BY <1>1, GeneratedType
<1>3. proposal' \in [Proposals -> ProposalRows]
  BY <1>1, <1>2 DEF Generate
<1> QED BY <1>3, ProposalFrame DEF Generate

\* Approve and execute requests, step by step.
LEMMA BeginType ==
  ASSUME TypeInv, NEW w \in Workers, NEW p \in Proposals,
         ApproveBegin(w, p) \/ ExecuteBegin(w, p)
  PROVE  TypeInv'
<1> USE DEF TypeInv, TypeOK, accountVars, AccountTypeOK
<1>1. CASE ApproveBegin(w, p)
  <2> DEFINE snapshot == [version |-> proposal[p].version, payload |-> proposal[p].payload,
                          context |-> CurrentContext(p), consent |-> consents]
             shown == [version |-> proposal[p].version, payload |-> proposal[p].payload,
                       context |-> CurrentContext(p)]
  <2>1. CurrentContext(p) \in Contexts
    BY ContextType
  <2>2. snapshot \in Approvals /\ shown \in Displays
    BY <2>1 DEF Approvals, Displays, ProposalRows
  <2>3. worker' = [worker EXCEPT ![w] = [step |-> "approve", job |-> p, result |-> "none",
                                         approval |-> snapshot]]
    BY <1>1 DEF ApproveBegin
  <2> HIDE DEF snapshot
  <2>4. worker' \in [Workers -> WorkerStates] /\ WorkersHaveJobs'
    BY <2>2, <2>3 DEF WorkerStates, Steps, Results, WorkersHaveJobs
  <2>5. screen[p] \in Displays
    BY <1>1, <2>2 DEF ApproveBegin, Approvable
  <2>6. clicks' \in [Proposals -> SUBSET Displays]
    BY <1>1, <2>5 DEF ApproveBegin, Approvable
  <2> QED BY <1>1, <2>4, <2>6 DEF ApproveBegin
<1>2. CASE ExecuteBegin(w, p)
  <2>1. proposal[p].approval \in Approvals
    BY <1>2 DEF ExecuteBegin, Executable, ProposalRows
  <2>2. worker' \in [Workers -> WorkerStates] /\ WorkersHaveJobs'
    BY <1>2, <2>1 DEF ExecuteBegin, WorkerStates, Steps, Results, WorkersHaveJobs
  <2> QED BY <1>2, <2>2 DEF ExecuteBegin
<1> QED BY <1>1, <1>2

\* The updates those steps make, for any row.
LEMMA ProposalUpdate ==
  ASSUME proposal \in [Proposals -> ProposalRows], NEW q \in Proposals,
         NEW s \in ProposalStatuses, NEW snapshot \in Approvals
  PROVE  /\ [proposal EXCEPT ![q].status = s] \in [Proposals -> ProposalRows]
         /\ [proposal EXCEPT ![q].status = s, ![q].approval = snapshot]
              \in [Proposals -> ProposalRows]
BY DEF ProposalRows

LEMMA EndsEffect ==
  ASSUME worker \in [Workers -> WorkerStates], NEW w \in Workers, NEW result \in Results,
         Ends(w, result)
  PROVE  /\ worker' \in [Workers -> WorkerStates]
         /\ worker'[w].step = "finish" /\ worker'[w].result = result
         /\ worker'[w].job = worker[w].job /\ worker'[w].approval = worker[w].approval
         /\ \A v \in Workers : v # w => worker'[v] = worker[v]
<1>1. worker' \in [Workers -> WorkerStates]
  BY DEF Ends, WorkerStates, Steps
<1>2. /\ worker'[w].step = "finish" /\ worker'[w].result = result
      /\ worker'[w].job = worker[w].job /\ worker'[w].approval = worker[w].approval
  BY DEF Ends, WorkerStates
<1>3. \A v \in Workers : v # w => worker'[v] = worker[v]
  BY DEF Ends
<1> QED BY <1>1, <1>2, <1>3

LEMMA StepEffect ==
  ASSUME worker \in [Workers -> WorkerStates], NEW w \in Workers, NEW s \in Steps,
         worker' = [worker EXCEPT ![w].step = s]
  PROVE  /\ worker'[w].step = s
         /\ worker'[w].job = worker[w].job /\ worker'[w].approval = worker[w].approval
         /\ \A v \in Workers : v # w => worker'[v] = worker[v]
BY DEF WorkerStates

LEMMA ExecutionUpdate ==
  ASSUME execution \in [Proposals -> ExecutionRows], NEW q \in Proposals,
         NEW outcome \in Outcomes
  PROVE  [execution EXCEPT ![q].outcome = outcome] \in [Proposals -> ExecutionRows]
BY DEF ExecutionRows

LEMMA WritesUpdate ==
  ASSUME writes \in [Proposals -> Seq(Writes)], NEW q \in Proposals, NEW write \in Writes
  PROVE  [writes EXCEPT ![q] = Append(@, write)] \in [Proposals -> Seq(Writes)]
OBVIOUS

\* The steps of a request at work only move its own record; what it leaves
\* behind at each step is a legal row.
LEMMA WorkerStepType ==
  ASSUME TypeInv, NEW w \in Workers, WorkerStep(w)
  PROVE  TypeInv'
<1> USE DEF TypeInv, TypeOK, accountVars, AccountTypeOK
<1> DEFINE p == worker[w].job
           a == worker[w].approval
<1>1. worker[w].step # "idle" => p \in Proposals /\ a \in Approvals
  BY DEF WorkersHaveJobs
<1>2. Idling \in WorkerStates
  BY DEF Idling, WorkerStates, Steps, Results
<1>3. ASSUME NEW v \in Workers, worker' = [worker EXCEPT ![v] = Idling]
      PROVE  worker' \in [Workers -> WorkerStates] /\ WorkersHaveJobs'
  BY <1>2, <1>3 DEF WorkersHaveJobs, Idling
<1>4. ASSUME NEW s \in Steps, worker[w].step # "idle",
             worker' = [worker EXCEPT ![w].step = s]
      PROVE  worker' \in [Workers -> WorkerStates] /\ WorkersHaveJobs'
  BY <1>4 DEF WorkersHaveJobs, WorkerStates
<1>5. ASSUME NEW result \in Results, worker[w].step # "idle", Ends(w, result)
      PROVE  worker' \in [Workers -> WorkerStates] /\ WorkersHaveJobs'
  BY <1>5, EndsEffect DEF WorkersHaveJobs
<1>6. CASE ApproveCommit(w)
  <2>2. /\ p \in Proposals /\ a \in Approvals
        /\ proposal' = [proposal EXCEPT ![p].status = "approved", ![p].approval = a]
    BY <1>1, <1>6 DEF ApproveCommit
  <2> HIDE DEF p, a
  <2>1. proposal' \in [Proposals -> ProposalRows]
    BY <2>2, ProposalUpdate DEF ProposalStatuses
  <2> QED BY <1>3, <1>6, <2>1 DEF ApproveCommit
<1>7. CASE Checkpoint(w)
  <2>1. proposal' \in [Proposals -> ProposalRows]
    BY <1>1, <1>7, ProposalUpdate DEF Checkpoint, ProposalStatuses
  <2>2. execution' \in [Proposals -> ExecutionRows]
    BY <1>1, <1>7 DEF Checkpoint, ExecutionRows, Outcomes
  <2>3. worker[w].step # "idle" /\ worker' = [worker EXCEPT ![w].step = "started"]
    BY <1>7 DEF Checkpoint
  <2>4. worker' \in [Workers -> WorkerStates] /\ WorkersHaveJobs'
    BY <1>4, <2>3 DEF Steps
  <2> QED BY <1>7, <2>1, <2>2, <2>4 DEF Checkpoint
<1>8. CASE RunSimulated(w) \/ RefusedByRegistry(w)
  <2>1. worker' \in [Workers -> WorkerStates] /\ WorkersHaveJobs'
    BY <1>5, <1>8 DEF RunSimulated, RefusedByRegistry, Results
  <2> QED BY <1>8, <2>1 DEF RunSimulated, RefusedByRegistry
<1>9. CASE AcquireToken(w)
  <2>1. worker[w].step # "idle"
    BY <1>9 DEF AcquireToken
  <2>2. worker' \in [Workers -> WorkerStates] /\ WorkersHaveJobs'
    <3>1. \/ worker' = [worker EXCEPT ![w].step = "call"]
          \/ \E result \in {"failed", "revoked", "uncertain"} : Ends(w, result)
      BY <1>9 DEF AcquireToken
    <3>2. CASE worker' = [worker EXCEPT ![w].step = "call"]
      BY <1>4, <2>1, <3>2 DEF Steps
    <3>3. CASE \E result \in {"failed", "revoked", "uncertain"} : Ends(w, result)
      BY <1>5, <2>1, <3>3 DEF Results
    <3> QED BY <3>1, <3>2, <3>3
  <2> QED BY <1>9, <2>2 DEF AcquireToken
<1>10. CASE ProviderCall(w)
  <2>1. worker[w].step # "idle"
    BY <1>10 DEF ProviderCall
  <2>2. worker' \in [Workers -> WorkerStates] /\ WorkersHaveJobs'
    <3>1. \/ worker' = [worker EXCEPT ![w].step = "verify"]
          \/ \E result \in {"failed", "uncertain"} : Ends(w, result)
      BY <1>10 DEF ProviderCall
    <3>2. CASE worker' = [worker EXCEPT ![w].step = "verify"]
      BY <1>4, <2>1, <3>2 DEF Steps
    <3>3. CASE \E result \in {"failed", "uncertain"} : Ends(w, result)
      BY <1>5, <2>1, <3>3 DEF Results
    <3> QED BY <3>1, <3>2, <3>3
  <2> DEFINE write == [version |-> a.version, payload |-> a.payload, consent |-> a.consent]
  <2>3. write \in Writes
    BY <1>1, <2>1 DEF Approvals, Writes
  <2>5. p \in Proposals /\ (writes' = writes \/ writes' = [writes EXCEPT ![p] = Append(@, write)])
    BY <1>1, <1>10, <2>1 DEF ProviderCall
  <2>4. writes' \in [Proposals -> Seq(Writes)]
    <3> HIDE DEF write, p, a
    <3>1. writes \in [Proposals -> Seq(Writes)]
      OBVIOUS
    <3>2. [writes EXCEPT ![p] = Append(@, write)] \in [Proposals -> Seq(Writes)]
      BY <2>3, <2>5, <3>1, WritesUpdate
    <3> QED BY <2>5, <3>1, <3>2
  <2> QED BY <1>10, <2>2, <2>4 DEF ProviderCall
<1>11. CASE Verify(w)
  <2>1. worker' \in [Workers -> WorkerStates] /\ WorkersHaveJobs'
    BY <1>5, <1>11 DEF Verify, Results
  <2> QED BY <1>11, <2>1 DEF Verify
<1>12. CASE Finish(w)
  <2>1. p \in Proposals /\ a \in Approvals
    BY <1>1, <1>12 DEF Finish
  <2> DEFINE status == IF worker[w].result = "succeeded" THEN "executed"
                       ELSE IF worker[w].result \in {"failed", "revoked"} THEN "failed"
                       ELSE proposal[p].status
  <2>6. status \in ProposalStatuses
    BY <2>1 DEF ProposalRows, ProposalStatuses
  <2>7. proposal' = [proposal EXCEPT ![p].status = status]
    BY <1>12 DEF Finish
  <2> HIDE DEF status
  <2>2. proposal' \in [Proposals -> ProposalRows]
    BY <2>1, <2>6, <2>7, ProposalUpdate
  <2>3. (IF worker[w].result = "revoked" THEN "failed" ELSE worker[w].result) \in Outcomes
    BY DEF WorkerStates, Results, Outcomes
  <2>4. execution' \in [Proposals -> ExecutionRows]
    BY <1>12, <2>1, <2>3, ExecutionUpdate DEF Finish
  <2>5. account' \in Rows /\ accountLock' \in Workers \cup {None}
    BY <1>12 DEF Finish, Rows, AccountStatuses
  <2> QED BY <1>3, <1>12, <2>2, <2>4, <2>5 DEF Finish
<1> QED BY <1>6, <1>7, <1>8, <1>9, <1>10, <1>11, <1>12 DEF WorkerStep

LEMMA CrashType ==
  ASSUME TypeInv, NEW w \in Workers, Crash(w)
  PROVE  TypeInv'
<1> USE DEF TypeInv, TypeOK, AccountTypeOK
<1>1. Idling \in WorkerStates
  BY DEF Idling, WorkerStates, Steps, Results
<1>2. worker' \in [Workers -> WorkerStates] /\ WorkersHaveJobs'
  BY <1>1 DEF Crash, WorkersHaveJobs, Idling
<1> QED BY <1>2 DEF Crash

LEMMA SweepType ==
  ASSUME TypeInv, SweepSelect \/ SweepCommit \/ SweepCrash
  PROVE  TypeInv'
<1>1. CASE SweepSelect
  BY <1>1, ExecutionFrame DEF SweepSelect, StalePending, TypeInv, TypeOK
<1>2. CASE SweepCommit
  <2>1. execution' \in [Proposals -> ExecutionRows]
    BY <1>2 DEF SweepCommit, TypeInv, TypeOK, ExecutionRows, Outcomes
  <2> QED BY <1>2, <2>1, ExecutionFrame DEF SweepCommit
<1>3. CASE SweepCrash
  BY <1>3, ExecutionFrame DEF SweepCrash, TypeInv, TypeOK
<1> QED BY <1>1, <1>2, <1>3

LEMMA NextTypeInv == TypeInv /\ [Next]_vars => TypeInv'
<1> SUFFICES ASSUME TypeInv, [Next]_vars PROVE TypeInv'
  OBVIOUS
<1>1. CASE Next
  BY <1>1, GenerateType, ProposalStepType, BeginType, WorkerStepType, CrashType, SweepType,
     AccountStepType DEF Next
<1>2. CASE UNCHANGED vars
  BY <1>2 DEF vars, proposalVars, accountVars, TypeInv, TypeOK, AccountTypeOK, WorkersHaveJobs
<1> QED BY <1>1, <1>2

\* Every row, request and history variable keeps its type, and no request
\* works without a proposal and an approval.
THEOREM TypeCorrect == Spec => []TypeOK
<1>1. Spec => []TypeInv
  BY InitTypeInv, NextTypeInv, PTL DEF Spec
<1>2. TypeInv => TypeOK
  BY DEF TypeInv
<1> QED BY <1>1, <1>2, PTL

-----------------------------------------------------------------------------
(* The inductive invariant behind the safety properties.                   *)

\* approve and execute hold the row lock until they have committed.
HoldsRow(w) == worker[w].step \in {"approve", "checkpoint"}

\* Past its checkpoint, a request holds no row lock: what protects it is the
\* attempt it has committed.
Attempting(w) == worker[w].step \in {"started", "call", "verify", "finish"}

Refusing(w) == worker[w].step = "finish" /\ worker[w].result \in {"failed", "revoked"}

Reporting(w) == /\ worker[w].step = "finish" /\ worker[w].result = "succeeded"
                /\ worker[w].approval.context.mode = "real"

RowsLockedByJobs ==
  \A w \in Workers, p \in Proposals :
    rowLock[p] = w <=> HoldsRow(w) /\ worker[w].job = p

\* A committed attempt is what distinguishes the last three statuses.
AttemptsAreRecorded ==
  \A p \in Proposals :
    execution[p].outcome # "none" <=> proposal[p].status \in {"executing", "executed", "failed"}

\* Under the lock, what the request has read still holds.
ReadsStand ==
  \A w \in Workers :
    /\ worker[w].step = "approve" =>
         proposal[worker[w].job].status \in {"proposed", "edited"}
    /\ worker[w].step = "checkpoint" =>
         /\ proposal[worker[w].job].status = "approved"
         /\ worker[w].approval.version = proposal[worker[w].job].version
         /\ worker[w].approval.payload = proposal[worker[w].job].payload

\* Nobody changes a proposal while a request is attempting it.
AttemptsStand ==
  \A w \in Workers : Attempting(w) =>
    /\ proposal[worker[w].job].status = "executing"
    /\ proposal[worker[w].job].version = worker[w].approval.version
    /\ proposal[worker[w].job].payload = worker[w].approval.payload
    /\ execution[worker[w].job].approval = worker[w].approval

OneAttempt ==
  \A w, v \in Workers :
    w # v /\ Attempting(w) /\ Attempting(v) => worker[w].job # worker[v].job

\* What a request knows of Google is true.
KnowsItsWrite ==
  \A w \in Workers :
    /\ worker[w].step \in {"started", "call"} \/ Refusing(w) => writes[worker[w].job] = <<>>
    /\ worker[w].step = "verify" \/ Reporting(w) => writes[worker[w].job] # <<>>
    /\ worker[w].step = "finish" => worker[w].result # "none"

\* The account row is locked, and says what was approved, around the call.
AccountIsHeld ==
  \A w \in Workers :
    /\ worker[w].step \in {"call", "verify"} => accountLock = w
    /\ worker[w].step = "finish" /\ worker[w].result = "revoked" => accountLock = w
    /\ worker[w].step = "call" => StillApproved(w)

SweepIsRecorded == \A p \in sweep : execution[p].outcome # "none"

ExecutionInv ==
  /\ RowsLockedByJobs /\ AttemptsAreRecorded /\ SweepIsRecorded /\ ReadsStand /\ AttemptsStand
  /\ OneAttempt /\ KnowsItsWrite /\ AccountIsHeld
  /\ AtMostOneWrite /\ RecordIsTruthful

LEMMA InitExecutionInv == Init => ExecutionInv
<1> SUFFICES ASSUME Init PROVE ExecutionInv
  OBVIOUS
<1>1. \A w \in Workers : worker[w].step = "idle"
  BY DEF Init, Idling
<1>2. \A p \in Proposals : /\ rowLock[p] = None /\ writes[p] = <<>> /\ sweep = {}
                           /\ proposal[p].status = "absent" /\ execution[p].outcome = "none"
  BY DEF Init
<1>3. RowsLockedByJobs
  BY <1>1, <1>2, NoneIsNoWorker DEF RowsLockedByJobs, HoldsRow
<1>4. AttemptsAreRecorded /\ SweepIsRecorded /\ AtMostOneWrite /\ RecordIsTruthful
  BY <1>2 DEF AttemptsAreRecorded, SweepIsRecorded, AtMostOneWrite, RecordIsTruthful,
              HasWritten, Init
<1>5. ReadsStand /\ AttemptsStand /\ OneAttempt /\ KnowsItsWrite /\ AccountIsHeld
  BY <1>1 DEF ReadsStand, AttemptsStand, OneAttempt, KnowsItsWrite, AccountIsHeld,
              Attempting, Refusing, Reporting
<1> QED BY <1>3, <1>4, <1>5 DEF ExecutionInv

\* Generation, expiry and the user's requests touch no locked row and no
\* attempt; Lapse touches what none of this looks at.
LEMMA ProposalChange ==
  ASSUME TypeInv, ExecutionInv, TypeInv',
         UNCHANGED <<execution, rowLock, worker, sweep, writes, accountVars>>,
         \A p \in Proposals :
           \/ /\ proposal'[p].status = proposal[p].status
              /\ proposal'[p].version = proposal[p].version
              /\ proposal'[p].payload = proposal[p].payload
           \/ /\ rowLock[p] = None
              /\ proposal[p].status \in Active \cup {"absent"}
              /\ proposal'[p].status \in Active \cup {"expired", "rejected"}
  PROVE  ExecutionInv'
<1> USE DEF ExecutionInv
<1>1. \A w \in Workers : worker[w].step # "idle" => worker[w].job \in Proposals
  BY DEF TypeInv, WorkersHaveJobs
<1>2. (RowsLockedByJobs /\ SweepIsRecorded /\ OneAttempt /\ KnowsItsWrite /\ AtMostOneWrite)'
  BY DEF RowsLockedByJobs, SweepIsRecorded, OneAttempt, KnowsItsWrite, AtMostOneWrite,
         HoldsRow, Attempting, Refusing, Reporting
<1>3. AttemptsAreRecorded'
  BY DEF AttemptsAreRecorded, Active
<1>4. ReadsStand'
  BY <1>1, NoneIsNoWorker DEF ReadsStand, RowsLockedByJobs, HoldsRow
<1>5. AttemptsStand'
  BY <1>1 DEF AttemptsStand, Attempting, Active
<1>6. AccountIsHeld'
  BY DEF AccountIsHeld, StillApproved, accountVars
<1>7. RecordIsTruthful'
  BY DEF RecordIsTruthful, HasWritten, Active
<1> QED BY <1>2, <1>3, <1>4, <1>5, <1>6, <1>7

\* The sweep, replays and time change no more than how an attempt is judged.
LEMMA ExecutionChange ==
  ASSUME TypeInv, ExecutionInv,
         UNCHANGED <<proposal, rowLock, worker, writes, accountVars>>,
         \A p \in Proposals :
           /\ execution'[p].approval = execution[p].approval
           /\ execution'[p].outcome = "none" <=> execution[p].outcome = "none",
         sweep' \in SUBSET Proposals,
         \A p \in sweep' : p \in sweep \/ execution[p].outcome = "pending"
  PROVE  ExecutionInv'
<1> USE DEF ExecutionInv
<1>1. \A w \in Workers : worker[w].step # "idle" => worker[w].job \in Proposals
  BY DEF TypeInv, WorkersHaveJobs
<1>2. (RowsLockedByJobs /\ ReadsStand /\ OneAttempt /\ KnowsItsWrite /\ AtMostOneWrite)'
  BY DEF RowsLockedByJobs, ReadsStand, OneAttempt, KnowsItsWrite, AtMostOneWrite,
         HoldsRow, Attempting, Refusing, Reporting
<1>3. AttemptsAreRecorded'
  BY DEF AttemptsAreRecorded
<1>4. SweepIsRecorded'
  BY DEF SweepIsRecorded
<1>5. AttemptsStand'
  BY <1>1 DEF AttemptsStand, Attempting
<1>6. AccountIsHeld'
  BY DEF AccountIsHeld, StillApproved, accountVars
<1>7. RecordIsTruthful'
  BY DEF RecordIsTruthful, HasWritten
<1> QED BY <1>2, <1>3, <1>4, <1>5, <1>6, <1>7

\* Consents, disconnects and revocations wait for the account row.
LEMMA AccountChange ==
  ASSUME TypeInv, ExecutionInv, AccountNext, UNCHANGED proposalVars
  PROVE  ExecutionInv'
<1> USE DEF ExecutionInv, proposalVars
<1>1. accountLock' = accountLock
  BY DEF AccountNext, StoreTokensRead, InsertAccount, StoreTokensCommit, DisconnectRead,
         DisconnectCommit, HandlerCrash, RevokedBySync
<1>2. account' = account \/ accountLock = None \/ account.status = "none"
  BY DEF AccountNext, StoreTokensRead, InsertAccount, StoreTokensCommit, DisconnectRead,
         DisconnectCommit, HandlerCrash, RevokedBySync
<1>3. AccountIsHeld'
  BY <1>1, <1>2, NoneIsNoWorker DEF AccountIsHeld, StillApproved
<1>4. (RowsLockedByJobs /\ ReadsStand /\ OneAttempt /\ KnowsItsWrite /\ AtMostOneWrite
       /\ AttemptsAreRecorded /\ SweepIsRecorded /\ AttemptsStand /\ RecordIsTruthful)'
  BY DEF RowsLockedByJobs, ReadsStand, OneAttempt, KnowsItsWrite, AtMostOneWrite,
         HoldsRow, Attempting, Refusing, Reporting, AttemptsAreRecorded, SweepIsRecorded,
         AttemptsStand, RecordIsTruthful, HasWritten
<1> QED BY <1>3, <1>4

LEMMA ProposalStepInv ==
  ASSUME TypeInv, ExecutionInv, TypeInv', NEW p \in Proposals, ProposalStep(p)
  PROVE  ExecutionInv'
<1>1. /\ proposal \in [Proposals -> ProposalRows] /\ execution \in [Proposals -> ExecutionRows]
      /\ sweep \in SUBSET Proposals
  BY DEF TypeInv, TypeOK
<1>2. CASE ViewProposal(p)
  <2>1. \A q \in Proposals :
          \/ proposal'[q] = proposal[q]
          \/ /\ rowLock[q] = None /\ proposal[q].status \in Active
             /\ proposal'[q].status = "expired"
    BY <1>1, <1>2 DEF ViewProposal, Due, ProposalRows
  <2> QED BY <1>2, <2>1, ProposalChange DEF ViewProposal
<1>3. CASE ExpireIfDue(p)
  <2>1. /\ rowLock[p] = None /\ proposal[p].status \in Active
        /\ proposal'[p].status = "expired"
        /\ \A q \in Proposals : q # p => proposal'[q] = proposal[q]
    BY <1>1, <1>3 DEF ExpireIfDue, Due, ProposalRows
  <2> QED BY <1>3, <2>1, ProposalChange DEF ExpireIfDue
<1>4. CASE Reject(p)
  <2>1. /\ rowLock[p] = None /\ proposal[p].status \in Active
        /\ proposal'[p].status = "rejected"
        /\ \A q \in Proposals : q # p => proposal'[q] = proposal[q]
    BY <1>1, <1>4 DEF Reject, Changeable, ProposalRows
  <2> QED BY <1>4, <2>1, ProposalChange DEF Reject
<1>5. ASSUME NEW y \in Payloads, Edit(p, y) PROVE ExecutionInv'
  <2>1. /\ rowLock[p] = None /\ proposal[p].status \in Active
        /\ proposal'[p].status = "edited"
        /\ \A q \in Proposals : q # p => proposal'[q] = proposal[q]
    BY <1>1, <1>5 DEF Edit, Changeable, ProposalRows
  <2> QED BY <1>5, <2>1, ProposalChange DEF Edit, Active
<1>6. CASE Replay(p)
  <2>1. /\ execution[p].outcome = "pending" /\ execution'[p].outcome = "uncertain"
        /\ execution'[p].approval = execution[p].approval
        /\ \A q \in Proposals : q # p => execution'[q] = execution[q]
    BY <1>1, <1>6 DEF Replay, ExecutionRows
  <2>2. UNCHANGED <<proposal, rowLock, worker, sweep, writes, accountVars>>
    BY <1>6 DEF Replay
  <2> QED BY <1>1, <2>1, <2>2, ExecutionChange
<1>7. CASE Invalidate(p)
  <2>1. /\ rowLock[p] = None /\ proposal[p].status \in Active
        /\ proposal'[p].status = "edited"
        /\ \A q \in Proposals : q # p => proposal'[q] = proposal[q]
    BY <1>1, <1>7 DEF Invalidate, Executable, Active, ProposalRows
  <2> QED BY <1>7, <2>1, ProposalChange DEF Invalidate, Active
<1>8. CASE Lapse(p)
  <2>1. /\ proposal'[p].status = proposal[p].status
        /\ proposal'[p].version = proposal[p].version
        /\ proposal'[p].payload = proposal[p].payload
        /\ \A q \in Proposals : q # p => proposal'[q] = proposal[q]
    BY <1>1, <1>8 DEF Lapse, ProposalRows
  <2> QED BY <1>8, <2>1, ProposalChange DEF Lapse
<1>9. CASE Age(p)
  <2>1. /\ execution'[p].outcome = execution[p].outcome
        /\ execution'[p].approval = execution[p].approval
        /\ \A q \in Proposals : q # p => execution'[q] = execution[q]
    BY <1>1, <1>9 DEF Age, ExecutionRows
  <2>2. UNCHANGED <<proposal, rowLock, worker, sweep, writes, accountVars>>
    BY <1>9 DEF Age
  <2> QED BY <1>1, <2>1, <2>2, ExecutionChange
<1>10. CASE LeaveWindow(p)
  BY <1>10, ProposalChange DEF LeaveWindow
<1> QED BY <1>2, <1>3, <1>4, <1>5, <1>6, <1>7, <1>8, <1>9, <1>10 DEF ProposalStep

LEMMA GenerateInv ==
  ASSUME TypeInv, ExecutionInv, TypeInv', NEW ranking \in Rankings,
         NEW offered \in [Proposals -> Payloads], Generate(ranking, offered)
  PROVE  ExecutionInv'
<1>1. proposal \in [Proposals -> ProposalRows]
  BY DEF TypeInv, TypeOK
<1>2. ASSUME NEW p \in Proposals, NEW y \in Payloads
      PROVE  \/ Generated(p, y) = proposal[p]
             \/ /\ proposal[p].status \in Active \cup {"absent"}
                /\ Generated(p, y).status \in {"proposed", "expired"}
  <2>1. [proposal[p] EXCEPT !.status = "expired"].status = "expired"
    BY <1>1 DEF ProposalRows
  <2>2. \A n \in Nat : [proposal[p] EXCEPT !.payload = y, !.version = n].status
                        = proposal[p].status
    BY <1>1 DEF ProposalRows
  <2>3. proposal[p].version + 1 \in Nat
    BY <1>1 DEF ProposalRows
  <2> QED BY <2>1, <2>2, <2>3 DEF Generated, Due, Active
<1>3. \A p \in Proposals :
        \/ proposal'[p] = proposal[p]
        \/ /\ rowLock[p] = None
           /\ proposal[p].status \in Active \cup {"absent"}
           /\ proposal'[p].status \in {"proposed", "expired"}
  BY <1>2 DEF Generate
<1> QED BY <1>3, ProposalChange DEF Generate, Active

LEMMA SweepInv ==
  ASSUME TypeInv, ExecutionInv, SweepSelect \/ SweepCommit \/ SweepCrash
  PROVE  ExecutionInv'
<1>1. execution \in [Proposals -> ExecutionRows] /\ sweep \in SUBSET Proposals
  BY DEF TypeInv, TypeOK
<1>2. CASE SweepSelect
  BY <1>1, <1>2, ExecutionChange DEF SweepSelect, StalePending
<1>3. CASE SweepCommit
  <2>1. \A p \in Proposals :
          /\ execution'[p].approval = execution[p].approval
          /\ execution'[p].outcome = "none" <=> execution[p].outcome = "none"
    <3> TAKE p \in Proposals
    <3>1. CASE p \in sweep
      <4>1. execution[p].outcome # "none"
        BY <3>1 DEF ExecutionInv, SweepIsRecorded
      <4>2. execution'[p] = [execution[p] EXCEPT !.outcome = "uncertain"]
        BY <1>3, <3>1 DEF SweepCommit
      <4>3. /\ execution'[p].outcome = "uncertain"
            /\ execution'[p].approval = execution[p].approval
        BY <1>1, <4>2 DEF ExecutionRows
      <4> QED BY <4>1, <4>3
    <3>2. CASE p \notin sweep
      BY <1>3, <3>2 DEF SweepCommit
    <3> QED BY <3>1, <3>2
  <2>2. sweep' = {} /\ UNCHANGED <<proposal, rowLock, worker, writes, accountVars>>
    BY <1>3 DEF SweepCommit
  <2> QED BY <2>1, <2>2, ExecutionChange
<1>4. CASE SweepCrash
  BY <1>1, <1>4, ExecutionChange DEF SweepCrash
<1> QED BY <1>2, <1>3, <1>4

\* A request begins: it locks the row, and what it has read is the row.
LEMMA BeginInv ==
  ASSUME TypeInv, ExecutionInv, NEW w \in Workers, NEW p \in Proposals,
         ApproveBegin(w, p) \/ ExecuteBegin(w, p)
  PROVE  ExecutionInv'
<1> USE DEF ExecutionInv
<1>1. /\ worker \in [Workers -> WorkerStates]
      /\ rowLock \in [Proposals -> Workers \cup {None}]
      /\ \A v \in Workers : worker[v].step # "idle" => worker[v].job \in Proposals
  BY DEF TypeInv, TypeOK, WorkersHaveJobs
<1>2. /\ worker[w].step = "idle" /\ rowLock[p] = None
      /\ rowLock' = [rowLock EXCEPT ![p] = w]
      /\ worker'[w].job = p /\ worker'[w].step \in {"approve", "checkpoint"}
      /\ \A v \in Workers : v # w => worker'[v] = worker[v]
      /\ UNCHANGED <<proposal, execution, sweep, writes, accountVars>>
  <2>1. CASE ApproveBegin(w, p)
    <3> DEFINE next == [step |-> "approve", job |-> p, result |-> "none",
                        approval |-> [version |-> proposal[p].version,
                                      payload |-> proposal[p].payload,
                                      context |-> CurrentContext(p), consent |-> consents]]
    <3>1. worker' = [worker EXCEPT ![w] = next] /\ next.step = "approve" /\ next.job = p
      BY <2>1 DEF ApproveBegin, Approvable
    <3> HIDE DEF next
    <3> QED BY <1>1, <2>1, <3>1 DEF ApproveBegin
  <2>2. CASE ExecuteBegin(w, p)
    <3> DEFINE next == [step |-> "checkpoint", job |-> p, result |-> "none",
                        approval |-> proposal[p].approval]
    <3>1. worker' = [worker EXCEPT ![w] = next] /\ next.step = "checkpoint" /\ next.job = p
      BY <2>2 DEF ExecuteBegin
    <3> HIDE DEF next
    <3> QED BY <1>1, <2>2, <3>1 DEF ExecuteBegin, Executable
  <2> QED BY <2>1, <2>2
<1>3. /\ worker'[w].step = "approve" => proposal[p].status \in {"proposed", "edited"}
      /\ worker'[w].step = "checkpoint" =>
           /\ proposal[p].status = "approved"
           /\ worker'[w].approval.version = proposal[p].version
           /\ worker'[w].approval.payload = proposal[p].payload
  BY <1>1 DEF ApproveBegin, Approvable, ExecuteBegin, Executable
<1>4. RowsLockedByJobs'
  BY <1>1, <1>2, NoneIsNoWorker DEF RowsLockedByJobs, HoldsRow
<1>5. ReadsStand'
  BY <1>1, <1>2, <1>3 DEF ReadsStand
<1>6. (AttemptsStand /\ OneAttempt /\ KnowsItsWrite)'
  BY <1>2 DEF AttemptsStand, OneAttempt, KnowsItsWrite, Attempting, Refusing, Reporting
<1>7. AccountIsHeld'
  BY <1>2 DEF AccountIsHeld, StillApproved, accountVars
<1>8. (AttemptsAreRecorded /\ SweepIsRecorded /\ AtMostOneWrite /\ RecordIsTruthful)'
  BY <1>2 DEF AttemptsAreRecorded, SweepIsRecorded, AtMostOneWrite, RecordIsTruthful, HasWritten
<1> QED BY <1>4, <1>5, <1>6, <1>7, <1>8

\* A request at its attempt moves on without touching a row.
LEMMA AttemptMoves ==
  ASSUME TypeInv, ExecutionInv, NEW w \in Workers, Attempting(w), Attempting(w)',
         worker'[w].job = worker[w].job, worker'[w].approval = worker[w].approval,
         \A v \in Workers : v # w => worker'[v] = worker[v],
         UNCHANGED <<proposal, execution, rowLock, sweep, writes, account>>,
         accountLock' = accountLock \/ (accountLock = None /\ accountLock' = w),
         worker'[w].step \in {"started", "call"} \/ Refusing(w)'
           => writes[worker[w].job] = <<>>,
         worker'[w].step = "verify" \/ Reporting(w)' => writes[worker[w].job] # <<>>,
         worker'[w].step = "finish" => worker'[w].result # "none",
         worker'[w].step \in {"call", "verify"} => accountLock' = w,
         worker'[w].step = "finish" /\ worker'[w].result = "revoked" => accountLock' = w,
         worker'[w].step = "call" => StillApproved(w)
  PROVE  ExecutionInv'
<1> USE DEF ExecutionInv
<1>1. worker[w].job \in Proposals
  BY DEF TypeInv, WorkersHaveJobs, Attempting
<1>2. (RowsLockedByJobs /\ ReadsStand)'
  BY DEF RowsLockedByJobs, ReadsStand, HoldsRow, Attempting
<1>3. (AttemptsStand /\ OneAttempt)'
  BY DEF AttemptsStand, OneAttempt, Attempting
<1>4. KnowsItsWrite'
  BY DEF KnowsItsWrite, Refusing, Reporting
<1>5. AccountIsHeld'
  <2> SUFFICES ASSUME NEW v \in Workers
               PROVE  /\ worker'[v].step \in {"call", "verify"} => accountLock' = v
                      /\ worker'[v].step = "finish" /\ worker'[v].result = "revoked"
                           => accountLock' = v
                      /\ worker'[v].step = "call" => StillApproved(v)'
    BY DEF AccountIsHeld
  <2>1. CASE v = w
    BY <2>1 DEF StillApproved
  <2>2. CASE v # w
    BY <2>2, NoneIsNoWorker DEF AccountIsHeld, StillApproved
  <2> QED BY <2>1, <2>2
<1>6. (AttemptsAreRecorded /\ SweepIsRecorded /\ AtMostOneWrite /\ RecordIsTruthful)'
  BY DEF AttemptsAreRecorded, SweepIsRecorded, AtMostOneWrite, RecordIsTruthful, HasWritten
<1> QED BY <1>2, <1>3, <1>4, <1>5, <1>6

LEMMA WriteEffect ==
  ASSUME writes \in [Proposals -> Seq(Writes)], NEW q \in Proposals, NEW write \in Writes,
         writes[q] = <<>>, writes' = [writes EXCEPT ![q] = Append(@, write)]
  PROVE  /\ Len(writes'[q]) <= 1 /\ writes'[q][1] = write /\ writes'[q] # <<>>
         /\ \A p \in Proposals : p # q => writes'[p] = writes[p]
OBVIOUS

\* Every step of an executor call but the write itself is such a move.
LEMMA ExecutorInv ==
  ASSUME TypeInv, ExecutionInv, NEW w \in Workers,
         \/ RunSimulated(w) \/ RefusedByRegistry(w) \/ AcquireToken(w) \/ Verify(w)
         \/ ProviderCall(w) /\ UNCHANGED writes
  PROVE  ExecutionInv'
<1>1. /\ worker \in [Workers -> WorkerStates]
      /\ worker[w].step # "idle" => worker[w].job \in Proposals
  BY DEF TypeInv, TypeOK, WorkersHaveJobs
<1>3. KnowsItsWrite /\ AccountIsHeld
  BY DEF ExecutionInv
<1>4. CASE RunSimulated(w)
  <2>1. Ends(w, "succeeded") /\ worker[w].approval.context.mode # "real"
    BY <1>4 DEF RunSimulated
  <2> QED BY <1>1, <1>4, <2>1, EndsEffect, AttemptMoves
          DEF RunSimulated, accountVars, Attempting, Refusing, Reporting, Results
<1>5. CASE RefusedByRegistry(w)
  BY <1>1, <1>3, <1>5, EndsEffect, AttemptMoves
     DEF RefusedByRegistry, accountVars, Attempting, Refusing, Reporting, Results, KnowsItsWrite
<1>6. CASE AcquireToken(w)
  <2>1. writes[worker[w].job] = <<>>
    BY <1>3, <1>6 DEF AcquireToken, KnowsItsWrite
  <2>2. CASE worker' = [worker EXCEPT ![w].step = "call"] /\ StillApproved(w)
    BY <1>1, <1>6, <2>1, <2>2, StepEffect, AttemptMoves
       DEF AcquireToken, Attempting, Refusing, Reporting, Steps
  <2>3. ASSUME NEW result \in {"failed", "revoked", "uncertain"}, Ends(w, result)
        PROVE  ExecutionInv'
    BY <1>1, <1>6, <2>1, <2>3, EndsEffect, AttemptMoves
       DEF AcquireToken, Attempting, Refusing, Reporting, Results
  <2> QED BY <1>6, <2>2, <2>3 DEF AcquireToken
<1>7. CASE Verify(w)
  <2>1. writes[worker[w].job] # <<>>
    BY <1>3, <1>7 DEF Verify, KnowsItsWrite
  <2>2. PICK result \in {"succeeded", "uncertain"} : Ends(w, result)
    BY <1>7 DEF Verify
  <2> QED BY <1>1, <1>7, <2>1, <2>2, EndsEffect, AttemptMoves
          DEF Verify, accountVars, Attempting, Refusing, Reporting, Results
<1>8. CASE ProviderCall(w) /\ UNCHANGED writes
  <2>1. writes[worker[w].job] = <<>>
    BY <1>3, <1>8 DEF ProviderCall, KnowsItsWrite
  <2> DEFINE write == [version |-> worker[w].approval.version,
                       payload |-> worker[w].approval.payload,
                       consent |-> worker[w].approval.consent]
  <2>4. write \in Writes /\ worker[w].job \in Proposals /\ writes \in [Proposals -> Seq(Writes)]
    BY <1>1, <1>8 DEF ProviderCall, TypeInv, TypeOK, WorkersHaveJobs, Approvals, Writes
  <2>2. writes' # [writes EXCEPT ![worker[w].job] = Append(@, write)]
    <3> HIDE DEF write
    <3> QED BY <1>8, <2>1, <2>4, WriteEffect
  <2>3. PICK result \in {"failed", "uncertain"} : Ends(w, result)
    BY <1>8, <2>2 DEF ProviderCall
  <2> QED BY <1>1, <1>8, <2>1, <2>3, EndsEffect, AttemptMoves
          DEF ProviderCall, accountVars, Attempting, Refusing, Reporting, Results
<1> QED BY <1>4, <1>5, <1>6, <1>7, <1>8

\* The write itself: the attempt it belongs to is the only one, and nothing
\* has been written for it.
LEMMA WriteInv ==
  ASSUME TypeInv, ExecutionInv, NEW w \in Workers, ProviderCall(w), writes' # writes
  PROVE  ExecutionInv'
<1> DEFINE p == worker[w].job
           a == worker[w].approval
           write == [version |-> a.version, payload |-> a.payload, consent |-> a.consent]
<1>1. /\ worker \in [Workers -> WorkerStates]
      /\ writes \in [Proposals -> Seq(Writes)]
      /\ worker[w].step = "call" /\ p \in Proposals /\ a \in Approvals
      /\ \A v \in Workers : worker[v].step # "idle" => worker[v].job \in Proposals
  BY DEF TypeInv, TypeOK, WorkersHaveJobs, ProviderCall
<1>2. write \in Writes
  BY <1>1 DEF Approvals, Writes
<1>3. /\ writes' = [writes EXCEPT ![p] = Append(@, write)]
      /\ worker' = [worker EXCEPT ![w].step = "verify"] \/ Ends(w, "uncertain")
      /\ UNCHANGED <<proposal, execution, rowLock, sweep, account, accountLock>>
  BY DEF ProviderCall, accountVars
<1>4. /\ \/ worker'[w].step = "verify"
         \/ worker'[w].step = "finish" /\ worker'[w].result = "uncertain"
      /\ worker'[w].job = p /\ worker'[w].approval = a
      /\ \A v \in Workers : v # w => worker'[v] = worker[v]
  <2>1. CASE worker' = [worker EXCEPT ![w].step = "verify"]
    BY <1>1, <2>1, StepEffect DEF Steps
  <2>2. CASE Ends(w, "uncertain")
    BY <1>1, <2>2, EndsEffect DEF Results
  <2> QED BY <1>3, <2>1, <2>2
<1>5. writes[p] = <<>>
  BY <1>1 DEF ExecutionInv, KnowsItsWrite
<1>6. /\ Len(writes'[p]) <= 1 /\ writes'[p][1] = write /\ writes'[p] # <<>>
      /\ \A q \in Proposals : q # p => writes'[q] = writes[q]
  <2> HIDE DEF p, write
  <2> QED BY <1>1, <1>2, <1>3, <1>5, WriteEffect
<1>7. /\ proposal[p].status = "executing"
      /\ proposal[p].version = a.version /\ proposal[p].payload = a.payload
      /\ execution[p].approval = a
      /\ \A v \in Workers : v # w /\ Attempting(v) => worker[v].job # p
  BY <1>1 DEF ExecutionInv, AttemptsStand, OneAttempt, Attempting
<1>8. write.version = proposal[p].version /\ write.payload = proposal[p].payload
  BY <1>7
<1> HIDE DEF p, a, write
<1>15. /\ worker'[w].step \in {"verify", "finish"}
       /\ worker'[w].job = p /\ worker'[w].approval = a
       /\ \A v \in Workers : v # w => worker'[v] = worker[v]
       /\ worker[w].job = p /\ worker[w].approval = a
  BY <1>4 DEF p, a
<1>9. (RowsLockedByJobs /\ ReadsStand /\ AttemptsAreRecorded /\ SweepIsRecorded)'
  <2>1. (AttemptsAreRecorded /\ SweepIsRecorded)'
    BY <1>3 DEF ExecutionInv, AttemptsAreRecorded, SweepIsRecorded
  <2>2. RowsLockedByJobs'
    BY <1>1, <1>3, <1>15 DEF ExecutionInv, RowsLockedByJobs, HoldsRow
  <2>3. ReadsStand'
    BY <1>1, <1>3, <1>15 DEF ExecutionInv, ReadsStand
  <2> QED BY <2>1, <2>2, <2>3
<1>10. (AttemptsStand /\ OneAttempt)'
  <2>1. AttemptsStand'
    BY <1>1, <1>3, <1>7, <1>15 DEF ExecutionInv, AttemptsStand, Attempting
  <2>2. OneAttempt'
    BY <1>1, <1>3, <1>7, <1>15 DEF ExecutionInv, OneAttempt, Attempting
  <2> QED BY <2>1, <2>2
<1>11. KnowsItsWrite'
  BY <1>1, <1>4, <1>6, <1>7 DEF ExecutionInv, KnowsItsWrite, Refusing, Reporting, Attempting
<1>12. AccountIsHeld'
  BY <1>1, <1>3, <1>4 DEF ExecutionInv, AccountIsHeld, StillApproved
<1>13. AtMostOneWrite'
  <2> SUFFICES ASSUME NEW q \in Proposals PROVE Len(writes'[q]) <= 1
    BY DEF AtMostOneWrite
  <2>1. CASE q = p
    BY <1>6, <2>1
  <2>2. CASE q # p
    BY <1>6, <2>2 DEF ExecutionInv, AtMostOneWrite
  <2> QED BY <2>1, <2>2
<1>14. RecordIsTruthful'
  <2>1. execution[p].outcome # "none"
    BY <1>1, <1>7 DEF ExecutionInv, AttemptsAreRecorded
  <2> QED BY <1>1, <1>3, <1>6, <1>7, <1>8, <2>1 DEF ExecutionInv, RecordIsTruthful, HasWritten
<1> QED BY <1>9, <1>10, <1>11, <1>12, <1>13, <1>14 DEF ExecutionInv

\* Nobody else works on a proposal whose row a request holds.
LEMMA LockedAlone ==
  ASSUME TypeInv, ExecutionInv, NEW w \in Workers, HoldsRow(w)
  PROVE  \A v \in Workers : v # w /\ worker[v].step # "idle" => worker[v].job # worker[w].job
<1>1. /\ worker[w].job \in Proposals
      /\ rowLock[worker[w].job] = w
      /\ proposal[worker[w].job].status # "executing"
  BY DEF TypeInv, WorkersHaveJobs, ExecutionInv, RowsLockedByJobs, ReadsStand, HoldsRow
<1> SUFFICES ASSUME NEW v \in Workers, v # w, worker[v].step # "idle",
                    worker[v].job = worker[w].job
             PROVE  FALSE
  OBVIOUS
<1>2. CASE HoldsRow(v)
  BY <1>1, <1>2 DEF ExecutionInv, RowsLockedByJobs
<1>3. CASE Attempting(v)
  BY <1>1, <1>3 DEF ExecutionInv, AttemptsStand
<1>4. worker[v].step \in Steps
  BY DEF TypeInv, TypeOK, WorkerStates
<1> QED BY <1>2, <1>3, <1>4 DEF HoldsRow, Attempting, Steps

LEMMA WorkerLeaves ==
  ASSUME worker \in [Workers -> WorkerStates], NEW w \in Workers,
         worker' = [worker EXCEPT ![w] = Idling]
  PROVE  /\ worker'[w].step = "idle"
         /\ \A v \in Workers : v # w => worker'[v] = worker[v]
BY DEF Idling

LEMMA ApproveCommitInv ==
  ASSUME TypeInv, ExecutionInv, NEW w \in Workers, ApproveCommit(w)
  PROVE  ExecutionInv'
<1> DEFINE p == worker[w].job
           a == worker[w].approval
<1>1. /\ worker[w].step = "approve" /\ p \in Proposals /\ a \in Approvals
      /\ proposal \in [Proposals -> ProposalRows]
      /\ rowLock \in [Proposals -> Workers \cup {None}]
      /\ worker \in [Workers -> WorkerStates]
      /\ \A v \in Workers : worker[v].step # "idle" => worker[v].job \in Proposals
  BY DEF TypeInv, TypeOK, WorkersHaveJobs, ApproveCommit
<1>2. /\ proposal' = [proposal EXCEPT ![p].status = "approved", ![p].approval = a]
      /\ rowLock' = [rowLock EXCEPT ![p] = None]
      /\ worker' = [worker EXCEPT ![w] = Idling]
      /\ UNCHANGED <<execution, sweep, writes, account, accountLock>>
  BY DEF ApproveCommit, accountVars
<1>3. /\ rowLock[p] = w
      /\ proposal[p].status \in {"proposed", "edited"}
  BY <1>1 DEF ExecutionInv, RowsLockedByJobs, ReadsStand, HoldsRow
<1>4. /\ worker'[w].step = "idle"
      /\ \A v \in Workers : v # w => worker'[v] = worker[v]
  BY <1>1, <1>2, WorkerLeaves
<1>5. \A v \in Workers : v # w /\ worker[v].step # "idle" => worker[v].job # p
  BY <1>1, LockedAlone DEF HoldsRow
<1> HIDE DEF p, a
<1>6. /\ proposal'[p].status = "approved"
      /\ \A q \in Proposals : q # p => proposal'[q] = proposal[q]
  BY <1>1, <1>2 DEF ProposalRows
<1>7. RowsLockedByJobs'
  BY <1>1, <1>2, <1>3, <1>4, <1>5, NoneIsNoWorker
     DEF ExecutionInv, RowsLockedByJobs, HoldsRow
<1>8. (AttemptsAreRecorded /\ SweepIsRecorded)'
  BY <1>1, <1>2, <1>3, <1>6 DEF ExecutionInv, AttemptsAreRecorded, SweepIsRecorded
<1>9. ReadsStand'
  BY <1>1, <1>4, <1>5, <1>6 DEF ExecutionInv, ReadsStand
<1>10. AttemptsStand'
  BY <1>1, <1>2, <1>4, <1>5, <1>6 DEF ExecutionInv, AttemptsStand, Attempting
<1>11. (OneAttempt /\ KnowsItsWrite)'
  BY <1>2, <1>4 DEF ExecutionInv, OneAttempt, KnowsItsWrite, Attempting, Refusing, Reporting
<1>12. AccountIsHeld'
  BY <1>2, <1>4 DEF ExecutionInv, AccountIsHeld, StillApproved
<1>13. (AtMostOneWrite /\ RecordIsTruthful)'
  BY <1>1, <1>2, <1>3, <1>6 DEF ExecutionInv, AtMostOneWrite, RecordIsTruthful, HasWritten
<1> QED BY <1>7, <1>8, <1>9, <1>10, <1>11, <1>12, <1>13 DEF ExecutionInv

\* The durable checkpoint: the row lock is given up for a recorded attempt.
LEMMA CheckpointInv ==
  ASSUME TypeInv, ExecutionInv, NEW w \in Workers, Checkpoint(w)
  PROVE  ExecutionInv'
<1> DEFINE p == worker[w].job
           a == worker[w].approval
<1>1. /\ worker[w].step = "checkpoint" /\ p \in Proposals /\ a \in Approvals
      /\ proposal \in [Proposals -> ProposalRows]
      /\ execution \in [Proposals -> ExecutionRows]
      /\ rowLock \in [Proposals -> Workers \cup {None}]
      /\ worker \in [Workers -> WorkerStates]
      /\ \A v \in Workers : worker[v].step # "idle" => worker[v].job \in Proposals
  BY DEF TypeInv, TypeOK, WorkersHaveJobs, Checkpoint
<1>2. /\ proposal' = [proposal EXCEPT ![p].status = "executing"]
      /\ rowLock' = [rowLock EXCEPT ![p] = None]
      /\ worker' = [worker EXCEPT ![w].step = "started"]
      /\ UNCHANGED <<sweep, writes, account, accountLock>>
  BY DEF Checkpoint, accountVars
<1>3. /\ rowLock[p] = w
      /\ proposal[p].status = "approved"
      /\ proposal[p].version = a.version /\ proposal[p].payload = a.payload
  BY <1>1 DEF ExecutionInv, RowsLockedByJobs, ReadsStand, HoldsRow
<1>4. /\ worker'[w].step = "started" /\ worker'[w].job = p /\ worker'[w].approval = a
      /\ worker[w].job = p
      /\ \A v \in Workers : v # w => worker'[v] = worker[v]
  BY <1>1, <1>2, StepEffect DEF Steps
<1>5. \A v \in Workers : v # w /\ worker[v].step # "idle" => worker[v].job # p
  BY <1>1, LockedAlone DEF HoldsRow
<1>6. /\ execution'[p].outcome = "pending" /\ execution'[p].approval = a
      /\ \A q \in Proposals : q # p => execution'[q] = execution[q]
  BY <1>1 DEF Checkpoint, ExecutionRows
<1> HIDE DEF p, a
<1>7. /\ proposal'[p].status = "executing" /\ proposal'[p].version = proposal[p].version
      /\ proposal'[p].payload = proposal[p].payload
      /\ \A q \in Proposals : q # p => proposal'[q] = proposal[q]
  BY <1>1, <1>2 DEF ProposalRows
<1>8. writes[p] = <<>>
  BY <1>1, <1>3 DEF ExecutionInv, RecordIsTruthful, HasWritten
<1>9. RowsLockedByJobs'
  BY <1>1, <1>2, <1>3, <1>4, <1>5, NoneIsNoWorker
     DEF ExecutionInv, RowsLockedByJobs, HoldsRow
<1>10. (AttemptsAreRecorded /\ SweepIsRecorded)'
  <2>1. AttemptsAreRecorded'
    BY <1>6, <1>7 DEF ExecutionInv, AttemptsAreRecorded
  <2>2. ASSUME NEW q \in sweep
        PROVE  execution'[q].outcome # "none"
    <3>1. q \in Proposals /\ execution[q].outcome # "none"
      BY <1>1 DEF TypeInv, TypeOK, ExecutionInv, SweepIsRecorded
    <3>2. CASE q = p
      BY <1>6, <3>2
    <3>3. CASE q # p
      BY <1>6, <3>1, <3>3
    <3> QED BY <3>2, <3>3
  <2>3. SweepIsRecorded'
    BY <1>2, <2>2 DEF SweepIsRecorded
  <2> QED BY <2>1, <2>3
<1>11. ReadsStand'
  BY <1>1, <1>4, <1>5, <1>7 DEF ExecutionInv, ReadsStand
<1>12. AttemptsStand'
  BY <1>1, <1>3, <1>4, <1>5, <1>6, <1>7 DEF ExecutionInv, AttemptsStand, Attempting
<1>13. OneAttempt'
  BY <1>4, <1>5 DEF ExecutionInv, OneAttempt, Attempting
<1>14. KnowsItsWrite'
  BY <1>2, <1>4, <1>8 DEF ExecutionInv, KnowsItsWrite, Refusing, Reporting
<1>15. AccountIsHeld'
  BY <1>2, <1>4 DEF ExecutionInv, AccountIsHeld, StillApproved
<1>16. (AtMostOneWrite /\ RecordIsTruthful)'
  BY <1>1, <1>2, <1>6, <1>7, <1>8 DEF ExecutionInv, AtMostOneWrite, RecordIsTruthful, HasWritten
<1> QED BY <1>9, <1>10, <1>11, <1>12, <1>13, <1>14, <1>15, <1>16 DEF ExecutionInv

\* The final commit: what is recorded is what the request knows.
LEMMA FinishEffect ==
  ASSUME proposal \in [Proposals -> ProposalRows], execution \in [Proposals -> ExecutionRows],
         NEW q \in Proposals, NEW result \in Results, NEW s \in ProposalStatuses,
         proposal' = [proposal EXCEPT ![q].status = s],
         execution' = [execution EXCEPT ![q].outcome =
                         IF result = "revoked" THEN "failed" ELSE result],
         result # "none"
  PROVE  /\ proposal'[q].status = s /\ proposal'[q].version = proposal[q].version
         /\ proposal'[q].payload = proposal[q].payload
         /\ execution'[q].outcome # "none" /\ execution'[q].approval = execution[q].approval
         /\ \A p \in Proposals : p # q => /\ proposal'[p] = proposal[p]
                                          /\ execution'[p] = execution[p]
<1>1. /\ proposal'[q].status = s /\ proposal'[q].version = proposal[q].version
      /\ proposal'[q].payload = proposal[q].payload
  BY DEF ProposalRows
<1>2. execution'[q].outcome # "none" /\ execution'[q].approval = execution[q].approval
  BY DEF ExecutionRows, Results
<1> QED BY <1>1, <1>2

LEMMA FinishInv ==
  ASSUME TypeInv, ExecutionInv, NEW w \in Workers, Finish(w)
  PROVE  ExecutionInv'
<1> DEFINE p == worker[w].job
           a == worker[w].approval
           result == worker[w].result
           status == IF result = "succeeded" THEN "executed"
                     ELSE IF result \in {"failed", "revoked"} THEN "failed"
                     ELSE proposal[p].status
<1>1. /\ worker[w].step = "finish" /\ p \in Proposals /\ a \in Approvals /\ result \in Results
      /\ proposal \in [Proposals -> ProposalRows]
      /\ execution \in [Proposals -> ExecutionRows]
      /\ worker \in [Workers -> WorkerStates]
      /\ \A v \in Workers : worker[v].step # "idle" => worker[v].job \in Proposals
  BY DEF TypeInv, TypeOK, WorkersHaveJobs, Finish, WorkerStates
<1>2. /\ proposal' = [proposal EXCEPT ![p].status = status]
      /\ execution' = [execution EXCEPT ![p].outcome =
                         IF result = "revoked" THEN "failed" ELSE result]
      /\ worker' = [worker EXCEPT ![w] = Idling]
      /\ UNCHANGED <<rowLock, sweep, writes>>
  BY DEF Finish
<1>3. /\ result # "none"
      /\ proposal[p].status = "executing" /\ execution[p].approval = a
      /\ \A v \in Workers : v # w /\ Attempting(v) => worker[v].job # p
      /\ result \in {"failed", "revoked"} => writes[p] = <<>>
      /\ result = "succeeded" /\ a.context.mode = "real" => writes[p] # <<>>
  BY <1>1 DEF ExecutionInv, KnowsItsWrite, AttemptsStand, OneAttempt, Attempting,
              Refusing, Reporting
<1>4. /\ worker'[w].step = "idle" /\ worker[w].job = p
      /\ \A v \in Workers : v # w => worker'[v] = worker[v]
  BY <1>1, <1>2, WorkerLeaves
<1>5. /\ result \in {"failed", "revoked"} <=> status = "failed"
      /\ result = "succeeded" <=> status = "executed"
      /\ status \in {"executing", "executed", "failed"} /\ status \in ProposalStatuses
  BY <1>3 DEF ProposalStatuses
<1>6. /\ \A v \in Workers : v # w /\ worker[v].step \in {"call", "verify"}
                              => accountLock = v
      /\ result = "revoked" => accountLock = w
  BY <1>1 DEF ExecutionInv, AccountIsHeld
<1>7. account' = account \/ (accountLock = w /\ result = "revoked")
  BY <1>6 DEF Finish
<1>8. accountLock' = accountLock \/ accountLock = w
  BY DEF Finish
<1> HIDE DEF p, a, result, status
<1>9. /\ proposal'[p].status = status /\ proposal'[p].version = proposal[p].version
      /\ proposal'[p].payload = proposal[p].payload
      /\ execution'[p].outcome # "none" /\ execution'[p].approval = execution[p].approval
      /\ \A q \in Proposals : q # p => /\ proposal'[q] = proposal[q]
                                       /\ execution'[q] = execution[q]
  BY <1>1, <1>2, <1>3, <1>5, FinishEffect
<1>10. RowsLockedByJobs'
  BY <1>1, <1>2, <1>4 DEF ExecutionInv, RowsLockedByJobs, HoldsRow
<1>11. (AttemptsAreRecorded /\ SweepIsRecorded)'
  BY <1>1, <1>2, <1>5, <1>9 DEF TypeInv, TypeOK, ExecutionInv, AttemptsAreRecorded, SweepIsRecorded
<1>12. ReadsStand'
  BY <1>1, <1>3, <1>4, <1>9 DEF ExecutionInv, ReadsStand
<1>13. AttemptsStand'
  BY <1>1, <1>3, <1>4, <1>9 DEF ExecutionInv, AttemptsStand, Attempting
<1>14. (OneAttempt /\ KnowsItsWrite /\ AtMostOneWrite)'
  BY <1>2, <1>4 DEF ExecutionInv, OneAttempt, KnowsItsWrite, AtMostOneWrite, Attempting,
                    Refusing, Reporting
<1>15. AccountIsHeld'
  BY <1>4, <1>6, <1>7, <1>8 DEF ExecutionInv, AccountIsHeld, StillApproved
<1>16. RecordIsTruthful'
  BY <1>1, <1>2, <1>3, <1>5, <1>9 DEF ExecutionInv, RecordIsTruthful, HasWritten
<1> QED BY <1>10, <1>11, <1>12, <1>13, <1>14, <1>15, <1>16 DEF ExecutionInv

\* A crash takes back no commit and no write; the locks it releases are its own.
LEMMA CrashInv ==
  ASSUME TypeInv, ExecutionInv, NEW w \in Workers, Crash(w)
  PROVE  ExecutionInv'
<1>1. /\ worker \in [Workers -> WorkerStates]
      /\ \A v \in Workers : worker[v].step # "idle" => worker[v].job \in Proposals
  BY DEF TypeInv, TypeOK, WorkersHaveJobs
<1>2. /\ worker' = [worker EXCEPT ![w] = Idling]
      /\ UNCHANGED <<proposal, execution, sweep, writes, account>>
      /\ accountLock' = accountLock \/ accountLock = w
  BY DEF Crash
<1>3. /\ worker'[w].step = "idle"
      /\ \A v \in Workers : v # w => worker'[v] = worker[v]
  BY <1>1, <1>2, WorkerLeaves
<1>4. RowsLockedByJobs'
  <2>1. \A p \in Proposals : rowLock'[p] = IF rowLock[p] = w THEN None ELSE rowLock[p]
    BY DEF Crash
  <2> QED BY <1>3, <2>1, NoneIsNoWorker DEF ExecutionInv, RowsLockedByJobs, HoldsRow
<1>5. (ReadsStand /\ AttemptsStand /\ OneAttempt /\ KnowsItsWrite)'
  BY <1>2, <1>3 DEF ExecutionInv, ReadsStand, AttemptsStand, OneAttempt, KnowsItsWrite,
                    Attempting, Refusing, Reporting
<1>6. AccountIsHeld'
  BY <1>2, <1>3 DEF ExecutionInv, AccountIsHeld, StillApproved
<1>7. (AttemptsAreRecorded /\ SweepIsRecorded /\ AtMostOneWrite /\ RecordIsTruthful)'
  BY <1>2 DEF ExecutionInv, AttemptsAreRecorded, SweepIsRecorded, AtMostOneWrite,
              RecordIsTruthful, HasWritten
<1> QED BY <1>4, <1>5, <1>6, <1>7 DEF ExecutionInv

LEMMA WorkerStepInv ==
  ASSUME TypeInv, ExecutionInv, NEW w \in Workers, WorkerStep(w)
  PROVE  ExecutionInv'
<1>1. CASE ProviderCall(w)
  BY <1>1, WriteInv, ExecutorInv
<1>2. CASE RunSimulated(w) \/ RefusedByRegistry(w) \/ AcquireToken(w) \/ Verify(w)
  BY <1>2, ExecutorInv
<1> QED BY <1>1, <1>2, ApproveCommitInv, CheckpointInv, FinishInv DEF WorkerStep

LEMMA NextExecutionInv == TypeInv /\ ExecutionInv /\ [Next]_vars => ExecutionInv'
<1> SUFFICES ASSUME TypeInv, ExecutionInv, [Next]_vars PROVE ExecutionInv'
  OBVIOUS
<1>1. TypeInv'
  BY NextTypeInv
<1>2. CASE \E ranking \in Rankings, offered \in [Proposals -> Payloads] :
             Generate(ranking, offered)
  BY <1>1, <1>2, GenerateInv
<1>3. CASE \E p \in Proposals : ProposalStep(p)
  BY <1>1, <1>3, ProposalStepInv
<1>4. CASE \E w \in Workers, p \in Proposals : ApproveBegin(w, p) \/ ExecuteBegin(w, p)
  BY <1>4, BeginInv
<1>5. CASE \E w \in Workers : WorkerStep(w) \/ Crash(w)
  BY <1>5, WorkerStepInv, CrashInv
<1>6. CASE SweepSelect \/ SweepCommit \/ SweepCrash
  BY <1>6, SweepInv
<1>7. CASE AccountNext /\ UNCHANGED proposalVars
  BY <1>7, AccountChange
<1>8. CASE UNCHANGED vars
  BY <1>1, <1>8, ProposalChange DEF vars, proposalVars
<1> QED BY <1>2, <1>3, <1>4, <1>5, <1>6, <1>7, <1>8 DEF Next

\* Every reachable state satisfies the inductive invariant.
LEMMA ExecutionInvariant == Spec => [](TypeInv /\ ExecutionInv)
BY InitTypeInv, NextTypeInv, InitExecutionInv, NextExecutionInv, PTL DEF Spec

\* Google is written to at most once for a proposal, for any number of
\* proposals and of concurrent, retried or crashing requests.
THEOREM WrittenAtMostOnce == Spec => []AtMostOneWrite
<1>1. ExecutionInv => AtMostOneWrite
  BY DEF ExecutionInv
<1> QED BY <1>1, ExecutionInvariant, PTL

\* The record of an attempt never contradicts what has been written.
THEOREM RecordNeverLies == Spec => []RecordIsTruthful
<1>1. ExecutionInv => RecordIsTruthful
  BY DEF ExecutionInv
<1> QED BY <1>1, ExecutionInvariant, PTL

-----------------------------------------------------------------------------
(* What a step may never do.                                               *)

LEMMA OnlyTheCallWrites ==
  ASSUME [Next]_vars, writes' # writes
  PROVE  \E w \in Workers : ProviderCall(w)
<1>1. ASSUME NEW p \in Proposals, ProposalStep(p) PROVE writes' = writes
  BY <1>1 DEF ProposalStep, ViewProposal, ExpireIfDue, Reject, Edit, Replay, Invalidate,
              Lapse, Age, LeaveWindow
<1>2. ASSUME NEW w \in Workers, NEW p \in Proposals, ApproveBegin(w, p) \/ ExecuteBegin(w, p)
      PROVE  writes' = writes
  BY <1>2 DEF ApproveBegin, ExecuteBegin
<1>3. ASSUME NEW w \in Workers, WorkerStep(w), ~ProviderCall(w) PROVE writes' = writes
  BY <1>3 DEF WorkerStep, ApproveCommit, Checkpoint, RunSimulated, RefusedByRegistry,
              AcquireToken, Verify, Finish
<1>4. ASSUME NEW w \in Workers, Crash(w) PROVE writes' = writes
  BY <1>4 DEF Crash
<1>5. SweepSelect \/ SweepCommit \/ SweepCrash => writes' = writes
  BY DEF SweepSelect, SweepCommit, SweepCrash
<1>6. ASSUME NEW ranking \in Rankings, NEW offered \in [Proposals -> Payloads],
             Generate(ranking, offered)
      PROVE  writes' = writes
  BY <1>6 DEF Generate
<1>7. UNCHANGED proposalVars \/ UNCHANGED vars => writes' = writes
  BY DEF vars, proposalVars
<1> QED BY <1>1, <1>2, <1>3, <1>4, <1>5, <1>6, <1>7 DEF Next

\* A write happens only while the account row, locked for the call, still
\* says exactly what was approved: active, the same revision, the scope.
THEOREM WrittenUnderLiveAuthorisation == Spec => WriteUnderLiveAuthorisation
<1> DEFINE Live(p) == /\ account.status = "active"
                      /\ account.revision = execution[p].approval.context.revision
                      /\ execution[p].approval.context.scope \in account.scopes
<1>1. ASSUME TypeInv, ExecutionInv, [Next]_vars, NEW p \in Proposals, writes'[p] # writes[p]
      PROVE  Live(p)
  <2>1. PICK w \in Workers : ProviderCall(w)
    BY <1>1, OnlyTheCallWrites
  <2>2. /\ worker[w].step = "call" /\ worker[w].job \in Proposals
        /\ writes \in [Proposals -> Seq(Writes)]
    BY <1>1, <2>1 DEF ProviderCall, TypeInv, TypeOK, WorkersHaveJobs
  <2>3. \A q \in Proposals : q # worker[w].job => writes'[q] = writes[q]
    BY <2>1, <2>2 DEF ProviderCall
  <2>4. worker[w].job = p
    BY <1>1, <2>3
  <2>5. execution[p].approval = worker[w].approval
    BY <1>1, <2>2, <2>4 DEF ExecutionInv, AttemptsStand, Attempting
  <2> QED BY <1>1, <2>2, <2>5 DEF ExecutionInv, AccountIsHeld, StillApproved
<1>2. TypeInv /\ ExecutionInv /\ [Next]_vars =>
        [\A p \in Proposals : writes'[p] # writes[p] =>
           LET context == execution[p].approval.context
           IN  /\ account.status = "active"
               /\ account.revision = context.revision
               /\ context.scope \in account.scopes]_vars
  BY <1>1
<1> QED BY <1>2, ExecutionInvariant, PTL DEF Spec, WriteUnderLiveAuthorisation

\* The rows that a step may change: an active or new one whose lock is free,
\* an approval being stored, an attempt being started, or one ending.
LEMMA RowsThatChange ==
  ASSUME TypeInv, ExecutionInv, [Next]_vars, NEW p \in Proposals
  PROVE  \/ proposal'[p] = proposal[p]
         \/ proposal[p].status \in Active \cup {"absent"}
         \/ /\ proposal[p].status = "executing"
            /\ proposal'[p].status \in {"executing", "executed", "failed"}
            /\ proposal'[p].payload = proposal[p].payload
<1> DEFINE Legal == \/ proposal'[p] = proposal[p]
                    \/ proposal[p].status \in Active \cup {"absent"}
                    \/ /\ proposal[p].status = "executing"
                       /\ proposal'[p].status \in {"executing", "executed", "failed"}
                       /\ proposal'[p].payload = proposal[p].payload
<1>1. /\ proposal \in [Proposals -> ProposalRows]
      /\ execution \in [Proposals -> ExecutionRows]
      /\ worker \in [Workers -> WorkerStates]
      /\ \A v \in Workers : worker[v].step # "idle" => worker[v].job \in Proposals
  BY DEF TypeInv, TypeOK, WorkersHaveJobs
<1>2. ASSUME NEW q \in Proposals, ProposalStep(q) PROVE Legal
  BY <1>1, <1>2 DEF ProposalStep, ViewProposal, ExpireIfDue, Reject, Edit, Changeable, Replay,
     Invalidate, Executable, Lapse, Age, LeaveWindow, Due, Active
<1>3. ASSUME NEW ranking \in Rankings, NEW offered \in [Proposals -> Payloads],
             Generate(ranking, offered)
      PROVE  Legal
  <2>1. Generated(p, offered[p]) = proposal[p] \/ proposal[p].status \in Active \cup {"absent"}
    BY DEF Generated, Due, Active
  <2> QED BY <1>3, <2>1 DEF Generate
<1>4. ASSUME NEW w \in Workers, WorkerStep(w) PROVE Legal
  <2>1. CASE ApproveCommit(w)
    <3>1. worker[w].job \in Proposals /\ proposal[worker[w].job].status \in Active
      BY <1>1, <2>1 DEF ApproveCommit, ExecutionInv, ReadsStand, Active
    <3> QED BY <1>1, <2>1, <3>1 DEF ApproveCommit
  <2>2. CASE Checkpoint(w)
    <3>1. worker[w].job \in Proposals /\ proposal[worker[w].job].status \in Active
      BY <1>1, <2>2 DEF Checkpoint, ExecutionInv, ReadsStand, Active
    <3> QED BY <1>1, <2>2, <3>1 DEF Checkpoint
  <2>3. CASE Finish(w)
    <3> DEFINE q == worker[w].job
               status == IF worker[w].result = "succeeded" THEN "executed"
                         ELSE IF worker[w].result \in {"failed", "revoked"} THEN "failed"
                         ELSE proposal[q].status
    <3>1. q \in Proposals /\ proposal[q].status = "executing"
      BY <1>1, <2>3 DEF Finish, ExecutionInv, AttemptsStand, Attempting
    <3>2. status \in {"executing", "executed", "failed"}
      BY <3>1
    <3>3. proposal' = [proposal EXCEPT ![q].status = status]
      BY <2>3 DEF Finish
    <3> HIDE DEF q, status
    <3>4. /\ proposal'[q].status = status /\ proposal'[q].payload = proposal[q].payload
          /\ q # p => proposal'[p] = proposal[p]
      BY <1>1, <3>1, <3>3 DEF ProposalRows
    <3> QED BY <3>1, <3>2, <3>4
  <2>4. CASE RunSimulated(w) \/ RefusedByRegistry(w) \/ AcquireToken(w) \/ ProviderCall(w)
             \/ Verify(w)
    BY <2>4 DEF RunSimulated, RefusedByRegistry, AcquireToken, ProviderCall, Verify
  <2> QED BY <1>4, <2>1, <2>2, <2>3, <2>4 DEF WorkerStep
<1>5. ASSUME NEW w \in Workers, NEW q \in Proposals,
             ApproveBegin(w, q) \/ ExecuteBegin(w, q) \/ Crash(w)
      PROVE  Legal
  BY <1>5 DEF ApproveBegin, ExecuteBegin, Crash
<1>6. SweepSelect \/ SweepCommit \/ SweepCrash => Legal
  BY DEF SweepSelect, SweepCommit, SweepCrash
<1>7. UNCHANGED proposalVars \/ UNCHANGED vars => Legal
  BY DEF vars, proposalVars
<1> HIDE DEF Legal
<1> QED BY <1>2, <1>3, <1>4, <1>5, <1>6, <1>7 DEF Next, Legal

\* What is final stays as it is, and an attempt only ever becomes its own
\* outcome.
THEOREM FinalStays == Spec => FinalIsFinal
<1>1. TypeInv /\ ExecutionInv /\ [Next]_vars =>
        [\A p \in Proposals :
           /\ proposal[p].status \in Final => proposal'[p] = proposal[p]
           /\ proposal[p].status = "executing" =>
                /\ proposal'[p].status \in {"executing", "executed", "failed"}
                /\ proposal'[p].payload = proposal[p].payload]_vars
  BY RowsThatChange DEF Final, Active
<1> QED BY <1>1, ExecutionInvariant, PTL DEF Spec, FinalIsFinal

-----------------------------------------------------------------------------
(* Agreement: what reaches Google is what its user saw and agreed to.      *)

\* The user clicked approve on exactly what snapshot says.
AgreedTo(p, snapshot) ==
  \E c \in clicks[p] : /\ c.version = snapshot.version
                       /\ c.payload = snapshot.payload
                       /\ c.context = snapshot.context

RequestsAreAgreedTo ==
  \A w \in Workers : worker[w].step # "idle" => AgreedTo(worker[w].job, worker[w].approval)

RowsAreAgreedTo ==
  \A p \in Proposals : proposal[p].approval # None => AgreedTo(p, proposal[p].approval)

CallsAreReal ==
  \A w \in Workers : worker[w].step \in {"call", "verify"} =>
    worker[w].approval.context.mode = "real"

AgreementInv ==
  RequestsAreAgreedTo /\ RowsAreAgreedTo /\ CallsAreReal /\ WriteWasAgreedTo

LEMMA InitAgreement == Init => AgreementInv
BY DEF Init, AgreementInv, RequestsAreAgreedTo, RowsAreAgreedTo, CallsAreReal,
       WriteWasAgreedTo, Idling

\* The rows of the attempts and of the writes.
LEMMA WritesStay ==
  ASSUME TypeInv, AgreementInv, UNCHANGED writes,
         \A p \in Proposals : clicks[p] \subseteq clicks'[p],
         \A p \in Proposals : execution'[p].approval = execution[p].approval \/ writes[p] = <<>>
  PROVE  WriteWasAgreedTo'
<1> SUFFICES ASSUME NEW p \in Proposals, NEW i \in DOMAIN writes[p]
             PROVE  \E c \in clicks'[p] : /\ c.version = writes[p][i].version
                                           /\ c.payload = writes[p][i].payload
                                           /\ c.context = execution'[p].approval.context
                                           /\ c.context.mode = "real"
  BY DEF WriteWasAgreedTo
<1>1. writes[p] # <<>>
  OBVIOUS
<1> QED BY <1>1 DEF AgreementInv, WriteWasAgreedTo

\* A step that keeps, or forgets, what requests and rows hold.
LEMMA AgreementFrame ==
  ASSUME TypeInv, AgreementInv, UNCHANGED writes,
         \A p \in Proposals : clicks[p] \subseteq clicks'[p],
         \A w \in Workers :
           \/ worker'[w].step = "idle"
           \/ /\ worker[w].step # "idle"
              /\ worker'[w].job = worker[w].job /\ worker'[w].approval = worker[w].approval
              /\ worker'[w].step \in {"call", "verify"} =>
                   worker[w].approval.context.mode = "real",
         \A p \in Proposals : proposal'[p].approval \in {None, proposal[p].approval},
         \A p \in Proposals : execution'[p].approval = execution[p].approval
  PROVE  AgreementInv'
<1>1. \A w \in Workers : worker[w].step # "idle" => worker[w].job \in Proposals
  BY DEF TypeInv, WorkersHaveJobs
<1>2. RequestsAreAgreedTo'
  BY <1>1 DEF AgreementInv, RequestsAreAgreedTo, AgreedTo
<1>3. RowsAreAgreedTo'
  BY DEF AgreementInv, RowsAreAgreedTo, AgreedTo
<1>4. CallsAreReal'
  BY DEF AgreementInv, CallsAreReal
<1> QED BY <1>2, <1>3, <1>4, WritesStay DEF AgreementInv

LEMMA ProposalStepAgreement ==
  ASSUME TypeInv, AgreementInv, NEW p \in Proposals, ProposalStep(p)
  PROVE  AgreementInv'
<1>1. /\ proposal \in [Proposals -> ProposalRows] /\ execution \in [Proposals -> ExecutionRows]
  BY DEF TypeInv, TypeOK
<1>2. \A q \in Proposals : proposal'[q].approval \in {None, proposal[q].approval}
  <2>1. CASE ViewProposal(p) \/ ExpireIfDue(p) \/ Lapse(p)
    BY <1>1, <2>1 DEF ViewProposal, ExpireIfDue, Lapse, ProposalRows
  <2>2. CASE Reject(p)
    BY <1>1, <2>2 DEF Reject, ProposalRows
  <2>3. CASE Invalidate(p)
    BY <1>1, <2>3 DEF Invalidate, ProposalRows
  <2>4. ASSUME NEW y \in Payloads, Edit(p, y)
        PROVE  \A q \in Proposals : proposal'[q].approval \in {None, proposal[q].approval}
    <3>1. proposal[p].version + 1 \in Nat
      BY <1>1 DEF ProposalRows
    <3> QED BY <1>1, <2>4, <3>1 DEF Edit, ProposalRows
  <2>5. CASE Replay(p) \/ Age(p) \/ LeaveWindow(p)
    BY <2>5 DEF Replay, Age, LeaveWindow
  <2> QED BY <2>1, <2>2, <2>3, <2>4, <2>5 DEF ProposalStep
<1>3. \A q \in Proposals : execution'[q].approval = execution[q].approval
  <2>1. CASE Replay(p) \/ Age(p)
    BY <1>1, <2>1 DEF Replay, Age, ExecutionRows
  <2>2. CASE UNCHANGED execution
    BY <2>2
  <2> QED BY <2>1, <2>2 DEF ProposalStep, ViewProposal, ExpireIfDue, Reject, Edit,
                            Invalidate, Lapse, LeaveWindow
<1>4. UNCHANGED <<worker, clicks, writes>>
  BY DEF ProposalStep, ViewProposal, ExpireIfDue, Reject, Edit, Replay, Invalidate,
         Lapse, Age, LeaveWindow
<1> QED BY <1>2, <1>3, <1>4, AgreementFrame DEF AgreementInv, CallsAreReal

LEMMA GenerateAgreement ==
  ASSUME TypeInv, AgreementInv, NEW ranking \in Rankings,
         NEW offered \in [Proposals -> Payloads], Generate(ranking, offered)
  PROVE  AgreementInv'
<1>1. proposal \in [Proposals -> ProposalRows]
  BY DEF TypeInv, TypeOK
<1>2. ASSUME NEW p \in Proposals, NEW y \in Payloads
      PROVE  Generated(p, y).approval \in {None, proposal[p].approval}
  <2>1. [proposal[p] EXCEPT !.status = "expired"].approval = proposal[p].approval
    BY <1>1 DEF ProposalRows
  <2>2. \A n \in Nat : [proposal[p] EXCEPT !.payload = y, !.version = n].approval
                        = proposal[p].approval
    BY <1>1 DEF ProposalRows
  <2>3. proposal[p].version + 1 \in Nat
    BY <1>1 DEF ProposalRows
  <2> QED BY <2>1, <2>2, <2>3 DEF Generated
<1>3. \A p \in Proposals : proposal'[p].approval \in {None, proposal[p].approval}
  BY <1>2 DEF Generate
<1> QED BY <1>3, AgreementFrame DEF Generate, AgreementInv, CallsAreReal

\* The click, and what approve or execute reads under the row lock.
LEMMA BeginAgreement ==
  ASSUME TypeInv, AgreementInv, NEW w \in Workers, NEW p \in Proposals,
         ApproveBegin(w, p) \/ ExecuteBegin(w, p)
  PROVE  AgreementInv'
<1>1. /\ worker \in [Workers -> WorkerStates]
      /\ clicks \in [Proposals -> SUBSET Displays]
      /\ \A v \in Workers : worker[v].step # "idle" => worker[v].job \in Proposals
  BY DEF TypeInv, TypeOK, WorkersHaveJobs
<1>2. /\ UNCHANGED <<proposal, execution, writes>>
      /\ \A q \in Proposals : clicks[q] \subseteq clicks'[q]
  BY <1>1 DEF ApproveBegin, ExecuteBegin
<1>3. /\ worker'[w].job = p /\ worker'[w].step \in {"approve", "checkpoint"}
      /\ \A v \in Workers : v # w => worker'[v] = worker[v]
  BY <1>1 DEF ApproveBegin, ExecuteBegin
<1>4. AgreedTo(p, worker[w].approval)'
  <2>1. CASE ApproveBegin(w, p)
    <3> DEFINE snapshot == [version |-> proposal[p].version, payload |-> proposal[p].payload,
                            context |-> CurrentContext(p), consent |-> consents]
    <3>1. worker'[w].approval = snapshot
      BY <1>1, <2>1 DEF ApproveBegin, Approvable
    <3>2. screen[p] \in clicks'[p]
      BY <1>1, <2>1 DEF ApproveBegin, Approvable
    <3>3. /\ screen[p].version = snapshot.version /\ screen[p].payload = snapshot.payload
          /\ screen[p].context = snapshot.context
      BY <2>1 DEF ApproveBegin, Approvable
    <3> HIDE DEF snapshot
    <3> QED BY <3>1, <3>2, <3>3 DEF AgreedTo
  <2>2. CASE ExecuteBegin(w, p)
    <3>1. worker'[w].approval = proposal[p].approval /\ proposal[p].approval # None
      BY <1>1, <2>2 DEF ExecuteBegin, Executable
    <3>2. AgreedTo(p, proposal[p].approval)
      BY <3>1 DEF AgreementInv, RowsAreAgreedTo
    <3> QED BY <1>2, <3>1, <3>2 DEF AgreedTo
  <2> QED BY <2>1, <2>2
<1>5. RequestsAreAgreedTo'
  BY <1>1, <1>2, <1>3, <1>4 DEF AgreementInv, RequestsAreAgreedTo, AgreedTo
<1>6. RowsAreAgreedTo'
  BY <1>2 DEF AgreementInv, RowsAreAgreedTo, AgreedTo
<1>7. CallsAreReal'
  BY <1>3 DEF AgreementInv, CallsAreReal
<1> QED BY <1>2, <1>5, <1>6, <1>7, WritesStay DEF AgreementInv

\* The snapshot moves from the request to the row, and from it to the attempt.
LEMMA CommitAgreement ==
  ASSUME TypeInv, ExecutionInv, AgreementInv, NEW w \in Workers,
         ApproveCommit(w) \/ Checkpoint(w)
  PROVE  AgreementInv'
<1>1. /\ worker \in [Workers -> WorkerStates] /\ worker[w].step \in {"approve", "checkpoint"}
      /\ proposal \in [Proposals -> ProposalRows] /\ execution \in [Proposals -> ExecutionRows]
      /\ worker[w].job \in Proposals
  BY DEF TypeInv, TypeOK, WorkersHaveJobs, ApproveCommit, Checkpoint
<1>2. UNCHANGED <<clicks, writes>>
  BY DEF ApproveCommit, Checkpoint
<1>3. /\ worker'[w].step # "idle" => /\ worker'[w].job = worker[w].job
                                     /\ worker'[w].approval = worker[w].approval
      /\ worker'[w].step \in {"idle", "started"}
      /\ \A v \in Workers : v # w => worker'[v] = worker[v]
  <2>1. CASE ApproveCommit(w)
    BY <1>1, <2>1, WorkerLeaves DEF ApproveCommit
  <2>2. CASE Checkpoint(w)
    BY <1>1, <2>2, StepEffect DEF Checkpoint, Steps
  <2> QED BY <2>1, <2>2
<1>4. \A p \in Proposals : \/ proposal'[p].approval = proposal[p].approval
                           \/ p = worker[w].job /\ proposal'[p].approval = worker[w].approval
  BY <1>1 DEF ApproveCommit, Checkpoint, ProposalRows
<1>5. AgreedTo(worker[w].job, worker[w].approval)
  BY <1>1 DEF AgreementInv, RequestsAreAgreedTo
<1>6. RequestsAreAgreedTo'
  BY <1>2, <1>3, <1>5 DEF AgreementInv, RequestsAreAgreedTo, AgreedTo
<1>7. RowsAreAgreedTo'
  BY <1>2, <1>4, <1>5 DEF AgreementInv, RowsAreAgreedTo, AgreedTo
<1>8. CallsAreReal'
  BY <1>3 DEF AgreementInv, CallsAreReal
<1>9. ASSUME NEW p \in Proposals
      PROVE  execution'[p].approval = execution[p].approval \/ writes[p] = <<>>
  <2>1. CASE ApproveCommit(w)
    BY <2>1 DEF ApproveCommit
  <2>2. CASE Checkpoint(w)
    <3>1. p # worker[w].job => execution'[p] = execution[p]
      BY <1>1, <2>2 DEF Checkpoint
    <3>2. proposal[worker[w].job].status = "approved"
      BY <2>2 DEF Checkpoint, ExecutionInv, ReadsStand
    <3>3. writes[worker[w].job] = <<>>
      BY <1>1, <3>2 DEF ExecutionInv, RecordIsTruthful, HasWritten
    <3> QED BY <3>1, <3>3
  <2> QED BY <2>1, <2>2
<1> QED BY <1>2, <1>6, <1>7, <1>8, <1>9, WritesStay DEF AgreementInv

\* The write carries the snapshot that the attempt was committed with.
LEMMA WriteAgreement ==
  ASSUME TypeInv, ExecutionInv, AgreementInv, NEW w \in Workers, ProviderCall(w),
         writes' # writes
  PROVE  AgreementInv'
<1> DEFINE p == worker[w].job
           a == worker[w].approval
           write == [version |-> a.version, payload |-> a.payload, consent |-> a.consent]
<1>1. /\ worker \in [Workers -> WorkerStates] /\ worker[w].step = "call"
      /\ writes \in [Proposals -> Seq(Writes)] /\ p \in Proposals /\ a \in Approvals
      /\ worker[w].job = p /\ worker[w].approval = a
  BY DEF TypeInv, TypeOK, WorkersHaveJobs, ProviderCall
<1>2. /\ writes' = [writes EXCEPT ![p] = Append(@, write)]
      /\ UNCHANGED <<proposal, execution, clicks>>
      /\ worker' = [worker EXCEPT ![w].step = "verify"] \/ Ends(w, "uncertain")
  BY DEF ProviderCall
<1>3. /\ worker'[w].step \in {"verify", "finish"}
      /\ worker'[w].job = p /\ worker'[w].approval = a
      /\ \A v \in Workers : v # w => worker'[v] = worker[v]
  <2>1. CASE worker' = [worker EXCEPT ![w].step = "verify"]
    BY <1>1, <2>1, StepEffect DEF Steps
  <2>2. CASE Ends(w, "uncertain")
    BY <1>1, <2>2, EndsEffect DEF Results
  <2> QED BY <1>2, <2>1, <2>2
<1>4. /\ AgreedTo(p, a) /\ a.context.mode = "real"
      /\ execution[p].approval = a /\ writes[p] = <<>>
  BY <1>1 DEF AgreementInv, RequestsAreAgreedTo, CallsAreReal, ExecutionInv, AttemptsStand,
              Attempting, KnowsItsWrite
<1>5. write \in Writes /\ write.version = a.version /\ write.payload = a.payload
  BY <1>1 DEF Approvals, Writes
<1> HIDE DEF p, a, write
<1>6. /\ DOMAIN writes'[p] = {1} /\ writes'[p][1] = write
      /\ \A q \in Proposals : q # p => writes'[q] = writes[q]
  <2>1. writes'[p] = Append(<<>>, write) /\ \A q \in Proposals : q # p => writes'[q] = writes[q]
    BY <1>1, <1>2, <1>4
  <2> QED BY <2>1
<1>7. (RequestsAreAgreedTo /\ RowsAreAgreedTo)'
  <2>1. RequestsAreAgreedTo'
    BY <1>1, <1>2, <1>3, <1>4 DEF AgreementInv, RequestsAreAgreedTo, AgreedTo
  <2>2. RowsAreAgreedTo'
    BY <1>2 DEF AgreementInv, RowsAreAgreedTo, AgreedTo
  <2> QED BY <2>1, <2>2
<1>8. CallsAreReal'
  BY <1>3, <1>4 DEF AgreementInv, CallsAreReal
<1>9. WriteWasAgreedTo'
  BY <1>2, <1>4, <1>5, <1>6 DEF AgreementInv, WriteWasAgreedTo, AgreedTo
<1> QED BY <1>7, <1>8, <1>9 DEF AgreementInv

LEMMA ExecutorAgreement ==
  ASSUME TypeInv, ExecutionInv, AgreementInv, NEW w \in Workers,
         \/ RunSimulated(w) \/ RefusedByRegistry(w) \/ AcquireToken(w) \/ Verify(w)
         \/ Finish(w) \/ Crash(w)
         \/ ProviderCall(w) /\ UNCHANGED writes
  PROVE  AgreementInv'
<1>1. /\ worker \in [Workers -> WorkerStates] /\ proposal \in [Proposals -> ProposalRows]
      /\ execution \in [Proposals -> ExecutionRows]
  BY DEF TypeInv, TypeOK
<1>2. UNCHANGED <<writes, clicks>> /\ worker[w].step # "idle"
  BY DEF RunSimulated, RefusedByRegistry, AcquireToken, Verify, Finish, Crash, ProviderCall
<1>3. /\ \A p \in Proposals : proposal'[p].approval = proposal[p].approval
      /\ \A p \in Proposals : execution'[p].approval = execution[p].approval
  <2>1. CASE Finish(w)
    BY <1>1, <2>1 DEF Finish, ProposalRows, ExecutionRows
  <2> QED BY <2>1 DEF RunSimulated, RefusedByRegistry, AcquireToken, Verify, Crash, ProviderCall
<1>4. \/ worker' = [worker EXCEPT ![w] = Idling]
      \/ worker' = [worker EXCEPT ![w].step = "call"] /\ worker[w].approval.context.mode = "real"
      \/ worker' = [worker EXCEPT ![w].step = "verify"] /\ worker[w].step = "call"
      \/ \E result \in Results : Ends(w, result)
  BY DEF RunSimulated, RefusedByRegistry, AcquireToken, Verify, Finish, Crash, ProviderCall,
         Results
<1>5. /\ \A v \in Workers : v # w => worker'[v] = worker[v]
      /\ \/ worker'[w].step = "idle"
         \/ /\ worker'[w].job = worker[w].job /\ worker'[w].approval = worker[w].approval
            /\ worker'[w].step \in {"call", "verify"} =>
                 worker[w].approval.context.mode = "real"
  <2>1. CASE worker' = [worker EXCEPT ![w] = Idling]
    BY <1>1, <2>1, WorkerLeaves
  <2>2. CASE worker' = [worker EXCEPT ![w].step = "call"]
             /\ worker[w].approval.context.mode = "real"
    BY <1>1, <2>2, StepEffect DEF Steps
  <2>3. CASE worker' = [worker EXCEPT ![w].step = "verify"] /\ worker[w].step = "call"
    BY <1>1, <2>3, StepEffect DEF Steps, AgreementInv, CallsAreReal
  <2>4. CASE \E result \in Results : Ends(w, result)
    BY <1>1, <2>4, EndsEffect
  <2> QED BY <1>4, <2>1, <2>2, <2>3, <2>4
<1>6. \A v \in Workers :
        \/ worker'[v].step = "idle"
        \/ /\ worker[v].step # "idle"
           /\ worker'[v].job = worker[v].job /\ worker'[v].approval = worker[v].approval
           /\ worker'[v].step \in {"call", "verify"} =>
                worker[v].approval.context.mode = "real"
  BY <1>2, <1>5 DEF AgreementInv, CallsAreReal
<1> QED BY <1>2, <1>3, <1>6, AgreementFrame

LEMMA NextAgreement ==
  TypeInv /\ ExecutionInv /\ AgreementInv /\ [Next]_vars => AgreementInv'
<1> SUFFICES ASSUME TypeInv, ExecutionInv, AgreementInv, [Next]_vars PROVE AgreementInv'
  OBVIOUS
<1>1. CASE \E ranking \in Rankings, offered \in [Proposals -> Payloads] :
             Generate(ranking, offered)
  BY <1>1, GenerateAgreement
<1>2. CASE \E p \in Proposals : ProposalStep(p)
  BY <1>2, ProposalStepAgreement
<1>3. CASE \E w \in Workers, p \in Proposals : ApproveBegin(w, p) \/ ExecuteBegin(w, p)
  BY <1>3, BeginAgreement
<1>4. CASE \E w \in Workers : WorkerStep(w) \/ Crash(w)
  BY <1>4, CommitAgreement, WriteAgreement, ExecutorAgreement DEF WorkerStep
<1>5. CASE SweepSelect \/ SweepCommit \/ SweepCrash
  <2>1. execution \in [Proposals -> ExecutionRows]
    BY DEF TypeInv, TypeOK
  <2>2. \A p \in Proposals : execution'[p].approval = execution[p].approval
    BY <1>5, <2>1 DEF SweepSelect, SweepCommit, SweepCrash, ExecutionRows
  <2>3. UNCHANGED <<proposal, worker, clicks, writes>>
    BY <1>5 DEF SweepSelect, SweepCommit, SweepCrash
  <2> QED BY <2>2, <2>3, AgreementFrame DEF AgreementInv, CallsAreReal
<1>6. CASE UNCHANGED proposalVars \/ UNCHANGED vars
  BY <1>6, AgreementFrame DEF vars, proposalVars, AgreementInv, CallsAreReal
<1> QED BY <1>1, <1>2, <1>3, <1>4, <1>5, <1>6 DEF Next

\* Whatever Google is sent, the user saw in that version, with that content
\* and under that account authorisation, and approved.
THEOREM WrittenAsAgreed == Spec => []WriteWasAgreedTo
<1>1. AgreementInv => WriteWasAgreedTo
  BY DEF AgreementInv
<1> QED BY <1>1, ExecutionInvariant, InitAgreement, NextAgreement, PTL DEF Spec

-----------------------------------------------------------------------------
(* Promise: the inductive invariant, on top of ExecutionInv and            *)
(* AgreementInv.                                                           *)

\* What the user has been shown of a proposal and may still agree to, and
\* what he has agreed to.
Seen(p) == clicks[p] \cup ({screen[p]} \ {None})

\* A version is never used for a second content.
ContentsAreNamed ==
  \A p \in Proposals : \A c \in Seen(p) :
    /\ c.version <= proposal[p].version
    /\ c.version = proposal[p].version => c.payload = proposal[p].payload
    /\ \A d \in Seen(p) : c.version = d.version => c.payload = d.payload

VersionsStartAtOne ==
  \A p \in Proposals : proposal[p].status = "absent" => proposal[p].version = 0

\* An approval about to be stored is of the locked row's content.
ApprovalsAreOfTheRow ==
  \A w \in Workers : worker[w].step = "approve" =>
    /\ worker[w].approval.version = proposal[worker[w].job].version
    /\ worker[w].approval.payload = proposal[worker[w].job].payload

ApprovedRowsStand ==
  \A p \in Proposals : proposal[p].status = "approved" =>
    /\ proposal[p].approval # None
    /\ proposal[p].approval.version = proposal[p].version
    /\ proposal[p].approval.payload = proposal[p].payload

\* Evidence from Google outlives the account row's absence: the row is made
\* before anything is imported, and stays.
EvidenceHasItsAccount ==
  \A p \in Proposals :
    proposal[p].status # "absent" /\ GoogleAccount \in Evidence[p] => account.status # "none"

\* An approval says whether its proposal may reach Google.
Judges(snapshot, p) ==
  /\ snapshot.context.mode \in {"real", "simulation"}
  /\ snapshot.context.mode = "simulation" <=> p \in Simulated

RequestsJudge ==
  \A w \in Workers : worker[w].step # "idle" => Judges(worker[w].approval, worker[w].job)

RowsJudge ==
  \A p \in Proposals : proposal[p].approval # None => Judges(proposal[p].approval, p)

AttemptsJudge ==
  \A p \in Proposals : execution[p].outcome # "none" => Judges(execution[p].approval, p)

PromiseInv ==
  /\ ContentsAreNamed /\ VersionsStartAtOne /\ ApprovalsAreOfTheRow /\ ApprovedRowsStand
  /\ EvidenceHasItsAccount /\ RequestsJudge /\ RowsJudge /\ AttemptsJudge

LEMMA InitPromise == Init => PromiseInv
<1> SUFFICES ASSUME Init PROVE PromiseInv
  OBVIOUS
<1>1. /\ \A w \in Workers : worker[w].step = "idle"
      /\ \A p \in Proposals : /\ proposal[p].status = "absent" /\ proposal[p].version = 0
                               /\ proposal[p].approval = None
                               /\ execution[p].outcome = "none" /\ Seen(p) = {}
  BY DEF Init, Idling, Seen
<1> QED BY <1>1 DEF PromiseInv, ContentsAreNamed, VersionsStartAtOne, ApprovalsAreOfTheRow,
                    ApprovedRowsStand, EvidenceHasItsAccount, RequestsJudge, RowsJudge,
                    AttemptsJudge

-----------------------------------------------------------------------------
(* How the rows, requests, attempts and screens move.                      *)

SameContent(p) == /\ proposal'[p].version = proposal[p].version
                  /\ proposal'[p].payload = proposal[p].payload

SameRow(p) == /\ proposal'[p].status = proposal[p].status /\ SameContent(p)
              /\ proposal'[p].approval = proposal[p].approval

Closes(p) ==
  /\ proposal[p].status \in Active /\ proposal'[p].status \in {"expired", "rejected"}
  /\ SameContent(p) /\ proposal'[p].approval \in {None, proposal[p].approval}

\* New content gets a new version; an approval may go with the content kept.
Offers(p) ==
  /\ rowLock[p] = None
  /\ proposal[p].status \in Active \cup {"absent"}
  /\ proposal'[p].status \in {"proposed", "edited"}
  /\ proposal'[p].approval \in {None, proposal[p].approval}
  /\ \/ proposal'[p].version > proposal[p].version
     \/ SameContent(p) /\ proposal[p].status # "absent"
  /\ proposal[p].status = "absent" /\ GoogleAccount \in Evidence[p] => account.status # "none"

StoresApproval(p) ==
  /\ proposal[p].status \in {"proposed", "edited"} /\ proposal'[p].status = "approved"
  /\ SameContent(p)
  /\ \E w \in Workers : /\ worker[w].step = "approve" /\ worker[w].job = p
                         /\ proposal'[p].approval = worker[w].approval

StartsAttempt(p) ==
  /\ proposal[p].status = "approved" /\ proposal'[p].status = "executing"
  /\ SameContent(p) /\ proposal'[p].approval = proposal[p].approval

EndsAttempt(p) ==
  /\ proposal[p].status = "executing" /\ proposal'[p].status \in {"executed", "failed"}
  /\ SameContent(p) /\ proposal'[p].approval = proposal[p].approval

RowMoves(p) ==
  \/ SameRow(p) \/ Closes(p) \/ Offers(p) \/ StoresApproval(p) \/ StartsAttempt(p)
  \/ EndsAttempt(p)

LEMMA RequestsOfTheUserMove ==
  ASSUME TypeInv, NEW p \in Proposals, NEW q \in Proposals, ProposalStep(q)
  PROVE  RowMoves(p)
<1>1. proposal \in [Proposals -> ProposalRows] /\ proposal[p] \in ProposalRows
      /\ proposal[q].version \in Nat /\ proposal[q].version + 1 > proposal[q].version
  BY DEF TypeInv, TypeOK, ProposalRows
<1>2. CASE ViewProposal(q)
  <2>1. proposal'[p] = IF Due(p) THEN [proposal[p] EXCEPT !.status = "expired"]
                       ELSE proposal[p]
    BY <1>2 DEF ViewProposal
  <2> QED BY <1>1, <2>1 DEF RowMoves, SameRow, SameContent, Closes, Due, ProposalRows
<1>3. CASE ExpireIfDue(q)
  BY <1>1, <1>3 DEF ExpireIfDue, RowMoves, SameRow, SameContent, Closes, Due, ProposalRows
<1>4. CASE Reject(q)
  BY <1>1, <1>4 DEF Reject, Changeable, RowMoves, SameRow, SameContent, Closes, ProposalRows
<1>5. ASSUME NEW y \in Payloads, Edit(q, y) PROVE RowMoves(p)
  <2> DEFINE r == [proposal[q] EXCEPT !.status = "edited", !.version = proposal[q].version + 1,
                                      !.payload = y, !.approval = None]
  <2>1. /\ r.status = "edited" /\ r.approval = None /\ r.version > proposal[q].version
    BY <1>1 DEF ProposalRows
  <2>2. proposal' = [proposal EXCEPT ![q] = r] /\ rowLock[q] = None
        /\ proposal[q].status \in Active
    BY <1>5 DEF Edit, Changeable
  <2> HIDE DEF r
  <2>3. proposal'[q] = r /\ (p # q => proposal'[p] = proposal[p])
    BY <1>1, <2>2
  <2> QED BY <2>1, <2>2, <2>3 DEF RowMoves, SameRow, SameContent, Offers, Active
<1>6. CASE Invalidate(q)
  BY <1>1, <1>6 DEF Invalidate, Executable, RowMoves, SameRow, SameContent, Offers, Active,
                    ProposalRows
<1>7. CASE Lapse(q)
  BY <1>1, <1>7 DEF Lapse, RowMoves, SameRow, SameContent, ProposalRows
<1>8. CASE Replay(q) \/ Age(q) \/ LeaveWindow(q)
  BY <1>8 DEF Replay, Age, LeaveWindow, RowMoves, SameRow, SameContent
<1> QED BY <1>2, <1>3, <1>4, <1>5, <1>6, <1>7, <1>8 DEF ProposalStep

LEMMA GenerationMoves ==
  ASSUME TypeInv, PromiseInv, NEW p \in Proposals, NEW ranking \in Rankings,
         NEW offered \in [Proposals -> Payloads], Generate(ranking, offered)
  PROVE  RowMoves(p)
<1>1. proposal[p] \in ProposalRows /\ proposal[p].version \in Nat
      /\ proposal[p].version + 1 > proposal[p].version
  BY DEF TypeInv, TypeOK, ProposalRows
<1>2. CASE p \notin Reached(ranking)
  BY <1>2 DEF Generate, RowMoves, SameRow, SameContent
<1>3. CASE p \in Reached(ranking)
  <2>1. /\ rowLock[p] = None /\ (GoogleAccount \in Evidence[p] => account.status # "none")
        /\ proposal'[p] = Generated(p, offered[p])
    BY <1>3 DEF Generate
  <2>2. CASE proposal[p].status = "absent"
    <3>1. proposal'[p] = [status |-> "proposed", version |-> 1, payload |-> offered[p],
                          due |-> FALSE, approval |-> None]
      BY <2>1, <2>2 DEF Generated
    <3>2. proposal[p].version = 0
      BY <2>2 DEF PromiseInv, VersionsStartAtOne
    <3> QED BY <2>1, <2>2, <3>1, <3>2 DEF RowMoves, Offers
  <2>3. CASE proposal[p].status # "absent" /\ Due(p)
    BY <1>1, <2>1, <2>3 DEF Generated, Due, RowMoves, Closes, SameContent, ProposalRows
  <2>4. CASE proposal[p].status # "absent" /\ ~Due(p)
    <3>1. CASE proposal[p].status = "proposed" /\ proposal[p].payload # offered[p]
      <4>1. proposal'[p] = [proposal[p] EXCEPT !.payload = offered[p],
                                               !.version = proposal[p].version + 1]
        BY <2>1, <2>4, <3>1 DEF Generated
      <4>2. /\ proposal'[p].status = "proposed" /\ proposal'[p].approval = proposal[p].approval
            /\ proposal'[p].version = proposal[p].version + 1
        BY <1>1, <3>1, <4>1 DEF ProposalRows
      <4> QED BY <1>1, <2>1, <2>4, <3>1, <4>2 DEF RowMoves, Offers, Active
    <3>2. CASE ~(proposal[p].status = "proposed" /\ proposal[p].payload # offered[p])
      BY <2>1, <2>4, <3>2 DEF Generated, RowMoves, SameRow, SameContent
    <3> QED BY <3>1, <3>2
  <2> QED BY <2>2, <2>3, <2>4
<1> QED BY <1>2, <1>3

LEMMA RequestsInProgressMove ==
  ASSUME TypeInv, ExecutionInv, NEW p \in Proposals, NEW w \in Workers, WorkerStep(w)
  PROVE  RowMoves(p)
<1>1. /\ proposal \in [Proposals -> ProposalRows] /\ proposal[p] \in ProposalRows
      /\ worker[w].step # "idle" => worker[w].job \in Proposals
                                     /\ proposal[worker[w].job] \in ProposalRows
  BY DEF TypeInv, TypeOK, WorkersHaveJobs
<1>2. CASE ApproveCommit(w)
  <2>1. proposal[worker[w].job].status \in {"proposed", "edited"} /\ worker[w].step = "approve"
    BY <1>1, <1>2 DEF ApproveCommit, ExecutionInv, ReadsStand
  <2>2. p # worker[w].job => proposal'[p] = proposal[p]
    BY <1>1, <1>2, <2>1 DEF ApproveCommit
  <2>3. p = worker[w].job =>
          proposal'[p] = [proposal[p] EXCEPT !.status = "approved",
                                             !.approval = worker[w].approval]
    BY <1>1, <1>2, <2>1 DEF ApproveCommit
  <2> QED BY <1>1, <2>1, <2>2, <2>3 DEF RowMoves, SameRow, SameContent, StoresApproval,
                                        ProposalRows
<1>3. CASE Checkpoint(w)
  <2>1. proposal[worker[w].job].status = "approved" /\ worker[w].step = "checkpoint"
    BY <1>1, <1>3 DEF Checkpoint, ExecutionInv, ReadsStand
  <2>2. p # worker[w].job => proposal'[p] = proposal[p]
    BY <1>1, <1>3, <2>1 DEF Checkpoint
  <2>3. p = worker[w].job => proposal'[p] = [proposal[p] EXCEPT !.status = "executing"]
    BY <1>1, <1>3, <2>1 DEF Checkpoint
  <2> QED BY <1>1, <2>1, <2>2, <2>3 DEF RowMoves, SameRow, SameContent, StartsAttempt,
                                        ProposalRows
<1>4. CASE Finish(w)
  <2> DEFINE q == worker[w].job
             status == IF worker[w].result = "succeeded" THEN "executed"
                       ELSE IF worker[w].result \in {"failed", "revoked"} THEN "failed"
                       ELSE proposal[q].status
  <2>1. q \in Proposals /\ proposal[q].status = "executing"
    BY <1>1, <1>4 DEF Finish, ExecutionInv, AttemptsStand, Attempting
  <2>2. status \in {"executing", "executed", "failed"}
    BY <2>1
  <2>3. proposal' = [proposal EXCEPT ![q].status = status]
    BY <1>4 DEF Finish
  <2> HIDE DEF q, status
  <2>4. /\ p # q => proposal'[p] = proposal[p]
        /\ p = q => proposal'[p] = [proposal[p] EXCEPT !.status = status]
    BY <1>1, <2>1, <2>3
  <2> QED BY <1>1, <2>1, <2>2, <2>4 DEF RowMoves, SameRow, SameContent, EndsAttempt,
                                        ProposalRows
<1>5. CASE RunSimulated(w) \/ RefusedByRegistry(w) \/ AcquireToken(w) \/ ProviderCall(w)
           \/ Verify(w)
  BY <1>5 DEF RunSimulated, RefusedByRegistry, AcquireToken, ProviderCall, Verify,
              RowMoves, SameRow, SameContent
<1> QED BY <1>2, <1>3, <1>4, <1>5 DEF WorkerStep

\* What a step of the pipeline may do to a proposal's row.
LEMMA RowsMove ==
  ASSUME TypeInv, ExecutionInv, PromiseInv, [Next]_vars, NEW p \in Proposals
  PROVE  RowMoves(p)
<1>1. CASE proposal'[p] = proposal[p]
  BY <1>1 DEF RowMoves, SameRow, SameContent
<1>2. ASSUME NEW w \in Workers, NEW q \in Proposals,
             ApproveBegin(w, q) \/ ExecuteBegin(w, q) \/ Crash(w)
      PROVE  proposal'[p] = proposal[p]
  BY <1>2 DEF ApproveBegin, ExecuteBegin, Crash
<1>3. SweepSelect \/ SweepCommit \/ SweepCrash \/ UNCHANGED proposalVars \/ UNCHANGED vars
        => proposal'[p] = proposal[p]
  BY DEF SweepSelect, SweepCommit, SweepCrash, vars, proposalVars
<1> QED BY <1>1, <1>2, <1>3, RequestsOfTheUserMove, GenerationMoves, RequestsInProgressMove
        DEF Next

\* A request ends, goes on with what it holds, or begins.
RequestMoves(w) ==
  \/ worker'[w].step = "idle"
  \/ /\ worker[w].step # "idle" /\ (worker'[w].step = "approve" => worker[w].step = "approve")
     /\ worker'[w].job = worker[w].job /\ worker'[w].approval = worker[w].approval
  \/ \E p \in Proposals :
       /\ Approvable(p) /\ UNCHANGED proposal
       /\ worker'[w].job = p /\ worker'[w].approval.context = CurrentContext(p)
       /\ worker'[w].approval.version = proposal[p].version
       /\ worker'[w].approval.payload = proposal[p].payload
  \/ \E p \in Proposals :
       /\ proposal[p].approval # None
       /\ worker'[w].step = "checkpoint" /\ worker'[w].job = p
       /\ worker'[w].approval = proposal[p].approval

LEMMA RequestsMove ==
  ASSUME TypeInv, [Next]_vars, NEW w \in Workers
  PROVE  RequestMoves(w)
<1>1. worker \in [Workers -> WorkerStates] /\ worker[w] \in WorkerStates
  BY DEF TypeInv, TypeOK
<1>2. worker'[w] = worker[w] => RequestMoves(w)
  BY DEF RequestMoves
<1>3. ASSUME NEW v \in Workers, NEW p \in Proposals, ApproveBegin(v, p) PROVE RequestMoves(w)
  <2>1. CASE v = w
    <3> DEFINE x == [step |-> "approve", job |-> p, result |-> "none",
                     approval |-> [version |-> proposal[p].version,
                                   payload |-> proposal[p].payload,
                                   context |-> CurrentContext(p), consent |-> consents]]
    <3>1. Approvable(p) /\ UNCHANGED proposal /\ worker' = [worker EXCEPT ![w] = x]
      BY <1>3, <2>1 DEF ApproveBegin
    <3>2. /\ x.job = p /\ x.approval.context = CurrentContext(p)
          /\ x.approval.version = proposal[p].version
          /\ x.approval.payload = proposal[p].payload
      OBVIOUS
    <3> HIDE DEF x
    <3>3. worker'[w] = x
      BY <1>1, <3>1
    <3> QED BY <3>1, <3>2, <3>3 DEF RequestMoves
  <2>2. CASE v # w
    <3>1. worker'[w] = worker[w]
      BY <1>1, <1>3, <2>2 DEF ApproveBegin
    <3> QED BY <1>2, <3>1
  <2> QED BY <2>1, <2>2
<1>4. ASSUME NEW v \in Workers, NEW p \in Proposals, ExecuteBegin(v, p) PROVE RequestMoves(w)
  <2>1. /\ proposal[p].approval # None
        /\ v = w => /\ worker'[w].step = "checkpoint" /\ worker'[w].job = p
                    /\ worker'[w].approval = proposal[p].approval
        /\ v # w => worker'[w] = worker[w]
    BY <1>1, <1>4 DEF ExecuteBegin, Executable
  <2> QED BY <1>2, <2>1 DEF RequestMoves
<1>5. ASSUME NEW v \in Workers, WorkerStep(v) \/ Crash(v) PROVE RequestMoves(w)
  <2>1. worker[v].step # "idle" /\ worker[v] \in WorkerStates
    BY <1>1, <1>5 DEF WorkerStep, ApproveCommit, Checkpoint, RunSimulated, RefusedByRegistry,
                      AcquireToken, ProviderCall, Verify, Finish, Crash, TypeInv, TypeOK
  <2>2. \/ worker' = [worker EXCEPT ![v] = Idling]
        \/ \E step \in {"started", "call", "verify"} : worker' = [worker EXCEPT ![v].step = step]
        \/ \E result \in Results : Ends(v, result)
    BY <1>5 DEF WorkerStep, ApproveCommit, Checkpoint, RunSimulated, RefusedByRegistry,
                AcquireToken, ProviderCall, Verify, Finish, Crash, Results
  <2>3. CASE v # w
    <3>1. worker'[w] = worker[w]
      BY <1>1, <2>2, <2>3 DEF Ends
    <3> QED BY <1>2, <3>1
  <2>4. CASE v = w
    <3>1. CASE worker' = [worker EXCEPT ![v] = Idling]
      BY <1>1, <2>4, <3>1, WorkerLeaves DEF RequestMoves
    <3>2. ASSUME NEW step \in {"started", "call", "verify"},
                 worker' = [worker EXCEPT ![v].step = step]
          PROVE  RequestMoves(w)
      BY <1>1, <2>1, <2>4, <3>2, StepEffect DEF RequestMoves, Steps
    <3>3. ASSUME NEW result \in Results, Ends(v, result) PROVE RequestMoves(w)
      BY <1>1, <2>1, <2>4, <3>3, EndsEffect DEF RequestMoves
    <3> QED BY <2>2, <3>1, <3>2, <3>3
  <2> QED BY <2>3, <2>4
<1>6. ASSUME NEW p \in Proposals, ProposalStep(p) PROVE worker' = worker
  BY <1>6 DEF ProposalStep, ViewProposal, ExpireIfDue, Reject, Edit, Replay, Invalidate,
              Lapse, Age, LeaveWindow
<1>7. ASSUME NEW ranking \in Rankings, NEW offered \in [Proposals -> Payloads],
             Generate(ranking, offered)
      PROVE  worker' = worker
  BY <1>7 DEF Generate
<1>8. SweepSelect \/ SweepCommit \/ SweepCrash \/ UNCHANGED proposalVars \/ UNCHANGED vars
        => worker' = worker
  BY DEF SweepSelect, SweepCommit, SweepCrash, vars, proposalVars
<1> QED BY <1>2, <1>3, <1>4, <1>5, <1>6, <1>7, <1>8 DEF Next

\* An attempt keeps the approval it was committed with.
LEMMA AttemptsMove ==
  ASSUME TypeInv, ExecutionInv, [Next]_vars, NEW p \in Proposals
  PROVE  \/ /\ execution'[p].approval = execution[p].approval
            /\ execution'[p].outcome = "none" <=> execution[p].outcome = "none"
         \/ \E w \in Workers : /\ worker[w].step = "checkpoint" /\ worker[w].job = p
                               /\ execution'[p].approval = worker[w].approval
<1> DEFINE Same == /\ execution'[p].approval = execution[p].approval
                   /\ execution'[p].outcome = "none" <=> execution[p].outcome = "none"
<1>1. /\ execution \in [Proposals -> ExecutionRows] /\ execution[p] \in ExecutionRows
      /\ worker \in [Workers -> WorkerStates]
      /\ \A w \in Workers : worker[w].step # "idle" => worker[w].job \in Proposals
  BY DEF TypeInv, TypeOK, WorkersHaveJobs
<1>2. execution' = execution => Same
  OBVIOUS
<1>3. ASSUME NEW q \in Proposals, Replay(q) \/ Age(q) PROVE Same
  BY <1>1, <1>3 DEF Replay, Age, ExecutionRows
<1>4. ASSUME SweepCommit PROVE Same
  <2>1. p \in sweep => execution[p].outcome # "none"
    BY DEF ExecutionInv, SweepIsRecorded
  <2>2. execution'[p] = IF p \in sweep THEN [execution[p] EXCEPT !.outcome = "uncertain"]
                        ELSE execution[p]
    BY <1>4 DEF SweepCommit
  <2> QED BY <1>1, <2>1, <2>2 DEF ExecutionRows
<1>5. ASSUME NEW w \in Workers, Checkpoint(w)
      PROVE  \/ Same
             \/ /\ worker[w].step = "checkpoint" /\ worker[w].job = p
                /\ execution'[p].approval = worker[w].approval
  BY <1>1, <1>5 DEF Checkpoint
<1>6. ASSUME NEW w \in Workers, Finish(w) PROVE Same
  <2> DEFINE q == worker[w].job
             outcome == IF worker[w].result = "revoked" THEN "failed" ELSE worker[w].result
  <2>1. q \in Proposals /\ execution[q].outcome # "none" /\ outcome # "none"
    BY <1>1, <1>6 DEF Finish, ExecutionInv, AttemptsStand, AttemptsAreRecorded, Attempting,
                      KnowsItsWrite
  <2>2. execution' = [execution EXCEPT ![q].outcome = outcome]
    BY <1>6 DEF Finish
  <2> HIDE DEF q, outcome
  <2> QED BY <1>1, <2>1, <2>2 DEF ExecutionRows
<1>7. ASSUME NEW w \in Workers, WorkerStep(w) \/ Crash(w), ~Checkpoint(w), ~Finish(w)
      PROVE  execution' = execution
  BY <1>7 DEF WorkerStep, ApproveCommit, RunSimulated, RefusedByRegistry, AcquireToken,
              ProviderCall, Verify, Crash
<1>8. ASSUME NEW w \in Workers, NEW q \in Proposals, ApproveBegin(w, q) \/ ExecuteBegin(w, q)
      PROVE  execution' = execution
  BY <1>8 DEF ApproveBegin, ExecuteBegin
<1>9. ASSUME NEW q \in Proposals, ProposalStep(q), ~Replay(q), ~Age(q)
      PROVE  execution' = execution
  BY <1>9 DEF ProposalStep, ViewProposal, ExpireIfDue, Reject, Edit, Invalidate, Lapse,
              LeaveWindow
<1>10. ASSUME NEW ranking \in Rankings, NEW offered \in [Proposals -> Payloads],
              Generate(ranking, offered)
       PROVE  execution' = execution
  BY <1>10 DEF Generate
<1>11. SweepSelect \/ SweepCrash \/ UNCHANGED proposalVars \/ UNCHANGED vars
         => execution' = execution
  BY DEF SweepSelect, SweepCrash, vars, proposalVars
<1> HIDE DEF Same
<1> DEFINE Kept == \E w \in Workers : /\ worker[w].step = "checkpoint" /\ worker[w].job = p
                                      /\ execution'[p].approval = worker[w].approval
<1>12. ASSUME NEW w \in Workers, WorkerStep(w) \/ Crash(w) PROVE Same \/ Kept
  BY <1>2, <1>5, <1>6, <1>7, <1>12
<1> HIDE DEF Kept
<1>13. ASSUME NEW q \in Proposals, ProposalStep(q) PROVE Same
  BY <1>2, <1>3, <1>9, <1>13
<1>14. SweepSelect \/ SweepCommit \/ SweepCrash \/ UNCHANGED proposalVars \/ UNCHANGED vars
         => Same
  BY <1>2, <1>4, <1>11
<1>15. Same \/ Kept
  BY <1>2, <1>8, <1>10, <1>12, <1>13, <1>14 DEF Next
<1> QED BY <1>15 DEF Same, Kept

\* A screen shows, and a click names, the committed content.
LEMMA ScreensMove ==
  ASSUME TypeInv, [Next]_vars, NEW p \in Proposals, NEW c, c \in Seen(p)'
  PROVE  \/ c \in Seen(p)
         \/ c.version = proposal[p].version /\ c.payload = proposal[p].payload
<1>1. /\ screen \in [Proposals -> Displays \cup {None}]
      /\ clicks \in [Proposals -> SUBSET Displays]
  BY DEF TypeInv, TypeOK
<1> DEFINE Known == \/ c \in Seen(p)
                    \/ c.version = proposal[p].version /\ c.payload = proposal[p].payload
<1>2. screen' = screen /\ clicks' = clicks => Known
  BY DEF Seen
<1>3. ASSUME NEW q \in Proposals, ViewProposal(q) PROVE Known
  <2> DEFINE d == [version |-> proposal[q].version, payload |-> proposal[q].payload,
                   context |-> DisplayedContext(q)]
  <2>1. screen' = [screen EXCEPT ![q] = d] /\ clicks' = clicks
    BY <1>3 DEF ViewProposal
  <2>2. d.version = proposal[q].version /\ d.payload = proposal[q].payload
    OBVIOUS
  <2> HIDE DEF d
  <2> QED BY <1>1, <2>1, <2>2 DEF Seen
<1>4. ASSUME NEW w \in Workers, NEW q \in Proposals, ApproveBegin(w, q) PROVE Known
  <2>1. /\ clicks' = [clicks EXCEPT ![q] = clicks[q] \cup {screen[q]}] /\ screen' = screen
        /\ screen[q].version = proposal[q].version /\ screen[q].payload = proposal[q].payload
    BY <1>4 DEF ApproveBegin, Approvable
  <2> QED BY <1>1, <2>1 DEF Seen
<1>5. ASSUME NEW q \in Proposals, ProposalStep(q), ~ViewProposal(q)
      PROVE  screen' = screen /\ clicks' = clicks
  BY <1>5 DEF ProposalStep, ExpireIfDue, Reject, Edit, Replay, Invalidate, Lapse, Age,
              LeaveWindow
<1>6. ASSUME NEW w \in Workers, NEW q \in Proposals,
             ExecuteBegin(w, q) \/ WorkerStep(w) \/ Crash(w)
      PROVE  screen' = screen /\ clicks' = clicks
  BY <1>6 DEF ExecuteBegin, WorkerStep, ApproveCommit, Checkpoint, RunSimulated,
              RefusedByRegistry, AcquireToken, ProviderCall, Verify, Finish, Crash
<1>7. ASSUME NEW ranking \in Rankings, NEW offered \in [Proposals -> Payloads],
             Generate(ranking, offered)
      PROVE  screen' = screen /\ clicks' = clicks
  BY <1>7 DEF Generate
<1>8. SweepSelect \/ SweepCommit \/ SweepCrash \/ UNCHANGED proposalVars \/ UNCHANGED vars
        => screen' = screen /\ clicks' = clicks
  BY DEF SweepSelect, SweepCommit, SweepCrash, vars, proposalVars
<1> HIDE DEF Known
<1>9. Known
  BY <1>2, <1>3, <1>4, <1>5, <1>6, <1>7, <1>8 DEF Next
<1> QED BY <1>9 DEF Known

\* An account row, once there, is never gone.
LEMMA AccountStays ==
  ASSUME TypeInv, [Next]_vars, account.status # "none"
  PROVE  account'.status # "none"
<1>1. /\ account \in Rows
      /\ \A h \in Handlers : handler[h].op \in {"idle", "store", "disconnect"}
                             /\ handler[h].loaded \in Rows
  BY DEF TypeInv, TypeOK, AccountTypeOK
<1>2. CASE AccountNext
  <2>1. ASSUME NEW h \in Handlers, StoreTokensCommit(h) PROVE account'.status # "none"
    BY <2>1 DEF StoreTokensCommit, Written
  <2>2. ASSUME NEW h \in Handlers, DisconnectCommit(h) PROVE account'.status # "none"
    BY <1>1, <2>2 DEF DisconnectCommit, Written, Rows
  <2>3. ASSUME NEW h \in Handlers, InsertAccount(h) PROVE account'.status # "none"
    BY <2>3 DEF InsertAccount
  <2>4. RevokedBySync => account'.status # "none"
    BY <1>1 DEF RevokedBySync, Rows
  <2>5. ASSUME NEW h \in Handlers, NEW granted \in Grants,
               StoreTokensRead(h, granted) \/ DisconnectRead(h) \/ HandlerCrash(h)
        PROVE  account'.status # "none"
    BY <2>5 DEF StoreTokensRead, DisconnectRead, HandlerCrash
  <2>6. ASSUME NEW h \in Handlers, DisconnectRead(h) \/ HandlerCrash(h)
        PROVE  account'.status # "none"
    BY <2>6 DEF DisconnectRead, HandlerCrash
  <2> QED BY <1>2, <2>1, <2>2, <2>3, <2>4, <2>5, <2>6 DEF AccountNext
<1>3. ASSUME NEW w \in Workers, Finish(w) PROVE account'.status # "none"
  BY <1>1, <1>3 DEF Finish, Rows
<1>4. ASSUME NEW w \in Workers, WorkerStep(w) \/ Crash(w), ~Finish(w) PROVE account' = account
  BY <1>4 DEF WorkerStep, ApproveCommit, Checkpoint, RunSimulated, RefusedByRegistry,
              AcquireToken, ProviderCall, Verify, Crash, accountVars
<1>5. ASSUME NEW q \in Proposals, ProposalStep(q) PROVE account' = account
  BY <1>5 DEF ProposalStep, ViewProposal, ExpireIfDue, Reject, Edit, Replay, Invalidate,
              Lapse, Age, LeaveWindow, accountVars
<1>6. ASSUME NEW w \in Workers, NEW q \in Proposals, ApproveBegin(w, q) \/ ExecuteBegin(w, q)
      PROVE  account' = account
  BY <1>6 DEF ApproveBegin, ExecuteBegin, accountVars
<1>7. ASSUME NEW ranking \in Rankings, NEW offered \in [Proposals -> Payloads],
             Generate(ranking, offered)
      PROVE  account' = account
  BY <1>7 DEF Generate, accountVars
<1>8. SweepSelect \/ SweepCommit \/ SweepCrash \/ UNCHANGED vars => account' = account
  BY DEF SweepSelect, SweepCommit, SweepCrash, vars, accountVars
<1> QED BY <1>2, <1>3, <1>4, <1>5, <1>6, <1>7, <1>8 DEF Next

-----------------------------------------------------------------------------
(* The invariant is kept.                                                  *)

\* Only evidence that is nothing but the Google account makes a real action;
\* only evidence without it, or a task, makes a simulation.
LEMMA ResolvedMode ==
  ASSUME NEW type \in ActionTypes, NEW accounts, NEW evidence \in SUBSET AccountIds
  PROVE  LET mode == ResolveExecutionContext(type, accounts, evidence).mode
         IN  /\ mode \in {"real", "simulation", "unavailable"}
             /\ mode = "real" => /\ type # "create_task"
                                 /\ GoogleIds(accounts, evidence) # {}
             /\ mode = "simulation" => \/ type = "create_task"
                                       \/ GoogleIds(accounts, evidence) = {}
<1> DEFINE linked == GoogleIds(accounts, evidence)
           context == ResolveExecutionContext(type, accounts, evidence)
           only   == CHOOSE a \in linked : TRUE
<1>1. CASE type = "create_task"
  <2>1. context.mode = "simulation"
    BY <1>1 DEF ResolveExecutionContext, Detached
  <2> QED BY <1>1, <2>1
<1>2. CASE type # "create_task" /\ linked # {}
  <2>1. CASE evidence # {only}
    <3>1. context.mode = "unavailable"
      BY <1>2, <2>1 DEF ResolveExecutionContext, Detached
    <3> QED BY <3>1
  <2>2. CASE evidence = {only}
    <3>1. context.mode \in {"real", "unavailable"}
      BY <1>2, <2>2 DEF ResolveExecutionContext, Detached
    <3> QED BY <1>2, <3>1
  <2> QED BY <2>1, <2>2
<1>3. CASE type # "create_task" /\ linked = {}
  <2>1. context.mode \in {"simulation", "unavailable"}
    BY <1>3 DEF ResolveExecutionContext, Detached
  <2> QED BY <1>3, <2>1
<1> QED BY <1>1, <1>2, <1>3

LEMMA CurrentContextJudges ==
  ASSUME NEW p \in Proposals, CurrentContext(p).mode # "unavailable",
         GoogleAccount \in Evidence[p] => account.status # "none"
  PROVE  /\ CurrentContext(p).mode \in {"real", "simulation"}
         /\ CurrentContext(p).mode = "simulation" <=> p \in Simulated
<1>1. TypeOf[p] \in ActionTypes /\ Evidence[p] \in SUBSET AccountIds
  BY TypesAndEvidence
<1>2. GoogleIds(Accounts, Evidence[p]) # {} <=> GoogleAccount \in Evidence[p]
  <2>1. \A a \in DOMAIN Accounts : Accounts[a].provider = "google" <=> a # DemoAccount
    BY DEF Accounts, DemoRow
  <2>2. GoogleAccount \in DOMAIN Accounts <=> account.status # "none"
    BY Accounts2 DEF Accounts
  <2>3. \A a \in GoogleIds(Accounts, Evidence[p]) : a = GoogleAccount /\ a \in Evidence[p]
    BY <1>1, <2>1, Accounts2 DEF GoogleIds
  <2>4. GoogleAccount \in Evidence[p] => GoogleAccount \in GoogleIds(Accounts, Evidence[p])
    BY <2>1, <2>2, Accounts2 DEF GoogleIds
  <2> QED BY <2>3, <2>4
<1>3. p \in Simulated <=> TypeOf[p] = "create_task" \/ GoogleAccount \notin Evidence[p]
  BY DEF Simulated
<1> HIDE DEF Simulated
<1> QED BY <1>1, <1>2, <1>3, ResolvedMode DEF CurrentContext

LEMMA NextPromise ==
  TypeInv /\ ExecutionInv /\ PromiseInv /\ [Next]_vars => PromiseInv'
<1> SUFFICES ASSUME TypeInv, ExecutionInv, PromiseInv, [Next]_vars PROVE PromiseInv'
  OBVIOUS
<1>1. /\ \A p \in Proposals : proposal[p] \in ProposalRows /\ proposal[p].version \in Nat
      /\ \A p \in Proposals : clicks[p] \in SUBSET Displays /\ screen[p] \in Displays \cup {None}
      /\ \A w \in Workers : worker[w].step # "idle" => /\ worker[w].job \in Proposals
                                                       /\ worker[w].approval \in Approvals
  BY DEF TypeInv, TypeOK, WorkersHaveJobs, ProposalRows
<1>2. \A p \in Proposals : RowMoves(p)
  BY RowsMove
<1>3. \A p \in Proposals : \A c \in Seen(p)' :
        \/ c \in Seen(p)
        \/ c.version = proposal[p].version /\ c.payload = proposal[p].payload
  BY ScreensMove
<1>4. ContentsAreNamed'
  <2> SUFFICES ASSUME NEW p \in Proposals, NEW c \in Seen(p)'
               PROVE  /\ c.version <= proposal'[p].version
                      /\ c.version = proposal'[p].version => c.payload = proposal'[p].payload
                      /\ \A d \in Seen(p)' : c.version = d.version => c.payload = d.payload
    BY DEF ContentsAreNamed
  <2>1. /\ proposal'[p].version \in Nat
        /\ proposal'[p].version > proposal[p].version \/ SameContent(p)
    <3>1. TypeInv'
      BY NextTypeInv
    <3> QED BY <1>2, <3>1 DEF TypeInv, TypeOK, ProposalRows, RowMoves, SameRow, Closes, Offers,
                              StoresApproval, StartsAttempt, EndsAttempt
  <2>2. \A d \in Seen(p)' : /\ d.version <= proposal[p].version /\ d.version \in Nat
                            /\ d.version = proposal[p].version => d.payload = proposal[p].payload
    <3>1. \A d \in Seen(p) : d.version \in Nat
      BY <1>1 DEF Seen, Displays
    <3> QED BY <1>1, <1>3, <3>1 DEF PromiseInv, ContentsAreNamed
  <2>3. c.version <= proposal'[p].version
    BY <1>1, <2>1, <2>2 DEF SameContent
  <2>4. c.version = proposal'[p].version => c.payload = proposal'[p].payload
    BY <1>1, <2>1, <2>2 DEF SameContent
  <2>5. ASSUME NEW d \in Seen(p)', c.version = d.version PROVE c.payload = d.payload
    BY <1>3, <2>2, <2>5 DEF PromiseInv, ContentsAreNamed
  <2> QED BY <2>3, <2>4, <2>5
<1>5. VersionsStartAtOne'
  BY <1>2 DEF VersionsStartAtOne, PromiseInv, RowMoves, SameRow, SameContent, Closes, Offers,
              StoresApproval, StartsAttempt, EndsAttempt
<1>6. \A w \in Workers : RequestMoves(w)
  BY RequestsMove
<1>7. ApprovalsAreOfTheRow'
  <2> SUFFICES ASSUME NEW w \in Workers, worker'[w].step = "approve"
               PROVE  /\ worker'[w].approval.version = proposal'[worker'[w].job].version
                      /\ worker'[w].approval.payload = proposal'[worker'[w].job].payload
    BY DEF ApprovalsAreOfTheRow
  <2>1. CASE /\ worker[w].step = "approve"
             /\ worker'[w].job = worker[w].job /\ worker'[w].approval = worker[w].approval
    <3> DEFINE p == worker[w].job
    <3>1. p \in Proposals /\ rowLock[p] = w /\ rowLock[p] # None
      BY <1>1, <2>1, NoneIsNoWorker DEF ExecutionInv, RowsLockedByJobs, HoldsRow
    <3>2. SameContent(p)
      BY <1>2, <3>1 DEF RowMoves, SameRow, Closes, Offers, StoresApproval, StartsAttempt,
                        EndsAttempt
    <3> QED BY <2>1, <3>2 DEF PromiseInv, ApprovalsAreOfTheRow, SameContent
  <2>2. ASSUME NEW p \in Proposals, UNCHANGED proposal, worker'[w].job = p,
               worker'[w].approval.version = proposal[p].version,
               worker'[w].approval.payload = proposal[p].payload
        PROVE  /\ worker'[w].approval.version = proposal'[worker'[w].job].version
               /\ worker'[w].approval.payload = proposal'[worker'[w].job].payload
    BY <2>2
  <2> QED BY <1>6, <2>1, <2>2 DEF RequestMoves
<1>8. ApprovedRowsStand'
  <2> SUFFICES ASSUME NEW p \in Proposals, proposal'[p].status = "approved"
               PROVE  /\ proposal'[p].approval # None
                      /\ proposal'[p].approval.version = proposal'[p].version
                      /\ proposal'[p].approval.payload = proposal'[p].payload
    BY DEF ApprovedRowsStand
  <2>1. CASE SameRow(p)
    BY <2>1 DEF SameRow, SameContent, PromiseInv, ApprovedRowsStand
  <2>2. CASE StoresApproval(p)
    BY <1>1, <2>2, NoneIsNoApproval DEF StoresApproval, SameContent, PromiseInv,
                                        ApprovalsAreOfTheRow
  <2> QED BY <1>2, <2>1, <2>2 DEF RowMoves, Closes, Offers, StartsAttempt, EndsAttempt
<1>9. EvidenceHasItsAccount'
  <2>1. \A p \in Proposals : proposal'[p].status # "absent" /\ GoogleAccount \in Evidence[p]
          => account.status # "none"
    BY <1>2 DEF PromiseInv, EvidenceHasItsAccount, RowMoves, SameRow, Closes, Offers,
                StoresApproval, StartsAttempt, EndsAttempt, Active
  <2> QED BY <2>1, AccountStays DEF EvidenceHasItsAccount
<1>10. RequestsJudge'
  <2> SUFFICES ASSUME NEW w \in Workers, worker'[w].step # "idle"
               PROVE  Judges(worker'[w].approval, worker'[w].job)
    BY DEF RequestsJudge, Judges
  <2>1. ASSUME NEW p \in Proposals, Approvable(p),
               worker'[w].job = p, worker'[w].approval.context = CurrentContext(p)
        PROVE  Judges(worker'[w].approval, worker'[w].job)
    BY <2>1, CurrentContextJudges DEF Approvable, Judges, PromiseInv, EvidenceHasItsAccount
  <2>2. CASE \E p \in Proposals :
               /\ proposal[p].approval # None
               /\ worker'[w].step = "checkpoint" /\ worker'[w].job = p
               /\ worker'[w].approval = proposal[p].approval
    BY <2>2 DEF PromiseInv, RowsJudge
  <2>3. CASE /\ worker[w].step # "idle"
             /\ worker'[w].job = worker[w].job /\ worker'[w].approval = worker[w].approval
    BY <2>3 DEF PromiseInv, RequestsJudge
  <2> QED BY <1>6, <2>1, <2>2, <2>3 DEF RequestMoves
<1>11. RowsJudge'
  <2>1. \A p \in Proposals : \/ proposal'[p].approval \in {None, proposal[p].approval}
                             \/ \E w \in Workers : /\ worker[w].step = "approve"
                                                   /\ worker[w].job = p
                                                   /\ proposal'[p].approval = worker[w].approval
    BY <1>2 DEF RowMoves, SameRow, Closes, Offers, StoresApproval, StartsAttempt, EndsAttempt
  <2> QED BY <2>1 DEF PromiseInv, RowsJudge, RequestsJudge, Judges
<1>12. AttemptsJudge'
  <2> SUFFICES ASSUME NEW p \in Proposals, execution'[p].outcome # "none"
               PROVE  Judges(execution'[p].approval, p)
    BY DEF AttemptsJudge, Judges
  <2> QED BY AttemptsMove DEF PromiseInv, AttemptsJudge, RequestsJudge
<1> QED BY <1>4, <1>5, <1>7, <1>8, <1>9, <1>10, <1>11, <1>12 DEF PromiseInv

LEMMA PromiseInvariant == Spec => [](TypeInv /\ ExecutionInv /\ AgreementInv /\ PromiseInv)
BY ExecutionInvariant, InitAgreement, NextAgreement, InitPromise, NextPromise, PTL DEF Spec

-----------------------------------------------------------------------------
(* What follows from the invariant.                                        *)

\* An approval that a proposal shows as given was given, by a click on its
\* very content, whatever was regenerated, edited or withdrawn before; and a
\* version number says which content that is (action_proposal_service.py,
\* approve).
THEOREM ApprovalsStand == Spec => []ApprovalStands
<1>1. AgreementInv /\ PromiseInv => ApprovalStands
  <2> SUFFICES ASSUME AgreementInv, PromiseInv PROVE ApprovalStands
    OBVIOUS
  <2>1. VersionNamesContent
    BY DEF VersionNamesContent, PromiseInv, ContentsAreNamed, Seen
  <2>2. ASSUME NEW p \in Proposals, proposal[p].status = "approved"
        PROVE  /\ proposal[p].approval # None
               /\ proposal[p].approval.version = proposal[p].version
               /\ \E c \in clicks[p] : /\ c.version = proposal[p].version
                                       /\ c.payload = proposal[p].payload
                                       /\ c.context = proposal[p].approval.context
    BY <2>2 DEF PromiseInv, ApprovedRowsStand, AgreementInv, RowsAreAgreedTo, AgreedTo
  <2> QED BY <2>1, <2>2 DEF ApprovalStands
<1> QED BY <1>1, PromiseInvariant, PTL

\* A task, and whatever is about evidence that is not from Google, never
\* reaches Google, whatever accounts are connected after it was offered.
THEOREM SimulationsNeverWrite == Spec => []SimulationNeverWrites
<1>1. TypeInv /\ ExecutionInv /\ AgreementInv /\ PromiseInv => SimulationNeverWrites
  <2> SUFFICES ASSUME TypeInv, ExecutionInv, AgreementInv, PromiseInv,
                      NEW p \in Simulated, writes[p] # <<>>
               PROVE  FALSE
    BY DEF SimulationNeverWrites
  <2>1. p \in Proposals /\ writes[p] \in Seq(Writes)
    BY DEF Simulated, TypeInv, TypeOK
  <2>2. 1 \in DOMAIN writes[p]
    BY <2>1
  <2>3. execution[p].approval.context.mode = "real"
    BY <2>1, <2>2 DEF AgreementInv, WriteWasAgreedTo
  <2>4. execution[p].outcome # "none"
    BY <2>1 DEF ExecutionInv, RecordIsTruthful, HasWritten
  <2> QED BY <2>1, <2>3, <2>4 DEF PromiseInv, AttemptsJudge, Judges
<1> QED BY <1>1, PromiseInvariant, PTL

-----------------------------------------------------------------------------
(* Generation.                                                             *)

\* Behind a candidate that is being created, no other of its type is reached;
\* before it, all of them were passed.
LEMMA OnlyPassedOnes ==
  ASSUME NEW ranking \in Rankings, NEW p \in Reached(ranking), NEW q \in Reached(ranking),
         p # q, TypeOf[p] = TypeOf[q], proposal[p].status = "absent"
  PROVE  Passed(q)
<1>1. ~Passed(p)
  BY DEF Passed, Due, Active
<1>2. PICK n \in Nat : ranking \in [1..n -> Proposals]
  BY DEF Rankings
<1>3. PICK i \in 1..n : /\ ranking[i] = p
                        /\ \A j \in 1..(i - 1) : TypeOf[ranking[j]] = TypeOf[p] => Passed(ranking[j])
  BY <1>2 DEF Reached
<1>4. PICK k \in 1..n : /\ ranking[k] = q
                        /\ \A j \in 1..(k - 1) : TypeOf[ranking[j]] = TypeOf[q] => Passed(ranking[j])
  BY <1>2 DEF Reached
<1>5. i # k
  BY <1>3, <1>4
<1>6. CASE i < k
  BY <1>1, <1>2, <1>3, <1>4, <1>6
<1>7. CASE k < i
  BY <1>1, <1>2, <1>3, <1>4, <1>7
<1> QED BY <1>2, <1>5, <1>6, <1>7

\* When a pass of generation creates a proposal, it does to the others of
\* its type nothing but expire those that are due.
THEOREM PassesFillOneSlot == Spec => OneSlotPerPass
<1>1. ASSUME TypeInv, ExecutionInv, PromiseInv, [Next]_vars,
             NEW p \in Proposals, NEW q \in Proposals, p # q, TypeOf[p] = TypeOf[q],
             proposal[p].status = "absent", proposal'[p].status = "proposed"
      PROVE  proposal'[q] = proposal[q] \/ proposal'[q].status = "expired"
  <2>1. /\ proposal \in [Proposals -> ProposalRows]
        /\ \A v \in Workers : worker[v].step # "idle" => worker[v].job \in Proposals
    BY <1>1 DEF TypeInv, TypeOK, WorkersHaveJobs
  <2>2. PICK ranking \in Rankings, offered \in [Proposals -> Payloads] :
          Generate(ranking, offered)
    <3>1. ASSUME NEW r \in Proposals, ProposalStep(r)
          PROVE  proposal'[p].status # "proposed"
      BY <1>1, <2>1, <3>1 DEF ProposalStep, ViewProposal, ExpireIfDue, Reject, Edit,
         Changeable, Replay, Invalidate, Executable, Lapse, Age, LeaveWindow, Due, Active
    <3>2. ASSUME NEW w \in Workers, WorkerStep(w)
          PROVE  proposal'[p].status # "proposed"
      <4>1. CASE StoresApproval(p) \/ StartsAttempt(p) \/ EndsAttempt(p) \/ Closes(p)
                 \/ SameRow(p)
        BY <1>1, <4>1 DEF StoresApproval, StartsAttempt, EndsAttempt, Closes, SameRow
      <4>2. CASE Offers(p)
        <5>1. CASE ApproveCommit(w) \/ Checkpoint(w) \/ Finish(w)
          <6>1. worker[w].job \in Proposals /\ proposal[worker[w].job].status # "absent"
            BY <1>1, <2>1, <5>1 DEF ApproveCommit, Checkpoint, Finish, ExecutionInv,
               ReadsStand, AttemptsStand, Attempting
          <6>2. worker[w].job # p
            BY <1>1, <6>1
          <6>3. proposal'[p] = proposal[p]
            BY <2>1, <5>1, <6>2 DEF ApproveCommit, Checkpoint, Finish
          <6> QED BY <1>1, <6>3
        <5>2. CASE UNCHANGED proposal
          BY <1>1, <5>2
        <5> QED BY <3>2, <5>1, <5>2 DEF WorkerStep, RunSimulated, RefusedByRegistry,
                   AcquireToken, ProviderCall, Verify
      <4> QED BY <3>2, <4>1, <4>2, RequestsInProgressMove, <1>1 DEF RowMoves
    <3>3. ASSUME NEW w \in Workers, NEW r \in Proposals,
                 ApproveBegin(w, r) \/ ExecuteBegin(w, r) \/ Crash(w)
          PROVE  proposal' = proposal
      BY <3>3 DEF ApproveBegin, ExecuteBegin, Crash
    <3>4. SweepSelect \/ SweepCommit \/ SweepCrash \/ UNCHANGED proposalVars \/ UNCHANGED vars
            => proposal' = proposal
      BY DEF SweepSelect, SweepCommit, SweepCrash, vars, proposalVars
    <3> QED BY <1>1, <3>1, <3>2, <3>3, <3>4 DEF Next
  <2>3. p \in Reached(ranking)
    BY <1>1, <2>2 DEF Generate
  <2>4. CASE q \notin Reached(ranking)
    BY <2>2, <2>4 DEF Generate
  <2>5. CASE q \in Reached(ranking)
    <3>1. Passed(q)
      BY <1>1, <2>3, <2>5, OnlyPassedOnes
    <3>2. proposal'[q] = Generated(q, offered[q])
      BY <2>2, <2>5 DEF Generate
    <3>3. Generated(q, offered[q]) = proposal[q]
          \/ Generated(q, offered[q]) = [proposal[q] EXCEPT !.status = "expired"]
      BY <3>1 DEF Passed, Generated, Due, Active
    <3>4. [proposal[q] EXCEPT !.status = "expired"].status = "expired"
      BY <2>1 DEF ProposalRows
    <3> QED BY <3>2, <3>3, <3>4
  <2> QED BY <2>4, <2>5
<1>2. TypeInv /\ ExecutionInv /\ PromiseInv /\ [Next]_vars =>
        [\A p, q \in Proposals :
           /\ p # q /\ TypeOf[p] = TypeOf[q]
           /\ proposal[p].status = "absent" /\ proposal'[p].status = "proposed"
           => proposal'[q] = proposal[q] \/ proposal'[q].status = "expired"]_vars
  BY <1>1
<1> QED BY <1>2, PromiseInvariant, PTL DEF Spec, OneSlotPerPass

-----------------------------------------------------------------------------
(* The refinement.                                                         *)

\* The state of the promise that the instance Pipeline substitutes.
Promised == [p \in Proposals |-> [phase |-> PhaseOf(p), content |-> ContentOf(p),
                                  applied |-> writes[p] # <<>>]]

LEMMA PromisedInit == Init => Pipeline!Init
<1> SUFFICES ASSUME Init PROVE Pipeline!Init
  OBVIOUS
<1>1. \A p \in Proposals : /\ PhaseOf(p) = "none" /\ ContentOf(p) = None
                           /\ (writes[p] # <<>>) = FALSE
  BY DEF Init, PhaseOf, ContentOf
<1> QED BY <1>1 DEF Pipeline!Init

\* A write applied moves nothing else of its proposal, which is one that may
\* reach Google; every other step moves the row alone.
LEMMA WritesMove ==
  ASSUME TypeInv, ExecutionInv, AgreementInv, PromiseInv, [Next]_vars, NEW p \in Proposals
  PROVE  \/ writes'[p] = writes[p]
         \/ /\ writes[p] = <<>> /\ writes'[p] # <<>> /\ p \notin Simulated
            /\ proposal'[p] = proposal[p] /\ proposal[p].status = "executing"
<1> SUFFICES ASSUME writes'[p] # writes[p]
             PROVE  /\ writes[p] = <<>> /\ writes'[p] # <<>> /\ p \notin Simulated
                    /\ proposal'[p] = proposal[p] /\ proposal[p].status = "executing"
  OBVIOUS
<1>1. PICK w \in Workers : ProviderCall(w)
  BY OnlyTheCallWrites
<1>2. /\ worker[w].step = "call" /\ worker[w].job \in Proposals
      /\ writes \in [Proposals -> Seq(Writes)] /\ proposal' = proposal
  BY <1>1 DEF ProviderCall, TypeInv, TypeOK, WorkersHaveJobs
<1>3. worker[w].job = p
  BY <1>1, <1>2 DEF ProviderCall
<1>4. writes[p] = <<>> /\ proposal[p].status = "executing" /\ writes'[p] # <<>>
  BY <1>2, <1>3 DEF ExecutionInv, KnowsItsWrite, AttemptsStand, Attempting
<1>5. worker[w].approval.context.mode = "real" /\ Judges(worker[w].approval, p)
  BY <1>2, <1>3 DEF AgreementInv, CallsAreReal, PromiseInv, RequestsJudge
<1> QED BY <1>2, <1>4, <1>5 DEF Judges

\* The steps of the promise, for its state here.
LEMMA PromiseSteps ==
  ASSUME NEW p \in Proposals
  PROVE  Pipeline!Step(p) <=>
           LET s == Promised[p]
               t == Promised'[p]
           IN  \/ /\ s.phase \in {"none", "offered", "agreed"}
                  /\ t.content \in [version : Nat, payload : Payloads]
                  /\ t = [s EXCEPT !.phase = "offered", !.content = t.content]
               \/ s.phase \in {"offered"} /\ t = [s EXCEPT !.phase = "agreed"]
               \/ s.phase \in {"offered", "agreed"} /\ t = [s EXCEPT !.phase = "closed"]
               \/ s.phase \in {"agreed"} /\ t = [s EXCEPT !.phase = "attempted"]
               \/ /\ s.phase = "attempted" /\ ~s.applied /\ p \notin Simulated
                  /\ t = [s EXCEPT !.applied = TRUE]
               \/ /\ s.phase \in {"attempted"} /\ t = [s EXCEPT !.phase = "done"]
                  /\ s.applied \/ p \in Simulated
               \/ /\ s.phase \in {"attempted"} /\ t = [s EXCEPT !.phase = "refused"]
                  /\ ~s.applied
BY DEF Promised, Pipeline!Step, Pipeline!Offer, Pipeline!Agree, Pipeline!Close,
       Pipeline!Attempt, Pipeline!Apply, Pipeline!Done, Pipeline!Refuse, Pipeline!Moves

\* Every step of the pipeline is, for a proposal, a step of the promise.
LEMMA PromisedStep ==
  ASSUME TypeInv, ExecutionInv, AgreementInv, PromiseInv, [Next]_vars,
         TypeInv', ExecutionInv', PromiseInv', NEW p \in Proposals
  PROVE  Promised'[p] = Promised[p] \/ Pipeline!Step(p)
<1> DEFINE phase == PhaseOf(p)
           content == ContentOf(p)
           applied == writes[p] # <<>>
           phase2 == PhaseOf(p)'
           content2 == ContentOf(p)'
           applied2 == writes'[p] # <<>>
           s == Promised[p]
           t == Promised'[p]
<1>1. /\ s = [phase |-> phase, content |-> content, applied |-> applied]
      /\ t = [phase |-> phase2, content |-> content2, applied |-> applied2]
  BY DEF Promised
<1>2. proposal[p] \in ProposalRows /\ proposal'[p] \in ProposalRows
  BY DEF TypeInv, TypeOK
<1>3. \/ applied2 = applied
      \/ /\ applied = FALSE /\ applied2 = TRUE /\ p \notin Simulated
         /\ proposal'[p] = proposal[p] /\ proposal[p].status = "executing"
  BY WritesMove
<1>4. SameContent(p) /\ proposal[p].status # "absent" /\ proposal'[p].status # "absent"
        => content2 = content
  BY DEF SameContent, ContentOf
<1>5. /\ proposal'[p].status # "absent" => content2 \in [version : Nat, payload : Payloads]
      /\ SameRow(p) => content2 = content /\ phase2 = phase
  BY <1>2 DEF ContentOf, ProposalRows, SameRow, SameContent, PhaseOf
<1>6. /\ proposal[p].status \in {"proposed", "edited"} => phase = "offered"
      /\ proposal[p].status = "approved" => phase = "agreed"
      /\ proposal[p].status = "executing" => phase = "attempted"
      /\ proposal[p].status \in Active => phase \in {"offered", "agreed"}
      /\ proposal[p].status = "absent" => phase = "none"
  BY DEF PhaseOf, Active
<1>7. /\ proposal'[p].status \in {"proposed", "edited"} => phase2 = "offered"
      /\ proposal'[p].status = "approved" => phase2 = "agreed"
      /\ proposal'[p].status = "executing" => phase2 = "attempted"
      /\ proposal'[p].status = "executed" => phase2 = "done"
      /\ proposal'[p].status = "failed" => phase2 = "refused"
      /\ proposal'[p].status \in {"expired", "rejected"} => phase2 = "closed"
  BY DEF PhaseOf
<1>8. RowMoves(p)
  BY RowsMove
\* How an attempt ended is known to the record, and the record does not lie.
<1>9. ASSUME EndsAttempt(p), applied2 = applied
      PROVE  /\ proposal'[p].status = "executed" => applied \/ p \in Simulated
             /\ proposal'[p].status = "failed" => ~applied
  <2>1. proposal'[p].status = "failed" => ~applied2
    BY DEF ExecutionInv, RecordIsTruthful, HasWritten
  <2>2. ASSUME proposal'[p].status = "executed", p \notin Simulated PROVE applied2
    <3>1. execution'[p].outcome # "none"
      BY <2>2 DEF ExecutionInv, AttemptsAreRecorded
    <3>2. execution'[p].approval.context.mode = "real"
      BY <2>2, <3>1 DEF PromiseInv, AttemptsJudge, Judges
    <3> QED BY <2>2, <3>2 DEF ExecutionInv, RecordIsTruthful, HasWritten
  <2> QED BY <1>9, <2>1, <2>2
<1> HIDE DEF phase, content, applied, phase2, content2, applied2, s, t
<1>10. /\ s.phase = phase /\ s.content = content /\ s.applied = applied /\ t.content = content2
       /\ content2 = content /\ applied2 = applied => t = [s EXCEPT !.phase = phase2]
       /\ applied2 = applied => t = [s EXCEPT !.phase = phase2, !.content = t.content]
       /\ content2 = content /\ phase2 = phase => t = [s EXCEPT !.applied = applied2]
       /\ content2 = content /\ phase2 = phase /\ applied2 = applied => t = s
  <2>1. /\ s.phase = phase /\ s.content = content /\ s.applied = applied
        /\ t.content = content2
    BY <1>1
  <2>2. [s EXCEPT !.phase = phase2]
          = [phase |-> phase2, content |-> content, applied |-> applied]
    BY <1>1
  <2>3. [s EXCEPT !.phase = phase2, !.content = content2]
          = [phase |-> phase2, content |-> content2, applied |-> applied]
    <3> DEFINE r == [s EXCEPT !.phase = phase2]
    <3>1. [s EXCEPT !.phase = phase2, !.content = content2] = [r EXCEPT !.content = content2]
      OBVIOUS
    <3>2. r = [phase |-> phase2, content |-> content, applied |-> applied]
      BY <2>2
    <3> HIDE DEF r
    <3>3. [r EXCEPT !.content = content2]
            = [phase |-> phase2, content |-> content2, applied |-> applied]
      BY <3>2
    <3> QED BY <3>1, <3>3
  <2>4. [s EXCEPT !.applied = applied2]
          = [phase |-> phase, content |-> content, applied |-> applied2]
    BY <1>1
  <2> QED BY <1>1, <2>1, <2>2, <2>3, <2>4
<1>11. CASE applied2 # applied
  <2>1. SameRow(p) /\ ~s.applied /\ p \notin Simulated /\ proposal[p].status = "executing"
    BY <1>3, <1>10, <1>11 DEF SameRow, SameContent
  <2>2. s.phase = "attempted" /\ t = [s EXCEPT !.applied = TRUE]
    BY <1>3, <1>5, <1>6, <1>10, <1>11, <2>1
  <2> QED BY <2>1, <2>2, PromiseSteps DEF s, t
<1>12. CASE applied2 = applied
  <2>1. CASE SameRow(p)
    <3>1. t = s
      BY <1>5, <1>10, <1>12, <2>1
    <3> QED BY <3>1 DEF s, t
  <2>2. CASE Closes(p)
    <3>1. s.phase \in {"offered", "agreed"} /\ t = [s EXCEPT !.phase = "closed"]
      BY <1>4, <1>6, <1>7, <1>10, <1>12, <2>2 DEF Closes, Active
    <3> QED BY <3>1, PromiseSteps DEF s, t
  <2>3. CASE Offers(p)
    <3>1. /\ s.phase \in {"none", "offered", "agreed"}
          /\ t.content \in [version : Nat, payload : Payloads]
          /\ t = [s EXCEPT !.phase = "offered", !.content = t.content]
      BY <1>5, <1>6, <1>7, <1>10, <1>12, <2>3 DEF Offers
    <3> QED BY <3>1, PromiseSteps DEF s, t
  <2>4. CASE StoresApproval(p)
    <3>1. s.phase \in {"offered"} /\ t = [s EXCEPT !.phase = "agreed"]
      BY <1>4, <1>6, <1>7, <1>10, <1>12, <2>4 DEF StoresApproval
    <3> QED BY <3>1, PromiseSteps DEF s, t
  <2>5. CASE StartsAttempt(p)
    <3>1. s.phase \in {"agreed"} /\ t = [s EXCEPT !.phase = "attempted"]
      BY <1>4, <1>6, <1>7, <1>10, <1>12, <2>5 DEF StartsAttempt
    <3> QED BY <3>1, PromiseSteps DEF s, t
  <2>6. CASE EndsAttempt(p)
    <3>1. /\ s.phase \in {"attempted"} /\ t = [s EXCEPT !.phase = phase2]
          /\ phase2 \in {"done", "refused"}
      BY <1>4, <1>6, <1>7, <1>10, <1>12, <2>6 DEF EndsAttempt
    <3>2. phase2 = "done" => s.applied \/ p \in Simulated
      BY <1>7, <1>9, <1>10, <1>12, <2>6 DEF EndsAttempt
    <3>3. phase2 = "refused" => ~s.applied
      BY <1>7, <1>9, <1>10, <1>12, <2>6 DEF EndsAttempt
    <3> QED BY <3>1, <3>2, <3>3, PromiseSteps DEF s, t
  <2> QED BY <1>8, <2>1, <2>2, <2>3, <2>4, <2>5, <2>6 DEF RowMoves
<1> QED BY <1>11, <1>12

\* The pipeline of rows, locks, requests and crashes implements the promise
\* of ExternalAction: agreed content is attempted at most once and applied at
\* most once, and an attempt is reported done only if it was applied, refused
\* only if it was not and never will be.
THEOREM PromiseIsKept == Spec => KeepsThePromise
<1>1. TypeInv /\ ExecutionInv /\ AgreementInv /\ PromiseInv
        /\ (TypeInv /\ ExecutionInv /\ AgreementInv /\ PromiseInv)' /\ [Next]_vars
        => Pipeline!Next
  <2> SUFFICES ASSUME TypeInv, ExecutionInv, AgreementInv, PromiseInv, [Next]_vars,
                      TypeInv', ExecutionInv', PromiseInv'
               PROVE  Pipeline!Next
    OBVIOUS
  <2>1. \A p \in Proposals : Promised'[p] = Promised[p] \/ Pipeline!Step(p)
    BY PromisedStep
  <2>2. Pipeline!Next <=>
          /\ DOMAIN Promised' = Proposals
          /\ \A p \in Proposals : Promised'[p] = Promised[p] \/ Pipeline!Step(p)
    BY DEF Pipeline!Next, Promised
  <2>3. DOMAIN Promised' = Proposals
    BY DEF Promised
  <2> QED BY <2>1, <2>2, <2>3
<1> QED BY <1>1, PromisedInit, PromiseInvariant, PTL DEF Spec, KeepsThePromise, Pipeline!Spec
=============================================================================
