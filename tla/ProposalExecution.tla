------------------------- MODULE ProposalExecution --------------------------
(***************************************************************************)
(* action_proposal_service.py with action_policy.py and                    *)
(* action_executors.py: a proposal is offered, edited, approved or         *)
(* rejected by its user, and once approved executed - for real proposals,  *)
(* by one write to the user's Google account.                              *)
(*                                                                         *)
(* Every request is a transaction at READ COMMITTED.  A request that       *)
(* locks its proposal row first and reads nothing else that can change is  *)
(* one action.  approve and execute also read the account row, unlocked,   *)
(* and execute commits in the middle, releasing every lock, before it      *)
(* calls Google; they are processes (worker) of several steps, any of      *)
(* which may be the last one before a crash.  The periodic sweep of stale  *)
(* attempts reads and writes in two steps, without locks.                  *)
(*                                                                         *)
(* Time is abstract: Lapse makes a proposal expire, Age makes a pending    *)
(* attempt older than STALE_PENDING_AGE, whenever they like.               *)
(***************************************************************************)
EXTENDS ConnectedAccount, FiniteSets, Sequences

CONSTANTS
  GoogleAccount, DemoAccount,
  Proposals,    \* proposal origins (user_id, origin_fingerprint): one row each
  TypeOf,       \* Proposals -> ActionTypes
  Evidence,     \* Proposals -> the accounts its source items are linked to
  OldEvidence,  \* proposals whose evidence may leave the 1,000 newest sources
  Payloads,
  Workers,      \* approve and execute requests that may be in flight
  MaxVersion    \* bound: a proposal at this version is not changed again

ASSUME Accounts2 == AccountIds = {GoogleAccount, DemoAccount} /\ GoogleAccount # DemoAccount
ASSUME TypesAndEvidence == /\ TypeOf \in [Proposals -> ActionTypes]
                           /\ Evidence \in [Proposals -> SUBSET AccountIds]
ASSUME NoneIsNoWorker == None \notin Workers \cup Proposals
ASSUME BoundOnVersions == MaxVersion \in Nat \ {0}
ASSUME SomePayload == Payloads # {}

VARIABLES
  proposal,     \* Proposals -> the committed ActionProposal row
  execution,    \* Proposals -> its ActionExecution row (outcome "none": no row)
  rowLock,      \* Proposals -> the worker holding the row FOR UPDATE, or None
  worker,       \* Workers -> the approve or execute request in progress
  sweep,        \* the stale attempts the running sweep has selected
  screen,       \* Proposals -> what the user's browser shows, or None
  listed,       \* Proposals -> its evidence is among the 1,000 newest sources
  clicks,       \* history: Proposals -> the contents the user agreed to
  writes        \* history: Proposals -> the writes Google has applied

proposalVars == <<proposal, execution, rowLock, worker, sweep, screen, listed,
                  clicks, writes>>
vars == <<proposalVars, accountVars>>

ProposalStatuses == {"absent", "proposed", "edited", "approved", "rejected",
                     "executing", "executed", "failed", "expired"}
Active == {"proposed", "edited", "approved"}
Outcomes == {"none", "pending", "succeeded", "failed", "uncertain"}

\* The approved_* snapshot.  consent is history: the grants committed when
\* the account was read for it.
Approvals == [version : Nat, payload : Payloads, context : Contexts, consent : Nat]
ASSUME NoneIsNoApproval == None \notin Approvals

Displays == [version : Nat, payload : Payloads, context : Contexts]
Writes == [version : Nat, payload : Payloads, consent : Nat]

\* What a worker knows: the step it is at, its proposal, the snapshot it is
\* about to store or has read, and how the executor call ended.
Steps == {"idle", "approve", "checkpoint", "started", "call", "verify", "finish"}
Results == {"none", "succeeded", "failed", "uncertain", "revoked"}
Idling == [step |-> "idle", job |-> None, approval |-> None, result |-> "none"]

ProposalRows == [status : ProposalStatuses, version : Nat, payload : Payloads,
                 due : BOOLEAN, approval : Approvals \cup {None}]
ExecutionRows == [outcome : Outcomes, stale : BOOLEAN, approval : Approvals \cup {None}]
WorkerStates == [step : Steps, job : Proposals \cup {None},
                 approval : Approvals \cup {None}, result : Results]

TypeOK ==
  /\ AccountTypeOK
  /\ accountLock \in Workers \cup {None}
  /\ proposal \in [Proposals -> ProposalRows]
  /\ execution \in [Proposals -> ExecutionRows]
  /\ rowLock \in [Proposals -> Workers \cup {None}]
  /\ worker \in [Workers -> WorkerStates]
  /\ sweep \in SUBSET Proposals
  /\ screen \in [Proposals -> Displays \cup {None}]
  /\ listed \in [Proposals -> BOOLEAN]
  /\ clicks \in [Proposals -> SUBSET Displays]
  /\ writes \in [Proposals -> Seq(Writes)]

Init ==
  /\ InitAccount
  /\ proposal = [p \in Proposals |-> [status |-> "absent", version |-> 0,
                                      payload |-> CHOOSE y \in Payloads : TRUE,
                                      due |-> FALSE, approval |-> None]]
  /\ execution = [p \in Proposals |-> [outcome |-> "none", stale |-> FALSE,
                                       approval |-> None]]
  /\ rowLock = [p \in Proposals |-> None]
  /\ worker = [w \in Workers |-> Idling]
  /\ sweep = {}
  /\ screen = [p \in Proposals |-> None]
  /\ listed = [p \in Proposals |-> TRUE]
  /\ clicks = [p \in Proposals |-> {}]
  /\ writes = [p \in Proposals |-> <<>>]

-----------------------------------------------------------------------------
(* Contexts.                                                               *)

DemoRow == [provider |-> "synthetic", status |-> "active", scopes |-> {"demo"},
            revision |-> 1]

\* ConnectedAccountRepository.list: the rows as committed now.
Accounts ==
  [a \in {b \in AccountIds : b = GoogleAccount => account.status # "none"} |->
     IF a = DemoAccount
       THEN DemoRow
       ELSE [provider |-> "google", status |-> account.status,
             scopes |-> account.scopes, revision |-> account.revision]]

\* The context approve and execute compute, from the proposal's own sources.
CurrentContext(p) == ResolveExecutionContext(TypeOf[p], Accounts, Evidence[p])

\* The context a GET shows, from the sources among the 1,000 newest only.
DisplayedContext(p) ==
  ResolveExecutionContext(TypeOf[p], Accounts, IF listed[p] THEN Evidence[p] ELSE {})

Due(p) == proposal[p].status \in Active /\ proposal[p].due

-----------------------------------------------------------------------------
(* Generation from a brief, and the single-step requests of the user.      *)

\* The walk over the candidates of one type goes on past a proposal that
\* has just expired or is no longer active.
Passed(p) == Due(p) \/ proposal[p].status \notin Active \cup {"absent"}

\* Faulty: every candidate is considered, whatever ranks above it.
ReachedAll(ranking) == {ranking[i] : i \in DOMAIN ranking}

Reached(ranking) ==
  {ranking[i] : i \in {i \in DOMAIN ranking : \A j \in 1..(i - 1) :
                         TypeOf[ranking[j]] = TypeOf[ranking[i]] => Passed(ranking[j])}}

\* Faulty: what the user edited or approved is renewed like the rest.
GeneratedOverUser(p, y) ==
  IF proposal[p].status = "absent"
    THEN [status |-> "proposed", version |-> 1, payload |-> y, due |-> FALSE,
          approval |-> None]
  ELSE IF Due(p) THEN [proposal[p] EXCEPT !.status = "expired"]
  ELSE IF proposal[p].status \in Active /\ proposal[p].payload # y
    THEN [proposal[p] EXCEPT !.payload = y, !.version = @ + 1]
  ELSE proposal[p]

\* The row after the walk has reached it with payload y: what the user has
\* edited or approved is not renewed.
Generated(p, y) ==
  IF proposal[p].status = "absent"
    THEN [status |-> "proposed", version |-> 1, payload |-> y, due |-> FALSE,
          approval |-> None]
  ELSE IF Due(p) THEN [proposal[p] EXCEPT !.status = "expired"]
  ELSE IF proposal[p].status = "proposed" /\ proposal[p].payload # y
    THEN [proposal[p] EXCEPT !.payload = y, !.version = @ + 1]
  ELSE proposal[p]

Rankings == {r \in UNION {[1..n -> Proposals] : n \in 1..Cardinality(Proposals)} :
               \A i, j \in DOMAIN r : r[i] = r[j] => i = j}

\* generate_from_brief: the brief's candidates in rank order.  A candidate's
\* sources have been imported, so the account they came from exists.
Generate(ranking, offered) ==
  /\ \A p \in Reached(ranking) :
       /\ rowLock[p] = None
       /\ GoogleAccount \in Evidence[p] => account.status # "none"
       /\ Generated(p, offered[p]).version <= MaxVersion
  /\ proposal' = [p \in Proposals |-> IF p \in Reached(ranking)
                                         THEN Generated(p, offered[p])
                                         ELSE proposal[p]]
  /\ UNCHANGED <<execution, rowLock, worker, sweep, screen, listed, clicks, writes,
                 accountVars>>

\* GET: expire_due, then show the proposal with the context of this moment.
ViewProposal(p) ==
  /\ proposal[p].status # "absent"
  /\ \A q \in Proposals : Due(q) => rowLock[q] = None
  /\ proposal' = [q \in Proposals |-> IF Due(q) THEN [proposal[q] EXCEPT !.status = "expired"]
                                                ELSE proposal[q]]
  /\ screen' = [screen EXCEPT ![p] = [version |-> proposal[p].version,
                                      payload |-> proposal[p].payload,
                                      context |-> DisplayedContext(p)]]
  /\ UNCHANGED <<execution, rowLock, worker, sweep, listed, clicks, writes, accountVars>>

\* edit, approve, reject and execute lock the row and, if it is due, commit
\* it as expired and refuse.
ExpireIfDue(p) ==
  /\ rowLock[p] = None
  /\ Due(p)
  /\ proposal' = [proposal EXCEPT ![p].status = "expired"]
  /\ UNCHANGED <<execution, rowLock, worker, sweep, screen, listed, clicks, writes,
                 accountVars>>

\* Faulty: an attempt in progress may be changed too.
ChangeableWhileExecuting(p) ==
  /\ rowLock[p] = None
  /\ screen[p] # None /\ screen[p].version = proposal[p].version
  /\ proposal[p].status \in Active \cup {"executing"}
  /\ ~Due(p)

\* The row is locked by this request and the browser's version is current.
Changeable(p) ==
  /\ rowLock[p] = None
  /\ screen[p] # None /\ screen[p].version = proposal[p].version
  /\ proposal[p].status \in Active
  /\ ~Due(p)

Edit(p, y) ==
  /\ Changeable(p)
  /\ proposal[p].version < MaxVersion
  /\ proposal' = [proposal EXCEPT ![p].status = "edited", ![p].version = @ + 1,
                                  ![p].payload = y, ![p].approval = None]
  /\ UNCHANGED <<execution, rowLock, worker, sweep, screen, listed, clicks, writes,
                 accountVars>>

Reject(p) ==
  /\ Changeable(p)
  /\ proposal' = [proposal EXCEPT ![p].status = "rejected", ![p].approval = None]
  /\ UNCHANGED <<execution, rowLock, worker, sweep, screen, listed, clicks, writes,
                 accountVars>>

-----------------------------------------------------------------------------
(* approve: the row is locked, the account is read, the snapshot committed. *)

\* Faulty: what the browser displayed is not compared.
ApproveUnseen(w, p) ==
  /\ worker[w].step = "idle"
  /\ rowLock[p] = None
  /\ ~Due(p)
  /\ proposal[p].status \in {"proposed", "edited"}
  /\ screen[p] # None
  /\ CurrentContext(p).mode # "unavailable"
  /\ rowLock' = [rowLock EXCEPT ![p] = w]
  /\ worker' = [worker EXCEPT ![w] =
       [step |-> "approve", job |-> p, result |-> "none",
        approval |-> [version |-> proposal[p].version, payload |-> proposal[p].payload,
                      context |-> CurrentContext(p), consent |-> consents]]]
  /\ clicks' = [clicks EXCEPT ![p] = @ \cup {screen[p]}]
  /\ UNCHANGED <<proposal, execution, sweep, screen, listed, writes, accountVars>>

\* validate_approval, what the screen shows being what the request carries.
Approvable(p) ==
  /\ ~Due(p)
  /\ proposal[p].status \in {"proposed", "edited"}
  /\ screen[p] = [version |-> proposal[p].version, payload |-> proposal[p].payload,
                  context |-> CurrentContext(p)]
  /\ CurrentContext(p).mode # "unavailable"

ApproveBegin(w, p) ==
  /\ worker[w].step = "idle"
  /\ rowLock[p] = None
  /\ Approvable(p)
  /\ rowLock' = [rowLock EXCEPT ![p] = w]
  /\ worker' = [worker EXCEPT ![w] =
       [step |-> "approve", job |-> p, result |-> "none",
        approval |-> [version |-> proposal[p].version, payload |-> proposal[p].payload,
                      context |-> CurrentContext(p), consent |-> consents]]]
  /\ clicks' = [clicks EXCEPT ![p] = @ \cup {screen[p]}]
  /\ UNCHANGED <<proposal, execution, sweep, screen, listed, writes, accountVars>>

ApproveCommit(w) ==
  LET p == worker[w].job
  IN  /\ worker[w].step = "approve"
      /\ proposal' = [proposal EXCEPT ![p].status = "approved",
                                      ![p].approval = worker[w].approval]
      /\ rowLock' = [rowLock EXCEPT ![p] = None]
      /\ worker' = [worker EXCEPT ![w] = Idling]
      /\ UNCHANGED <<execution, sweep, screen, listed, clicks, writes, accountVars>>

-----------------------------------------------------------------------------
(* execute, up to the durable checkpoint.                                  *)

\* An execution row exists: report it, persisting staleness.
Replay(p) ==
  /\ rowLock[p] = None
  /\ execution[p].outcome = "pending" /\ execution[p].stale
  /\ execution' = [execution EXCEPT ![p].outcome = "uncertain"]
  /\ UNCHANGED <<proposal, rowLock, worker, sweep, screen, listed, clicks, writes,
                 accountVars>>

\* validate_execution up to the comparison of contexts.
Executable(p) ==
  /\ rowLock[p] = None
  /\ execution[p].outcome = "none"
  /\ ~Due(p)
  /\ proposal[p].status = "approved"
  /\ proposal[p].approval # None
  /\ proposal[p].approval.version = proposal[p].version
  /\ proposal[p].approval.payload = proposal[p].payload

\* approval_context_changed: the approval is withdrawn, the user must review.
Invalidate(p) ==
  /\ Executable(p)
  /\ proposal[p].approval.context # CurrentContext(p)
  /\ proposal' = [proposal EXCEPT ![p].status = "edited", ![p].approval = None]
  /\ UNCHANGED <<execution, rowLock, worker, sweep, screen, listed, clicks, writes,
                 accountVars>>

ExecuteBegin(w, p) ==
  /\ worker[w].step = "idle"
  /\ Executable(p)
  /\ proposal[p].approval.context = CurrentContext(p)
  /\ rowLock' = [rowLock EXCEPT ![p] = w]
  /\ worker' = [worker EXCEPT ![w] = [step |-> "checkpoint", job |-> p, result |-> "none",
                                      approval |-> proposal[p].approval]]
  /\ UNCHANGED <<proposal, execution, sweep, screen, listed, clicks, writes, accountVars>>

\* The pending attempt is committed and every lock released.
Checkpoint(w) ==
  LET p == worker[w].job
  IN  /\ worker[w].step = "checkpoint"
      /\ execution' = [execution EXCEPT ![p] =
                         [outcome |-> "pending", stale |-> FALSE,
                          approval |-> worker[w].approval]]
      /\ proposal' = [proposal EXCEPT ![p].status = "executing"]
      /\ rowLock' = [rowLock EXCEPT ![p] = None]
      /\ worker' = [worker EXCEPT ![w].step = "started"]
      /\ UNCHANGED <<sweep, screen, listed, clicks, writes, accountVars>>

-----------------------------------------------------------------------------
(* The executor call.  Ends is its return or its FinalExecutionError.      *)

Ends(w, result) ==
  worker' = [worker EXCEPT ![w].step = "finish", ![w].result = result]

RunSimulated(w) ==
  /\ worker[w].step = "started"
  /\ worker[w].approval.context.mode = "simulation"
  /\ Ends(w, "succeeded")
  /\ UNCHANGED <<proposal, execution, rowLock, sweep, screen, listed, clicks, writes,
                 accountVars>>

\* No Google registry was wired, or provider writes are switched off.
RefusedByRegistry(w) ==
  /\ worker[w].step = "started"
  /\ worker[w].approval.context.mode = "real"
  /\ Ends(w, "failed")
  /\ UNCHANGED <<proposal, execution, rowLock, sweep, screen, listed, clicks, writes,
                 accountVars>>

\* get_valid_access_token_for_execution, the row locked and freshly read.
StillApproved(w) ==
  /\ account.status = "active"
  /\ account.revision = worker[w].approval.context.revision
  /\ worker[w].approval.context.scope \in account.scopes

\* Faulty: the account row is read without FOR UPDATE.
AcquireTokenUnlocked(w) ==
  /\ worker[w].step = "started"
  /\ worker[w].approval.context.mode = "real"
  /\ IF StillApproved(w) /\ account.tokens
       THEN worker' = [worker EXCEPT ![w].step = "call"]
       ELSE Ends(w, "failed")
  /\ UNCHANGED <<proposal, execution, rowLock, sweep, screen, listed, clicks, writes,
                 accountVars>>

\* With tokens stored, the access token is good or is refreshed; or the
\* refresh token is rejected, the refresh fails finally, or transiently.
AcquireToken(w) ==
  /\ worker[w].step = "started"
  /\ worker[w].approval.context.mode = "real"
  /\ accountLock = None
  /\ accountLock' = w
  /\ \/ /\ StillApproved(w) /\ account.tokens
        /\ \/ worker' = [worker EXCEPT ![w].step = "call"]
           \/ \E result \in {"failed", "revoked", "uncertain"} : Ends(w, result)
     \/ /\ ~(StillApproved(w) /\ account.tokens)
        /\ Ends(w, "failed")
  /\ UNCHANGED <<proposal, execution, rowLock, sweep, screen, listed, clicks, writes,
                 account, handler, consents>>

\* Faulty: a transient error is retried.
ProviderCallRetried(w) ==
  LET p == worker[w].job
      a == worker[w].approval
  IN  /\ worker[w].step = "call"
      /\ writes' = [writes EXCEPT ![p] = Append(@,
           [version |-> a.version, payload |-> a.payload, consent |-> a.consent])]
      /\ worker' \in {worker, [worker EXCEPT ![w].step = "verify"]}
      /\ UNCHANGED <<proposal, execution, rowLock, sweep, screen, listed, clicks,
                     accountVars>>

\* create_draft or insert_event.  Google may apply the write and the answer
\* be lost; an error answer means it was not applied.
ProviderCall(w) ==
  LET p == worker[w].job
      a == worker[w].approval
  IN  /\ worker[w].step = "call"
      /\ \/ /\ writes' = [writes EXCEPT ![p] = Append(@,
                   [version |-> a.version, payload |-> a.payload, consent |-> a.consent])]
            /\ \/ worker' = [worker EXCEPT ![w].step = "verify"]
               \/ Ends(w, "uncertain")
         \/ /\ \E result \in {"failed", "uncertain"} : Ends(w, result)
            /\ UNCHANGED writes
      /\ UNCHANGED <<proposal, execution, rowLock, sweep, screen, listed, clicks,
                     accountVars>>

\* Faulty: content that cannot be confirmed is a failure.
VerifyFails(w) ==
  /\ worker[w].step = "verify"
  /\ \E result \in {"succeeded", "failed"} : Ends(w, result)
  /\ UNCHANGED <<proposal, execution, rowLock, sweep, screen, listed, clicks, writes,
                 accountVars>>

\* Faulty: the call is trusted to have been applied when its answer was lost.
VerifyUnwritten(w) ==
  /\ worker[w].step \in {"call", "verify"}
  /\ \E result \in {"succeeded", "uncertain"} : Ends(w, result)
  /\ UNCHANGED <<proposal, execution, rowLock, sweep, screen, listed, clicks, writes,
                 accountVars>>

\* get_draft or get_event: the stored content matches, or it cannot be
\* confirmed.
Verify(w) ==
  /\ worker[w].step = "verify"
  /\ \E result \in {"succeeded", "uncertain"} : Ends(w, result)
  /\ UNCHANGED <<proposal, execution, rowLock, sweep, screen, listed, clicks, writes,
                 accountVars>>

\* Faulty: the executor's own word is stored as the outcome.
FinishRaw(w) ==
  LET p == worker[w].job
  IN  /\ worker[w].step = "finish"
      /\ rowLock[p] = None
      /\ execution' = [execution EXCEPT ![p].outcome = worker[w].result]
      /\ accountLock' = IF accountLock = w THEN None ELSE accountLock
      /\ worker' = [worker EXCEPT ![w] = Idling]
      /\ UNCHANGED <<proposal, account, rowLock, sweep, screen, listed, clicks, writes,
                     handler, consents>>

\* The final commit.  An uncertain outcome leaves the proposal executing; a
\* rejected refresh token is a failure that also revokes the account.
Finish(w) ==
  LET p == worker[w].job
      result == worker[w].result
  IN  /\ worker[w].step = "finish"
      /\ rowLock[p] = None
      /\ execution' = [execution EXCEPT ![p].outcome =
                         IF result = "revoked" THEN "failed" ELSE result]
      /\ proposal' = [proposal EXCEPT ![p].status =
                        IF result = "succeeded" THEN "executed"
                        ELSE IF result \in {"failed", "revoked"} THEN "failed"
                        ELSE @]
      /\ account' = IF result = "revoked" THEN [account EXCEPT !.status = "revoked"]
                                          ELSE account
      /\ accountLock' = IF accountLock = w THEN None ELSE accountLock
      /\ worker' = [worker EXCEPT ![w] = Idling]
      /\ UNCHANGED <<rowLock, sweep, screen, listed, clicks, writes, handler, consents>>

\* The process dies at any step: the open transaction rolls back.
Crash(w) ==
  /\ worker[w].step # "idle"
  /\ worker' = [worker EXCEPT ![w] = Idling]
  /\ rowLock' = [p \in Proposals |-> IF rowLock[p] = w THEN None ELSE rowLock[p]]
  /\ accountLock' = IF accountLock = w THEN None ELSE accountLock
  /\ UNCHANGED <<proposal, execution, sweep, screen, listed, clicks, writes,
                 account, handler, consents>>

-----------------------------------------------------------------------------
(* recover_stale_pending_executions, run every minute: select, then write. *)

\* Faulty: only attempts of still active proposals are selected.
StaleActive == {p \in Proposals : /\ execution[p].outcome = "pending" /\ execution[p].stale
                                  /\ proposal[p].status \in Active}

StalePending == {p \in Proposals : execution[p].outcome = "pending" /\ execution[p].stale}

SweepSelect ==
  /\ sweep = {}
  /\ StalePending # {}
  /\ sweep' = StalePending
  /\ UNCHANGED <<proposal, execution, rowLock, worker, screen, listed, clicks, writes,
                 accountVars>>

SweepCommit ==
  /\ sweep # {}
  /\ execution' = [p \in Proposals |-> IF p \in sweep
                                          THEN [execution[p] EXCEPT !.outcome = "uncertain"]
                                          ELSE execution[p]]
  /\ sweep' = {}
  /\ UNCHANGED <<proposal, rowLock, worker, screen, listed, clicks, writes, accountVars>>

SweepCrash ==
  /\ sweep # {}
  /\ sweep' = {}
  /\ UNCHANGED <<proposal, execution, rowLock, worker, screen, listed, clicks, writes,
                 accountVars>>

-----------------------------------------------------------------------------
(* The world: time passes, and newer sources arrive.                       *)

Lapse(p) ==
  /\ proposal[p].status \in Active /\ ~proposal[p].due
  /\ proposal' = [proposal EXCEPT ![p].due = TRUE]
  /\ UNCHANGED <<execution, rowLock, worker, sweep, screen, listed, clicks, writes,
                 accountVars>>

Age(p) ==
  /\ execution[p].outcome = "pending" /\ ~execution[p].stale
  /\ execution' = [execution EXCEPT ![p].stale = TRUE]
  /\ UNCHANGED <<proposal, rowLock, worker, sweep, screen, listed, clicks, writes,
                 accountVars>>

LeaveWindow(p) ==
  /\ p \in OldEvidence /\ listed[p]
  /\ listed' = [listed EXCEPT ![p] = FALSE]
  /\ UNCHANGED <<proposal, execution, rowLock, worker, sweep, screen, clicks, writes,
                 accountVars>>

-----------------------------------------------------------------------------
WorkerStep(w) ==
  \/ ApproveCommit(w) \/ Checkpoint(w)
  \/ RunSimulated(w) \/ RefusedByRegistry(w) \/ AcquireToken(w)
  \/ ProviderCall(w) \/ Verify(w) \/ Finish(w)

ProposalStep(p) ==
  \/ ViewProposal(p) \/ ExpireIfDue(p) \/ Reject(p)
  \/ \E y \in Payloads : Edit(p, y)
  \/ Replay(p) \/ Invalidate(p)
  \/ Lapse(p) \/ Age(p) \/ LeaveWindow(p)

Next ==
  \/ \E ranking \in Rankings, offered \in [Proposals -> Payloads] : Generate(ranking, offered)
  \/ \E p \in Proposals : ProposalStep(p)
  \/ \E w \in Workers, p \in Proposals : ApproveBegin(w, p) \/ ExecuteBegin(w, p)
  \/ \E w \in Workers : WorkerStep(w) \/ Crash(w)
  \/ SweepSelect \/ SweepCommit \/ SweepCrash
  \/ AccountNext /\ UNCHANGED proposalVars

Spec == Init /\ [][Next]_vars

\* A request that has started goes on (its awaits end by timeouts), time
\* passes, and the sweep runs every minute, not crashing every time.
\* Nothing makes a user act, and nothing keeps a request from crashing.
FairSpec ==
  /\ Spec
  /\ \A w \in Workers : WF_vars(WorkerStep(w))
  /\ \A p \in Proposals : WF_vars(Age(p))
  /\ WF_vars(SweepSelect) /\ SF_vars(SweepCommit)

-----------------------------------------------------------------------------
(* Properties.                                                             *)

HasWritten(p) == writes[p] # <<>>

\* Google is written to at most once for a proposal, whatever is retried,
\* replayed, crashes, or turns out to have been applied after all.
AtMostOneWrite == \A p \in Proposals : Len(writes[p]) <= 1

\* What is written is content the user saw, in the version and under the
\* account authorisation that was on the screen, and agreed to.
WriteWasAgreedTo ==
  \A p \in Proposals : \A i \in DOMAIN writes[p] :
    \E c \in clicks[p] : /\ c.version = writes[p][i].version
                          /\ c.payload = writes[p][i].payload
                          /\ c.context = execution[p].approval.context
                          /\ c.context.mode = "real"

\* The record never lies about the world: a failed proposal wrote nothing,
\* an executed real one was written, and whatever was written is what the
\* proposal row shows, in a status that no edit, rejection or expiry leaves.
RecordIsTruthful ==
  \A p \in Proposals :
    /\ proposal[p].status = "failed" => ~HasWritten(p)
    /\ (proposal[p].status = "executed" /\ execution[p].approval.context.mode = "real")
         => HasWritten(p)
    /\ HasWritten(p) => /\ proposal[p].status \in {"executing", "executed"}
                      /\ execution[p].outcome # "none"
                      /\ writes[p][1].version = proposal[p].version
                      /\ writes[p][1].payload = proposal[p].payload

\* A write happens while the account row still says what was approved.
WriteUnderLiveAuthorisation ==
  [][\A p \in Proposals : writes'[p] # writes[p] =>
       LET context == execution[p].approval.context
       IN  /\ account.status = "active"
           /\ account.revision = context.revision
           /\ context.scope \in account.scopes]_vars

\* No consent granted after the approval was given lies between the two.
\* Refuted with two account requests: they can share one revision.
NoWriteUnderLaterConsent ==
  [][\A p \in Proposals : writes'[p] # writes[p] =>
       execution[p].approval.consent = consents]_vars

Final == {"rejected", "expired", "executed", "failed"}

\* A final status is kept for ever with the row's content, and an attempt
\* leaves "executing" only to record how it ended.
FinalIsFinal ==
  [][\A p \in Proposals :
       /\ proposal[p].status \in Final => proposal'[p] = proposal[p]
       /\ proposal[p].status = "executing" =>
            /\ proposal'[p].status \in {"executing", "executed", "failed"}
            /\ proposal'[p].payload = proposal[p].payload]_vars

\* The attempt recorded by the sweep or by execute never says "pending" for
\* ever, even if the process that made it died.
PendingResolves ==
  \A p \in Proposals : execution[p].outcome = "pending" ~> execution[p].outcome # "pending"

\* No request keeps the account row for ever, so that a consent, a
\* disconnect or another execution always gets its turn.
AccountIsReleased == accountLock # None ~> accountLock = None

\* Whatever dies, an execution is settled and lets go of the account.
ExecutionsEnd == PendingResolves /\ AccountIsReleased

\* A version number names one content: what the user agreed to under a
\* version is what any later row with that version contains.
VersionNamesContent ==
  \A p \in Proposals : \A c \in clicks[p] :
    /\ c.version = proposal[p].version => c.payload = proposal[p].payload
    /\ \A d \in clicks[p] : c.version = d.version => c.payload = d.payload

\* An approval that is stored and not withdrawn is one the user gave for
\* the content of the row as it stands; its version says which content.
ApprovalStands ==
  /\ VersionNamesContent
  /\ \A p \in Proposals : proposal[p].status = "approved" =>
       /\ proposal[p].approval # None
       /\ proposal[p].approval.version = proposal[p].version
       /\ \E c \in clicks[p] : /\ c.version = proposal[p].version
                               /\ c.payload = proposal[p].payload
                               /\ c.context = proposal[p].approval.context

\* A proposal with no Google evidence never reaches Google, whatever the
\* user connects later.
Simulated == {p \in Proposals : \/ TypeOf[p] = "create_task"
                                \/ GoogleAccount \notin Evidence[p]}
SimulationNeverWrites == \A p \in Simulated : writes[p] = <<>>

\* One pass of generation fills one slot per action type: it never creates
\* two proposals of a type, nor one beside a live one it has just renewed.
OneSlotPerPass ==
  [][\A p, q \in Proposals :
       /\ p # q /\ TypeOf[p] = TypeOf[q]
       /\ proposal[p].status = "absent" /\ proposal'[p].status = "proposed"
       => proposal'[q] = proposal[q] \/ proposal'[q].status = "expired"]_vars

\* The refinement: a proposal's row, attempt and writes as one promise.
PhaseOf(p) ==
  LET status == proposal[p].status
  IN  CASE status = "absent" -> "none"
        [] status \in {"proposed", "edited"} -> "offered"
        [] status = "approved" -> "agreed"
        [] status = "executing" -> "attempted"
        [] status = "executed" -> "done"
        [] status = "failed" -> "refused"
        [] status \in {"rejected", "expired"} -> "closed"

ContentOf(p) == IF proposal[p].status = "absent"
                  THEN None
                  ELSE [version |-> proposal[p].version, payload |-> proposal[p].payload]

Pipeline == INSTANCE ExternalAction WITH
  Contents  <- [version : Nat, payload : Payloads],
  NoContent <- None,
  state     <- [p \in Proposals |-> [phase |-> PhaseOf(p), content |-> ContentOf(p),
                                     applied |-> writes[p] # <<>>]]

\* The pipeline of rows, locks and requests keeps the promise.
KeepsThePromise == Pipeline!Spec

\* "one active proposal per type, the existing product cap, unchanged".
OneActivePerType ==
  \A p, q \in Proposals :
    /\ p # q /\ TypeOf[p] = TypeOf[q]
    => ~(proposal[p].status \in Active /\ proposal[q].status \in Active)

\* recover_stale_pending_executions "Never touches `succeeded`, `failed`, or
\* already-`uncertain` rows".
OutcomeIsKept ==
  [][\A p \in Proposals : execution[p].outcome \in {"succeeded", "failed"} =>
       execution'[p].outcome = execution[p].outcome]_vars

\* "The execution context changed since you last viewed this proposal;
\* reload it": once reloaded, an open proposal shows the context that
\* approve compares with.
ReloadIsEnough ==
  \A p \in Proposals :
    /\ proposal[p].status \in {"proposed", "edited"}
    /\ screen[p] = [version |-> proposal[p].version, payload |-> proposal[p].payload,
                    context |-> DisplayedContext(p)]
    => screen[p].context = CurrentContext(p)
=============================================================================
