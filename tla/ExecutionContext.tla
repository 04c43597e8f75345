-------------------------- MODULE ExecutionContext --------------------------
(***************************************************************************)
(* execution_context.py: what would executing a proposal do right now?     *)
(*                                                                         *)
(* The answer is computed from the accounts the proposal's evidence came   *)
(* from and from the state of the user's accounts at the moment of asking. *)
(* Approval stores a hash of the answer, and execution recomputes it and   *)
(* compares.  A context is the record of the fields that enter that hash   *)
(* (execution_context_hash): two hashes are equal exactly when the records *)
(* are, so the record stands for the hash.                                 *)
(***************************************************************************)
EXTENDS Integers

CONSTANTS
  AccountIds,   \* connected account ids that evidence may name
  None          \* Python's None

ASSUME NoneIsNoAccount == None \notin AccountIds

ActionTypes == {"create_task", "create_gmail_draft", "create_calendar_event"}

\* The two write scopes, and the scope of the demo account.
Scopes == {"gmail.compose", "calendar.events", "demo"}

AccountStatuses == {"active", "disconnected", "revoked"}

AccountRows == [provider : {"google", "synthetic"}, status : AccountStatuses,
                scopes : SUBSET Scopes, revision : Nat]

Modes == {"simulation", "real", "unavailable"}

Contexts == [mode : Modes, provider : {"google", "synthetic"},
             account : AccountIds \cup {None}, revision : Nat,
             scope : Scopes \cup {None}, source : AccountIds \cup {None}]

RequiredGoogleScope(type) ==
  IF type = "create_gmail_draft" THEN "gmail.compose" ELSE "calendar.events"

\* A context that reaches no Google account.
Detached(mode, provider, scope, source) ==
  [mode |-> mode, provider |-> provider, account |-> None, revision |-> 0,
   scope |-> scope, source |-> source]

\* The only member of ids, or None.
SingleAccount(ids) == IF \E a \in ids : ids = {a} THEN CHOOSE a \in ids : TRUE ELSE None

GoogleIds(accounts, evidence) ==
  {a \in evidence : a \in DOMAIN accounts /\ accounts[a].provider = "google"}

HasSimulatedCapability(accounts) ==
  \E a \in DOMAIN accounts : /\ accounts[a].provider = "synthetic"
                             /\ accounts[a].status = "active"
                             /\ "demo" \in accounts[a].scopes

\* Faulty: decided from the accounts alone.
ContextFromAccounts(type, accounts, evidence) ==
  LET scope  == RequiredGoogleScope(type)
      usable == {a \in DOMAIN accounts : /\ accounts[a].provider = "google"
                                         /\ accounts[a].status = "active"
                                         /\ scope \in accounts[a].scopes}
      only   == CHOOSE a \in usable : TRUE
  IN  IF usable # {}
        THEN [mode |-> "real", provider |-> "google", account |-> only,
              revision |-> accounts[only].revision, scope |-> scope, source |-> only]
        ELSE Detached("simulation", "synthetic", None, SingleAccount(evidence))

\* accounts: account id -> row, for the rows the user has now.
\* evidence: the account ids the proposal's source items are linked to.
ResolveExecutionContext(type, accounts, evidence) ==
  LET linked == GoogleIds(accounts, evidence)
      scope  == RequiredGoogleScope(type)
      only   == CHOOSE a \in linked : TRUE
  IN  CASE type = "create_task" ->
             Detached("simulation", "synthetic", None, SingleAccount(evidence))
        [] type # "create_task" /\ linked # {} /\ evidence # {only} ->
             Detached("unavailable", "google", scope, None)
        [] type # "create_task" /\ linked # {} /\ evidence = {only} ->
             IF accounts[only].status = "active" /\ scope \in accounts[only].scopes
               THEN [mode |-> "real", provider |-> "google", account |-> only,
                     revision |-> accounts[only].revision, scope |-> scope,
                     source |-> only]
               ELSE Detached("unavailable", "google", scope, only)
        [] type # "create_task" /\ linked = {} ->
             Detached(IF HasSimulatedCapability(accounts) THEN "simulation"
                                                          ELSE "unavailable",
                      "synthetic", None, SingleAccount(evidence))
=============================================================================
