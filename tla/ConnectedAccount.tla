-------------------------- MODULE ConnectedAccount --------------------------
(***************************************************************************)
(* accounts.py and connected_accounts.py: the one Google account row of a  *)
(* user, and the requests that change it.                                  *)
(*                                                                         *)
(* A request is one database transaction at READ COMMITTED.  The OAuth     *)
(* callback (store_tokens) and disconnect read the row WITHOUT locking it, *)
(* change the Python object and write it back at commit, so each is two    *)
(* steps here, with the row as it was loaded kept in between.  SQLAlchemy  *)
(* writes only the columns whose value differs from the loaded one: that   *)
(* is Written below.                                                       *)
(***************************************************************************)
EXTENDS ExecutionContext

CONSTANTS
  Handlers,     \* callback and disconnect requests that may be in flight
  Grants,       \* the scope sets Google may report as granted
  MaxConsents   \* bound: no callback starts after this many have committed

ASSUME NoneIsNoHandler == None \notin Handlers
ASSUME GrantsAreScopes == Grants \subseteq SUBSET Scopes
ASSUME BoundOnConsents == MaxConsents \in Nat

VARIABLES
  account,      \* the committed row; status "none" while there is no row
  accountLock,  \* the execution request holding the row FOR UPDATE, or None
  handler,      \* Handlers -> the request in progress
  consents      \* history: how many consent grants have been committed

accountVars == <<account, accountLock, handler, consents>>

Rows == [status : AccountStatuses \cup {"none"}, scopes : SUBSET Scopes,
         revision : Nat, tokens : BOOLEAN]

NoRow == [status |-> "none", scopes |-> {}, revision |-> 0, tokens |-> FALSE]

Idle == [op |-> "idle", loaded |-> NoRow, scopes |-> {}]

AccountTypeOK ==
  /\ account \in Rows
  /\ handler \in [Handlers -> [op : {"idle", "store", "disconnect"},
                               loaded : Rows, scopes : SUBSET Scopes]]
  /\ consents \in Nat

InitAccount ==
  /\ account = NoRow
  /\ accountLock = None
  /\ handler = [h \in Handlers |-> Idle]
  /\ consents = 0

\* The column value after an UPDATE: set only if the request changed it.
Written(loaded, new, current) == IF new = loaded THEN current ELSE new

-----------------------------------------------------------------------------
(* store_tokens: google_connector_callback has exchanged the code; the     *)
(* token response reports the scopes in granted.                           *)
StoreTokensRead(h, granted) ==
  /\ handler[h].op = "idle"
  /\ consents < MaxConsents
  /\ handler' = [handler EXCEPT ![h] =
                   [op |-> "store", loaded |-> account, scopes |-> granted]]
  /\ UNCHANGED <<account, accountLock, consents>>

\* No row was found: INSERT with revision 1.  UNIQUE (user_id, provider)
\* fails the loser of two first connects, whose transaction rolls back.
InsertAccount(h) ==
  /\ handler[h].op = "store"
  /\ handler[h].loaded.status = "none"
  /\ handler' = [handler EXCEPT ![h] = Idle]
  /\ IF account.status = "none"
       THEN /\ account' = [status |-> "active", scopes |-> handler[h].scopes,
                           revision |-> 1, tokens |-> TRUE]
            /\ consents' = consents + 1
       ELSE UNCHANGED <<account, consents>>
  /\ UNCHANGED accountLock

\* A row was found: fresh ciphertexts are always written, the revision is
\* the loaded one plus one, status and scopes are written if they changed.
StoreTokensCommit(h) ==
  LET loaded == handler[h].loaded
  IN  /\ handler[h].op = "store"
      /\ loaded.status # "none"
      /\ accountLock = None
      /\ account' = [status   |-> Written(loaded.status, "active", account.status),
                     scopes   |-> Written(loaded.scopes, handler[h].scopes, account.scopes),
                     revision |-> loaded.revision + 1,
                     tokens   |-> TRUE]
      /\ consents' = consents + 1
      /\ handler' = [handler EXCEPT ![h] = Idle]
      /\ UNCHANGED accountLock

-----------------------------------------------------------------------------
(* disconnect: between the read and the write the request awaits Google's  *)
(* best-effort revocation, whose result changes nothing but an audit row.  *)
DisconnectRead(h) ==
  /\ handler[h].op = "idle"
  /\ account.status # "none"
  /\ handler' = [handler EXCEPT ![h] =
                   [op |-> "disconnect", loaded |-> account, scopes |-> {}]]
  /\ UNCHANGED <<account, accountLock, consents>>

DisconnectCommit(h) ==
  LET loaded == handler[h].loaded
  IN  /\ handler[h].op = "disconnect"
      /\ accountLock = None
      /\ account' = [account EXCEPT
                       !.status = Written(loaded.status, "disconnected", account.status),
                       !.tokens = Written(loaded.tokens, FALSE, account.tokens)]
      /\ handler' = [handler EXCEPT ![h] = Idle]
      /\ UNCHANGED <<accountLock, consents>>

\* The process dies, or the request fails: its transaction rolls back.
HandlerCrash(h) ==
  /\ handler[h].op # "idle"
  /\ handler' = [handler EXCEPT ![h] = Idle]
  /\ UNCHANGED <<account, accountLock, consents>>

-----------------------------------------------------------------------------
(* get_valid_access_token, called by a sync: it holds the row lock while   *)
(* Google rejects the refresh token, and the sync's commit makes the       *)
(* account revoked.  (A token that is still good changes nothing here.)    *)
RevokedBySync ==
  /\ accountLock = None
  /\ account.status = "active"
  /\ account.tokens
  /\ account' = [account EXCEPT !.status = "revoked"]
  /\ UNCHANGED <<accountLock, handler, consents>>

AccountNext ==
  \/ \E h \in Handlers : \/ \E granted \in Grants : StoreTokensRead(h, granted)
                         \/ InsertAccount(h)
                         \/ StoreTokensCommit(h)
                         \/ DisconnectRead(h)
                         \/ DisconnectCommit(h)
                         \/ HandlerCrash(h)
  \/ RevokedBySync

AccountSpec == InitAccount /\ [][AccountNext]_accountVars

\* disconnect: "Mark the account disconnected and drop stored tokens".
DisconnectedHoldsNoTokens == account.status = "disconnected" => ~account.tokens
=============================================================================
