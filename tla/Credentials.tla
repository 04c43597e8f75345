------------------------------ MODULE Credentials -----------------------------
(***************************************************************************)
(* The encrypted Google tokens of the connected accounts while the token   *)
(* key is being replaced: the key ring of token_cipher.py, the requests of *)
(* accounts.py that write envelopes, and the operator's rotation script    *)
(* with credential_rotation.py.                                            *)
(*                                                                         *)
(* Configuration 1 encrypts under the old key, 2 under the new one and     *)
(* still reads the old, 3 holds the new key only.  Some rows may be on a   *)
(* key no configuration holds.  A request reads the row without locking it *)
(* (the consent callback, disconnect) or FOR UPDATE (a token refresh); at  *)
(* commit SQLAlchemy writes the columns whose value differs from the one   *)
(* it loaded.  A deployment ends the requests of the process it replaces.  *)
(***************************************************************************)
EXTENDS Integers, FiniteSets, FiniteSetsExt

CONSTANTS
  Accounts,   \* connected_accounts ids, numbers: a batch takes them in order
  Tokens,     \* what Google issues
  Handlers,   \* consent callbacks and disconnects that may be in flight
  BatchSize,  \* --batch-size
  Stranded,   \* accounts that may start on a key no configuration holds
  Null

ASSUME AccountsAreOrdered == Accounts \subseteq Nat /\ IsFiniteSet(Accounts)
ASSUME BatchesHoldRows == BatchSize \in Nat \ {0}
ASSUME TokensAreIssued == Tokens # {}

VARIABLES
  config,     \* the deployed key configuration
  row,        \* Accounts -> the committed row
  handler,    \* Handlers -> the callback or disconnect in progress
  refreshing, \* the rows a token refresh holds FOR UPDATE
  rotation,   \* the operator's rotation script
  verified    \* --verify-retirement said that the old key may go

vars == <<config, row, handler, refreshing, rotation, verified>>

Fields == {"access", "refresh"}
Keys == {"old", "new", "lost"}
Envelopes == [key : Keys, token : Tokens]
ASSUME NullIsNeither == Null \notin Keys \cup Envelopes

Rows == [status : {"none", "active", "disconnected", "revoked"},
         env : [Fields -> Envelopes \cup {Null}], key : [Fields -> Keys \cup {Null}]]
Nothing == [f \in Fields |-> Null]
NoRow == [status |-> "none", env |-> Nothing, key |-> Nothing]
Exists(a) == row[a].status # "none"

Idle == [op |-> "idle", of |-> Null, loaded |-> NoRow]
Off == [step |-> "off", ring |-> 1, batch |-> {}, loaded |-> [a \in {} |-> NoRow]]

CredentialsTypeOK ==
  /\ config \in 1..3 /\ verified \in BOOLEAN
  /\ row \in [Accounts -> Rows]
  /\ \A a \in Accounts : ~Exists(a) => row[a] = NoRow
  /\ handler \in [Handlers -> [op : {"idle", "store", "disconnect"},
                               of : Accounts \cup {Null}, loaded : Rows]]
  /\ refreshing \subseteq Accounts
  /\ rotation.step \in {"off", "picking", "locked"} /\ rotation.ring \in 1..3
  /\ rotation.batch \subseteq Accounts /\ Cardinality(rotation.batch) <= BatchSize
  /\ rotation.loaded \in [rotation.batch -> Rows]
  /\ (rotation.step = "locked") <=> (rotation.batch # {})

-----------------------------------------------------------------------------
(* The key ring of a configuration.                                        *)

Active(c) == IF c = 1 THEN "old" ELSE "new"
Readable(c) == {Active(c)} \cup (IF c = 2 THEN {"old"} ELSE {})
Encrypted(c, t) == [key |-> Active(c), token |-> t]
Opens(c, r, f) == r.env[f].key \in Readable(c)

\* _encrypt_field: envelope and key id of the fields in new, which maps them
\* to their tokens.
Encrypts(c, r, new) ==
  [r EXCEPT !.env = [f \in Fields |-> IF f \in DOMAIN new THEN Encrypted(c, new[f]) ELSE @[f]],
            !.key = [f \in Fields |-> IF f \in DOMAIN new THEN Active(c) ELSE @[f]]]

\* An UPDATE of a row that was loaded: the columns that changed.  An envelope
\* always does, its nonce is new.
Written(a, loaded, new, issued) ==
  LET W(l, n, current) == IF n = l THEN current ELSE n
  IN [status |-> W(loaded.status, new.status, row[a].status),
      env |-> [f \in Fields |-> IF f \in issued THEN new.env[f]
                                ELSE W(loaded.env[f], new.env[f], row[a].env[f])],
      key |-> [f \in Fields |-> W(loaded.key[f], new.key[f], row[a].key[f])]]

\* A row as an earlier configuration left it.
LeftRow(k) ==
  [status |-> "active", key |-> k,
   env |-> [f \in Fields |-> IF k[f] = Null THEN Null
                             ELSE [key |-> k[f], token |-> CHOOSE t \in Tokens : TRUE]]]

Init ==
  /\ config = 1 /\ verified = FALSE
  /\ row \in [Accounts -> {NoRow} \cup {LeftRow(k) : k \in [Fields -> {"old", "lost", Null}]}]
  /\ \A a \in Accounts : Exists(a) =>
       /\ row[a].key["access"] # Null
       /\ a \notin Stranded => \A f \in Fields : row[a].key[f] # "lost"
  /\ handler = [h \in Handlers |-> Idle]
  /\ refreshing = {} /\ rotation = Off

\* Mutant of HeldByRotation: the batch is selected without a lock.
HeldByNobody == {}
\* Row locks: SELECT FOR UPDATE, held to the end of the transaction.
HeldByRotation == rotation.batch
Locked(a) == a \in refreshing \/ a \in HeldByRotation

-----------------------------------------------------------------------------
(* Requests.                                                               *)

Reads(h, a, op) ==
  /\ handler[h] = Idle
  /\ handler' = [handler EXCEPT ![h] = [op |-> op, of |-> a, loaded |-> row[a]]]
  /\ UNCHANGED <<config, row, refreshing, rotation, verified>>

\* disconnect decrypts the refresh token to revoke it, and fails if it cannot.
Begins(h, a) ==
  \/ Reads(h, a, "store")
  \/ /\ Exists(a) /\ (row[a].env["refresh"] # Null => Opens(config, row[a], "refresh"))
     /\ Reads(h, a, "disconnect")

\* store_tokens after a consent: a refresh token only comes with some.  The
\* row may have gone, or someone else may have created it: an error, and the
\* transaction is rolled back.
Stores(h) ==
  LET a == handler[h].of
      loaded == handler[h].loaded
  IN /\ handler[h].op = "store" /\ ~Locked(a)
     /\ \E new \in [{"access"} -> Tokens] \cup [Fields -> Tokens] :
          LET stored == [Encrypts(config, loaded, new) EXCEPT !.status = "active"]
          IN row' = IF Exists(a) # (loaded # NoRow) THEN row
                    ELSE [row EXCEPT ![a] = Written(a, loaded, stored, DOMAIN new)]
     /\ handler' = [handler EXCEPT ![h] = Idle]
     /\ UNCHANGED <<config, refreshing, rotation, verified>>

Disconnects(h) ==
  LET a == handler[h].of
  IN /\ handler[h].op = "disconnect" /\ ~Locked(a)
     /\ row' = IF ~Exists(a) THEN row
               ELSE [row EXCEPT ![a] = Written(a, handler[h].loaded,
                                               [NoRow EXCEPT !.status = "disconnected"], {})]
     /\ handler' = [handler EXCEPT ![h] = Idle]
     /\ UNCHANGED <<config, refreshing, rotation, verified>>

\* get_valid_access_token finds the access token expired.
Refreshes(a) ==
  /\ ~Locked(a) /\ row[a].status = "active"
  /\ row[a].env["refresh"] # Null /\ Opens(config, row[a], "refresh")
  /\ refreshing' = refreshing \cup {a}
  /\ UNCHANGED <<config, row, handler, rotation, verified>>

\* Google sends a token, seldom a second one, or rejects the refresh token
\* (InvalidGrantError: the access envelope goes and its key id stays), or
\* cannot be reached.
Refreshed(a) ==
  /\ a \in refreshing
  /\ \/ \E new \in [{"access"} -> Tokens] \cup [Fields -> Tokens] :
          row' = [row EXCEPT ![a] = Encrypts(config, row[a], new)]
     \/ row' = [row EXCEPT ![a].status = "revoked", ![a].env["access"] = Null]
     \/ row' = row
  /\ refreshing' = refreshing \ {a}
  /\ UNCHANGED <<config, handler, rotation, verified>>

\* The credentials phase of an account deletion removes the row.
Erases(a) ==
  /\ Exists(a) /\ ~Locked(a)
  /\ row' = [row EXCEPT ![a] = NoRow]
  /\ UNCHANGED <<config, handler, refreshing, rotation, verified>>

-----------------------------------------------------------------------------
(* The operator: rotate_credential_keys.py.                                *)

Stale(ring, r, f) == r.key[f] \notin {Null, Active(ring)}

\* Mutant of Candidates: & for |.
CandidatesWithBoth(ring) == {a \in Accounts : \A f \in Fields : Stale(ring, row[a], f)}
\* _select_candidates: the first unlocked rows with a key id that is not the
\* active one in either column.
Candidates(ring) == {a \in Accounts : \E f \in Fields : Stale(ring, row[a], f)}
FirstOf(S) == {a \in S : Cardinality({b \in S : b < a}) < BatchSize}

\* dry_run_inventory finds something to do.
BeginsRotation ==
  /\ rotation = Off /\ Candidates(config) # {}
  /\ rotation' = [Off EXCEPT !.step = "picking", !.ring = config]
  /\ UNCHANGED <<config, row, handler, refreshing, verified>>

SelectsBatch ==
  LET batch == FirstOf({a \in Candidates(rotation.ring) : ~Locked(a)})
  IN /\ rotation.step = "picking" /\ batch # {}
     /\ rotation' = [rotation EXCEPT !.step = "locked", !.batch = batch,
                                     !.loaded = [a \in batch |-> row[a]]]
     /\ UNCHANGED <<config, row, handler, refreshing, verified>>

\* rotate_batch processed nothing: the script is done.
EndsRotation ==
  /\ rotation.step = "picking" /\ \A a \in Candidates(rotation.ring) : Locked(a)
  /\ rotation' = Off
  /\ UNCHANGED <<config, row, handler, refreshing, verified>>

Migrates(ring, r, f) == r.env[f] # Null /\ Stale(ring, r, f)
\* _migrate_field, first for the access token.  An envelope that does not
\* open leaves the row blocked: the refresh token is then not tried, but what
\* was migrated before is flushed.
Migrated(ring, r) ==
  LET opened == {f \in Fields : Migrates(ring, r, f) /\ Opens(ring, r, f)}
      moved == IF Migrates(ring, r, "access") /\ "access" \notin opened THEN {} ELSE opened
  IN Encrypts(ring, r, [f \in moved |-> r.env[f].token])

MovedFields(a) ==
  {f \in Fields : Migrated(rotation.ring, rotation.loaded[a]).env[f] # rotation.loaded[a].env[f]}

CommitsBatch ==
  /\ rotation.step = "locked"
  /\ row' = [a \in Accounts |->
               IF a \notin rotation.batch \/ ~Exists(a) THEN row[a]
               ELSE Written(a, rotation.loaded[a],
                            Migrated(rotation.ring, rotation.loaded[a]), MovedFields(a))]
  /\ rotation' = [Off EXCEPT !.step = "picking", !.ring = rotation.ring]
  /\ UNCHANGED <<config, handler, refreshing, verified>>

\* The script is interrupted: an open batch is rolled back.
Interrupted ==
  /\ rotation # Off /\ rotation' = Off
  /\ UNCHANGED <<config, row, handler, refreshing, verified>>

\* Mutant of Unreferenced: only one of the key-id columns is asked.
UnreferencedByAccess(k) == \A a \in Accounts : row[a].key["access"] # k
\* verify_key_retirement_safe
Unreferenced(k) == \A a \in Accounts : \A f \in Fields : row[a].key[f] # k

Verifies ==
  /\ config = 2 /\ Unreferenced("old")
  /\ verified' = TRUE
  /\ UNCHANGED <<config, row, handler, refreshing, rotation>>

\* A deployment: the new key becomes the active one, then the old one goes.
Deploys ==
  /\ config = 1 \/ (config = 2 /\ verified)
  /\ config' = config + 1
  /\ handler' = [h \in Handlers |-> Idle] /\ refreshing' = {}
  /\ UNCHANGED <<row, rotation, verified>>

\* credential_connection_gate: no envelope without a key id, on a legacy key,
\* or on one the ring does not hold.
Reported(c) ==
  {p \in Accounts \X Fields : LET r == row[p[1]]
                             IN r.env[p[2]] # Null /\ r.key[p[2]] # Active(c)}
ClearToConnect == Reported(config) = {}

Rotates == BeginsRotation \/ SelectsBatch \/ EndsRotation \/ CommitsBatch \/ Interrupted

Next ==
  \/ \E h \in Handlers : \E a \in Accounts : Begins(h, a)
  \/ \E h \in Handlers : Stores(h) \/ Disconnects(h)
  \/ \E a \in Accounts : Refreshes(a) \/ Refreshed(a) \/ Erases(a)
  \/ Rotates \/ Verifies \/ Deploys

Spec == Init /\ [][Next]_vars

\* The operator runs the script until it has nothing to do, and stops a run
\* from before the deployment; runs are interrupted time and again, but not
\* every one of them at its first batch.
KeepsRotating ==
  \/ BeginsRotation \/ EndsRotation
  \/ rotation.ring # config /\ Interrupted
FairSpec ==
  /\ Spec
  /\ WF_vars(KeepsRotating)
  /\ SF_vars(SelectsBatch) /\ SF_vars(CommitsBatch)

-----------------------------------------------------------------------------
(* Properties.                                                             *)

\* The key-id column, by which rows are selected and the retirement is
\* verified, names the key the envelope is encrypted under
\* (accounts.py:54, _encrypt_field "so the two can never drift apart").
KeyIdsNameTheKey ==
  \A a \in Accounts : \A f \in Fields :
    row[a].env[f] # Null => row[a].key[f] = row[a].env[f].key

\* When the old key is gone from the ring no stored token needs it
\* (credential_rotation.py:147, verify_key_retirement_safe).
RetiredKeyIsUnused ==
  config = 3 => \A a \in Accounts : \A f \in Fields :
                  row[a].env[f] # Null => row[a].env[f].key # "old"

\* The gate's clearance means that every stored token opens under the active
\* key (credential_rotation.py:192, credential_connection_gate).
ClearMeansActive ==
  ClearToConnect => \A a \in Accounts : \A f \in Fields :
                      row[a].env[f] # Null => row[a].env[f].key = Active(config)

\* The columns can be trusted, by the retirement of a key and by the gate.
KeysInv ==
  /\ CredentialsTypeOK
  /\ KeyIdsNameTheKey
  /\ RetiredKeyIsUnused
  /\ ClearMeansActive

\* A batch re-encrypts the tokens that are stored when it commits: it brings
\* back none that a refresh, a consent or a disconnect has replaced meanwhile
\* (credential_rotation.py:10, FOR UPDATE SKIP LOCKED).
Plaintext(r, f) == IF r.env[f] = Null THEN Null ELSE r.env[f].token
RotationKeepsTokens ==
  [][CommitsBatch => \A a \in Accounts : \A f \in Fields :
                       Plaintext(row[a], f)' = Plaintext(row[a], f)]_vars

\* Under an operator who keeps rotating, the tokens leave the old key once
\* the new one is deployed, if from some time on no row is blocked and no
\* refresh holds one: a row on a lost key, or with a key id beside no
\* envelope, stays a candidate for ever.
StuckRow(r) == \E f \in Fields : r.key[f] # Null /\ (r.env[f] = Null \/ r.env[f].key = "lost")
LegacyKeysMigrate ==
  (<>[](config > 1 /\ refreshing = {} /\ \A a \in Accounts : ~StuckRow(row[a])))
    => <>[](\A a \in Accounts : \A f \in Fields :
              row[a].env[f] # Null => row[a].env[f].key # "old")

(* Refuted: see the README.                                                *)

\* No envelope is stored beside a NULL key id (models.py:359, "NULL means the
\* corresponding ciphertext column is also NULL"; credential_rotation.py:167).
NothingUnversioned ==
  \A a \in Accounts : \A f \in Fields : row[a].env[f] # Null => row[a].key[f] # Null

\* rotate_credential_keys.py:117 ends when a batch had nothing to process and
\* reports the blocked rows.
RotationEnds == []<>(rotation = Off)
=============================================================================
