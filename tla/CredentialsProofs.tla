--------------------------- MODULE CredentialsProofs ---------------------------
(***************************************************************************)
(* Theorems about Credentials, for any number of accounts and tokens and   *)
(* batches of any size.                                                    *)
(*                                                                         *)
(* The argument: a batch is locked, so what the rotation loaded is what it *)
(* overwrites.  A key id only ever becomes the active key, or nothing, so  *)
(* it never names a wrong one.  That it is never nothing beside an envelope *)
(* takes that no other request of the same account writes between the read *)
(* and the write of one: what a request found empty, or on the active key, *)
(* is still so when it writes.                                             *)
(***************************************************************************)
EXTENDS Credentials, FiniteSetTheorems, WellFoundedInduction, TLAPS

\* One consent callback or disconnect is in flight at a time.
OneHandler == \A g, h \in Handlers : g = h

-----------------------------------------------------------------------------
(* The inductive invariants.                                               *)

HandlerStates == [op : {"idle", "store", "disconnect"}, of : Accounts \cup {Null},
                  loaded : Rows]

\* A locked row is what the rotation read, or what the refresh found.
LocksHold ==
  /\ rotation = [step |-> rotation.step, ring |-> rotation.ring, batch |-> rotation.batch,
                 loaded |-> rotation.loaded]
  /\ rotation.ring <= config
  /\ rotation.batch \cap refreshing = {}
  /\ \A a \in rotation.batch : rotation.loaded[a] = row[a]
  /\ \A a \in refreshing : row[a].status = "active" /\ row[a].env["refresh"] # Null

Named(r) == \A f \in Fields : r.env[f] # Null => r.key[f] \in {Null, r.env[f].key}

\* A key id that is there is the right one, for any number of handlers.
NoKeyIdMisleads == \A a \in Accounts : Named(row[a])

Busy(h) == handler[h].op # "idle"
LoadedRow(h) == handler[h].loaded

HandlersAreSound ==
  \A h \in Handlers : Busy(h) =>
    LET a == handler[h].of
    IN /\ a \in Accounts
       /\ handler[h].op = "disconnect" => LoadedRow(h) # NoRow
       /\ LoadedRow(h).status = "none" => LoadedRow(h) = NoRow
       /\ Exists(a) => \A f \in Fields : LoadedRow(h).key[f] = Active(config)
                                           => row[a].key[f] \in {Null, Active(config)}

RowsInv == CredentialsTypeOK /\ LocksHold /\ NoKeyIdMisleads /\ HandlersAreSound

\* With one handler: what it found is what it finds, but for other steps'
\* re-encryption and revocation.
LoadedIsCurrent ==
  \A h \in Handlers : Busy(h) /\ LoadedRow(h) # NoRow /\ Exists(handler[h].of) =>
    LET r == row[handler[h].of]
    IN /\ r.status = "active" => LoadedRow(h).status = "active"
       /\ \A f \in Fields :
            /\ LoadedRow(h).key[f] = Active(config) => r.key[f] = Active(config)
            /\ LoadedRow(h).env[f] = Null => r.env[f] = Null

ActiveRowsHaveAccess ==
  \A a \in Accounts : row[a].status = "active" => row[a].env["access"] # Null

RetirementIsVerified ==
  /\ config = 3 => verified
  /\ verified => config > 1 /\ Unreferenced("old")

SerialInv ==
  RowsInv /\ KeyIdsNameTheKey /\ LoadedIsCurrent /\ ActiveRowsHaveAccess /\ RetirementIsVerified

-----------------------------------------------------------------------------
(* Keys, and what is written under them.                                   *)

LEMMA KeyFacts ==
  /\ \A c \in 1..3 : Active(c) \in Keys /\ Active(c) # Null /\ Active(c) # "lost"
  /\ \A c \in 1..3 : c > 1 => Active(c) = "new"
  /\ \A c \in 1..3, t \in Tokens : Encrypted(c, t) \in Envelopes /\ Encrypted(c, t) # Null
  /\ \A e \in Envelopes : e # Null /\ e.key \in Keys /\ e.key # Null
  /\ Null \notin Keys
BY NullIsNeither DEF Active, Encrypted, Keys, Envelopes

LEMMA RowFacts ==
  /\ NoRow \in Rows /\ NoRow.status = "none"
  /\ \A f \in Fields : NoRow.env[f] = Null /\ NoRow.key[f] = Null
  /\ \A r \in Rows, f \in Fields : /\ r.env[f] \in Envelopes \cup {Null}
                                   /\ r.key[f] \in Keys \cup {Null}
  /\ "access" \in Fields /\ "refresh" \in Fields
BY DEF NoRow, Nothing, Rows, Fields

\* x is r with the fields of D encrypted anew.
Encrypting(x, c, r, D, new) ==
  /\ x \in Rows /\ x.status = r.status
  /\ \A f \in Fields :
       /\ f \in D => x.env[f] = Encrypted(c, new[f]) /\ x.key[f] = Active(c)
       /\ f \notin D => x.env[f] = r.env[f] /\ x.key[f] = r.key[f]

LEMMA EncryptsFields ==
  ASSUME NEW c \in 1..3, NEW r \in Rows, NEW D \in SUBSET Fields, NEW new \in [D -> Tokens],
         NEW x, x = Encrypts(c, r, new)
  PROVE  Encrypting(x, c, r, D, new)
<1> DEFINE e == [f \in Fields |-> IF f \in D THEN Encrypted(c, new[f]) ELSE r.env[f]]
           k == [f \in Fields |-> IF f \in D THEN Active(c) ELSE r.key[f]]
           y == [r EXCEPT !.env = e]
<1>1. e \in [Fields -> Envelopes \cup {Null}] /\ k \in [Fields -> Keys \cup {Null}]
  <2>1. \A f \in Fields : f \in D => Encrypted(c, new[f]) \in Envelopes
    BY KeyFacts
  <2> QED BY <2>1, KeyFacts, RowFacts
<1>2. x = [y EXCEPT !.key = k]
  BY DEF Encrypts, Rows
<1>3. /\ \A f \in Fields : e[f] = IF f \in D THEN Encrypted(c, new[f]) ELSE r.env[f]
      /\ \A f \in Fields : k[f] = IF f \in D THEN Active(c) ELSE r.key[f]
  OBVIOUS
<1> HIDE DEF e, k
<1>4. x \in Rows /\ x.status = r.status /\ x.env = e /\ x.key = k
  BY <1>1, <1>2 DEF Rows
<1> QED BY <1>3, <1>4 DEF Encrypting

\* An UPDATE: an issued field is written, another if it differs from what
\* was loaded.
LEMMA WrittenFields ==
  ASSUME NEW a, NEW loaded, NEW new, NEW issued, NEW x, x = Written(a, loaded, new, issued)
  PROVE  /\ x.status = IF new.status = loaded.status THEN row[a].status ELSE new.status
         /\ \A f \in Fields :
              /\ x.env[f] = IF f \in issued THEN new.env[f]
                            ELSE IF new.env[f] = loaded.env[f] THEN row[a].env[f] ELSE new.env[f]
              /\ x.key[f] = IF new.key[f] = loaded.key[f] THEN row[a].key[f] ELSE new.key[f]
BY DEF Written

LEMMA WrittenIsTyped ==
  ASSUME NEW a, row[a] \in Rows, NEW loaded, NEW new \in Rows, NEW issued
  PROVE  Written(a, loaded, new, issued) \in Rows
<1> DEFINE st == IF new.status = loaded.status THEN row[a].status ELSE new.status
           e == [f \in Fields |-> IF f \in issued THEN new.env[f]
                            ELSE IF new.env[f] = loaded.env[f] THEN row[a].env[f] ELSE new.env[f]]
           k == [f \in Fields |-> IF new.key[f] = loaded.key[f] THEN row[a].key[f] ELSE new.key[f]]
<1>1. Written(a, loaded, new, issued) = [status |-> st, env |-> e, key |-> k]
  BY DEF Written
<1>2. e \in [Fields -> Envelopes \cup {Null}] /\ k \in [Fields -> Keys \cup {Null}]
  BY RowFacts
<1>3. st \in {"none", "active", "disconnected", "revoked"}
  BY DEF Rows
<1> QED BY <1>1, <1>2, <1>3 DEF Rows

\* A migration moves the fields that open under the ring, and that are on
\* another key than its active one, and keeps their tokens.
LEMMA MigratedFields ==
  ASSUME NEW ring \in 1..3, NEW r \in Rows, NEW x, x = Migrated(ring, r)
  PROVE  /\ x \in Rows /\ x.status = r.status
         /\ \A f \in Fields :
              \/ x.env[f] = r.env[f] /\ x.key[f] = r.key[f]
              \/ /\ r.env[f] # Null /\ r.key[f] \notin {Null, Active(ring)}
                 /\ r.env[f].key \in Readable(ring)
                 /\ x.env[f] = Encrypted(ring, r.env[f].token) /\ x.key[f] = Active(ring)
<1> DEFINE opened == {f \in Fields : Migrates(ring, r, f) /\ Opens(ring, r, f)}
           moved == IF Migrates(ring, r, "access") /\ "access" \notin opened THEN {} ELSE opened
           new == [f \in moved |-> r.env[f].token]
<1>1. moved \in SUBSET Fields /\ moved \subseteq opened
  OBVIOUS
<1>2. \A f \in moved : /\ f \in Fields /\ r.env[f] # Null /\ r.key[f] \notin {Null, Active(ring)}
                       /\ r.env[f].key \in Readable(ring)
  BY <1>1 DEF Migrates, Opens, Stale
<1>3. \A f \in moved : r.env[f].token \in Tokens
  BY <1>2, RowFacts DEF Envelopes
<1>4. x = Encrypts(ring, r, new)
  BY DEF Migrated
<1> HIDE DEF moved
<1>5. new \in [moved -> Tokens] /\ \A f \in moved : new[f] = r.env[f].token
  BY <1>3
<1> HIDE DEF new
<1>6. Encrypting(x, ring, r, moved, new)
  <2>1. PICK D \in SUBSET Fields : D = moved
    BY <1>1
  <2>2. PICK n \in [D -> Tokens] : n = new
    BY <1>5, <2>1
  <2> QED BY <1>4, <2>1, <2>2, EncryptsFields
<1> QED BY <1>2, <1>5, <1>6 DEF Encrypting

\* What a named row's migration moves comes off the old key, onto the new one.
LEMMA MovedIsNew ==
  ASSUME NEW ring \in 1..3, NEW r \in Rows, Named(r), NEW f \in Fields,
         r.env[f] # Null, r.key[f] \notin {Null, Active(ring)}, r.env[f].key \in Readable(ring)
  PROVE  ring = 2 /\ r.key[f] = "old" /\ Active(ring) = "new"
BY DEF Named, Readable, Active

-----------------------------------------------------------------------------
(* Types.                                                                  *)

Rotations == [step : {"off", "picking", "locked"}, ring : 1..3, batch : SUBSET Accounts,
              loaded : UNION {[B -> Rows] : B \in SUBSET Accounts}]

LEMMA Types ==
  ASSUME RowsInv
  PROVE  /\ config \in 1..3 /\ verified \in BOOLEAN /\ row \in [Accounts -> Rows]
         /\ \A a \in Accounts : row[a] \in Rows /\ (~Exists(a) => row[a] = NoRow)
         /\ handler \in [Handlers -> HandlerStates] /\ refreshing \subseteq Accounts
         /\ rotation.step \in {"off", "picking", "locked"} /\ rotation.ring \in 1..3
         /\ rotation.batch \subseteq Accounts /\ Cardinality(rotation.batch) <= BatchSize
         /\ rotation.loaded \in [rotation.batch -> Rows]
         /\ rotation.step = "locked" <=> rotation.batch # {}
BY DEF RowsInv, CredentialsTypeOK, HandlerStates

LEMMA IdleIsTyped == Idle \in HandlerStates /\ Idle.op = "idle"
BY RowFacts DEF Idle, HandlerStates

LEMMA OffIsTyped ==
  /\ Off.step = "off" /\ Off.ring = 1 /\ Off.batch = {} /\ Off.loaded \in [Off.batch -> Rows]
  /\ Off = [step |-> Off.step, ring |-> Off.ring, batch |-> Off.batch, loaded |-> Off.loaded]
  /\ Cardinality(Off.batch) <= BatchSize
  /\ \A c \in 1..3 : LET p == [Off EXCEPT !.step = "picking", !.ring = c]
                     IN /\ p.step = "picking" /\ p.ring = c /\ p.batch = {}
                        /\ p.loaded \in [p.batch -> Rows]
                        /\ p = [step |-> p.step, ring |-> p.ring, batch |-> p.batch,
                                loaded |-> p.loaded]
<1>1. Cardinality({}) = 0 /\ BatchSize \in Nat
  BY FS_EmptySet, BatchesHoldRows
<1>2. \A c \in 1..3 : [Off EXCEPT !.step = "picking", !.ring = c] =
        [step |-> "picking", ring |-> c, batch |-> {}, loaded |-> [a \in {} |-> NoRow]]
  <2> SUFFICES ASSUME NEW c \in 1..3
               PROVE  [Off EXCEPT !.step = "picking", !.ring = c] =
        [step |-> "picking", ring |-> c, batch |-> {}, loaded |-> [a \in {} |-> NoRow]]
    OBVIOUS
  <2>1. PICK L : L = [a \in {} |-> NoRow]
    OBVIOUS
  <2>2. Off = [step |-> "off", ring |-> 1, batch |-> {}, loaded |-> L]
    BY <2>1 DEF Off
  <2>3. [Off EXCEPT !.step = "picking", !.ring = c] =
          [step |-> "picking", ring |-> c, batch |-> {}, loaded |-> L]
    <3> DEFINE p == [Off EXCEPT !.step = "picking"]
    <3>1. p = [step |-> "picking", ring |-> 1, batch |-> {}, loaded |-> L]
      BY <2>2
    <3>2. [Off EXCEPT !.step = "picking", !.ring = c] = [p EXCEPT !.ring = c]
      BY <2>2
    <3> HIDE DEF p
    <3>3. [p EXCEPT !.ring = c] = [step |-> "picking", ring |-> c, batch |-> {}, loaded |-> L]
      BY <3>1
    <3> QED BY <3>2, <3>3
  <2> QED BY <2>1, <2>3
<1>3. [a \in {} |-> NoRow] \in [{} -> Rows]
  OBVIOUS
<1> QED BY <1>1, <1>2, <1>3 DEF Off

\* A row as an earlier configuration left it is one that is named.
LEMMA LeftRowIsNamed ==
  ASSUME NEW k \in [Fields -> {"old", "lost", Null}]
  PROVE  /\ LeftRow(k) \in Rows /\ LeftRow(k).status = "active" /\ LeftRow(k).key = k
         /\ \A f \in Fields : /\ LeftRow(k).env[f] = Null <=> k[f] = Null
                              /\ k[f] # Null => LeftRow(k).env[f].key = k[f]
<1>1. PICK t \in Tokens : t = CHOOSE u \in Tokens : TRUE
  BY TokensAreIssued
<1> DEFINE e == [f \in Fields |-> IF k[f] = Null THEN Null ELSE [key |-> k[f], token |-> t]]
<1>2. \A f \in Fields : k[f] # Null => [key |-> k[f], token |-> t] \in Envelopes
  BY DEF Envelopes, Keys
<1>3. LeftRow(k) = [status |-> "active", key |-> k, env |-> e]
  BY <1>1 DEF LeftRow
<1>4. k \in [Fields -> Keys \cup {Null}] /\ e \in [Fields -> Envelopes \cup {Null}]
  BY <1>2 DEF Keys
<1>5. \A f \in Fields : /\ e[f] = Null <=> k[f] = Null
                        /\ k[f] # Null => e[f].key = k[f]
  BY <1>2, KeyFacts
<1> HIDE DEF e
<1> QED BY <1>3, <1>4, <1>5 DEF Rows

LEMMA InitSerial == Init => SerialInv
<1> SUFFICES ASSUME Init PROVE SerialInv
  OBVIOUS
<1>1. ASSUME NEW a \in Accounts
      PROVE  \/ row[a] = NoRow
             \/ \E k \in [Fields -> {"old", "lost", Null}] : row[a] = LeftRow(k)
  BY DEF Init
<1>2. ASSUME NEW a \in Accounts
      PROVE  /\ row[a] \in Rows /\ (~Exists(a) => row[a] = NoRow)
             /\ \A f \in Fields : row[a].env[f] # Null => row[a].key[f] = row[a].env[f].key
             /\ row[a].status = "active" => row[a].env["access"] # Null
  <2>1. CASE row[a] = NoRow
    BY <2>1, RowFacts DEF Exists
  <2>2. CASE \E k \in [Fields -> {"old", "lost", Null}] : row[a] = LeftRow(k)
    <3>1. PICK k \in [Fields -> {"old", "lost", Null}] : row[a] = LeftRow(k)
      BY <2>2
    <3>2. Exists(a)
      BY <3>1, LeftRowIsNamed DEF Exists
    <3>3. k["access"] # Null
      BY <3>1, <3>2, LeftRowIsNamed DEF Init
    <3> QED BY <3>1, <3>2, <3>3, LeftRowIsNamed, RowFacts
  <2> QED BY <1>1, <2>1, <2>2
<1>3. CredentialsTypeOK
  <2>1. row \in [Accounts -> Rows]
    BY <1>2 DEF Init
  <2>2. handler \in [Handlers -> HandlerStates]
    BY IdleIsTyped DEF Init
  <2>3. config \in 1..3 /\ verified \in BOOLEAN /\ refreshing \subseteq Accounts
    <3>1. config = 1 /\ verified = FALSE /\ refreshing = {}
      BY DEF Init
    <3>2. config \in 1..3 /\ refreshing \subseteq Accounts
      BY <3>1
    <3> QED BY <3>1, <3>2
  <2>4. rotation = Off
    BY DEF Init
  <2> QED BY <1>2, <2>1, <2>2, <2>3, <2>4, OffIsTyped DEF CredentialsTypeOK, HandlerStates
<1>4. LocksHold
  BY OffIsTyped DEF Init, LocksHold
<1>5. \A h \in Handlers : ~Busy(h)
  BY IdleIsTyped DEF Init, Busy
<1> QED BY <1>2, <1>3, <1>4, <1>5
        DEF SerialInv, RowsInv, NoKeyIdMisleads, Named, HandlersAreSound, KeyIdsNameTheKey,
            LoadedIsCurrent, ActiveRowsHaveAccess, RetirementIsVerified, Init

-----------------------------------------------------------------------------
(* For any number of handlers.                                             *)

\* One row is written, by someone who may; handlers only end.
LEMMA OneRowMoves ==
  ASSUME RowsInv, NEW a \in Accounts, NEW x \in Rows, x.status = "none" => x = NoRow,
         row' = [row EXCEPT ![a] = x], a \notin rotation.batch, a \notin refreshing',
         UNCHANGED <<config, rotation, verified>>, refreshing' \subseteq refreshing,
         handler' \in [Handlers -> HandlerStates],
         \A h \in Handlers : handler'[h] = handler[h] \/ handler'[h].op = "idle",
         Named(x), \A f \in Fields : x.key[f] \in {Null, Active(config), row[a].key[f]}
  PROVE  RowsInv'
<1>1. row' \in [Accounts -> Rows] /\ row'[a] = x /\ \A b \in Accounts : b # a => row'[b] = row[b]
  BY Types
<1>2. CredentialsTypeOK'
  <2>1. \A b \in Accounts : row'[b].status = "none" => row'[b] = NoRow
    BY <1>1, Types DEF Exists
  <2> QED BY <1>1, <2>1, Types DEF RowsInv, CredentialsTypeOK, HandlerStates, Exists
<1>3. LocksHold'
  BY <1>1, Types DEF RowsInv, LocksHold
<1>4. NoKeyIdMisleads'
  <2>1. \A b \in Accounts : Named(row'[b])
    BY <1>1 DEF RowsInv, NoKeyIdMisleads
  <2> QED BY <2>1 DEF NoKeyIdMisleads, Named
<1>5. HandlersAreSound'
  <2> SUFFICES ASSUME NEW h \in Handlers, handler[h].op # "idle", handler'[h] = handler[h]
               PROVE  LET b == handler[h].of
                      IN /\ b \in Accounts
                         /\ handler[h].op = "disconnect" => handler[h].loaded # NoRow
                         /\ handler[h].loaded.status = "none" => handler[h].loaded = NoRow
                         /\ row'[b].status # "none" =>
                              \A f \in Fields : handler[h].loaded.key[f] = Active(config)
                                => row'[b].key[f] \in {Null, Active(config)}
    BY DEF HandlersAreSound, Busy, LoadedRow, Exists
  <2>1. /\ handler[h].of \in Accounts
        /\ handler[h].op = "disconnect" => handler[h].loaded # NoRow
        /\ handler[h].loaded.status = "none" => handler[h].loaded = NoRow
        /\ Exists(handler[h].of) =>
             \A f \in Fields : handler[h].loaded.key[f] = Active(config)
               => row[handler[h].of].key[f] \in {Null, Active(config)}
    BY DEF RowsInv, HandlersAreSound, Busy, LoadedRow
  <2>2. ~Exists(a) => \A f \in Fields : row[a].key[f] = Null
    BY Types, RowFacts
  <2>3. CASE handler[h].of = a
    BY <1>1, <2>1, <2>2, <2>3
  <2>4. CASE handler[h].of # a
    BY <1>1, <2>1, <2>4 DEF Exists
  <2> QED BY <2>3, <2>4
<1> QED BY <1>2, <1>3, <1>4, <1>5 DEF RowsInv

\* What a handler does to its row, if it does not fail.
StoredRow(h, new) ==
  Written(handler[h].of, LoadedRow(h),
          [Encrypts(config, LoadedRow(h), new) EXCEPT !.status = "active"], DOMAIN new)
DisconnectedRow(h) ==
  Written(handler[h].of, LoadedRow(h), [NoRow EXCEPT !.status = "disconnected"], {})

IssuedTokens == [{"access"} -> Tokens] \cup [Fields -> Tokens]

LEMMA IssuedFacts ==
  ASSUME NEW new \in IssuedTokens
  PROVE  /\ DOMAIN new \in SUBSET Fields /\ new \in [DOMAIN new -> Tokens]
         /\ "access" \in DOMAIN new
BY DEF IssuedTokens, Fields

LEMMA ConsentFields ==
  ASSUME NEW c \in 1..3, NEW r \in Rows, NEW D \in SUBSET Fields, NEW new \in [D -> Tokens],
         NEW z, z = [Encrypts(c, r, new) EXCEPT !.status = "active"]
  PROVE  z.status = "active" /\ Encrypting(z, c, [r EXCEPT !.status = "active"], D, new)
<1>1. PICK y : y = Encrypts(c, r, new)
  OBVIOUS
<1>2. Encrypting(y, c, r, D, new)
  BY <1>1, EncryptsFields
<1>3. y \in Rows
  BY <1>2 DEF Encrypting
<1>4. z \in Rows /\ z.status = "active" /\ z.env = y.env /\ z.key = y.key
  BY <1>1, <1>3 DEF Rows
<1>5. PICK q : q = [r EXCEPT !.status = "active"]
  OBVIOUS
<1>6. q.status = "active" /\ q.env = r.env /\ q.key = r.key
  BY <1>5 DEF Rows
<1> QED BY <1>2, <1>4, <1>5, <1>6 DEF Encrypting

\* The fields of the row that a consent stores.
LEMMA StoredFields ==
  ASSUME RowsInv, NEW h \in Handlers, Busy(h), NEW new \in IssuedTokens,
         NEW x, x = StoredRow(h, new), Exists(handler[h].of) <=> LoadedRow(h) # NoRow
  PROVE  LET a == handler[h].of
         IN /\ a \in Accounts /\ x \in Rows /\ x.status # "none"
            /\ x.status = IF LoadedRow(h).status = "active" THEN row[a].status ELSE "active"
            /\ \A f \in Fields :
                 /\ f \in DOMAIN new => /\ x.env[f] \in Envelopes
                                        /\ x.env[f].key = Active(config)
                                        /\ x.key[f] = IF LoadedRow(h).key[f] = Active(config)
                                                        THEN row[a].key[f] ELSE Active(config)
                 /\ f \notin DOMAIN new => x.env[f] = row[a].env[f] /\ x.key[f] = row[a].key[f]
<1>1. PICK a \in Accounts : a = handler[h].of
  BY DEF RowsInv, HandlersAreSound
<1>2. PICK loaded \in Rows : loaded = LoadedRow(h)
  BY Types DEF LoadedRow, HandlerStates
<1>3. PICK D \in SUBSET Fields : D = DOMAIN new /\ new \in [D -> Tokens]
  BY IssuedFacts
<1>4. PICK c \in 1..3 : c = config
  BY Types
<1>5. PICK z : z = [Encrypts(c, loaded, new) EXCEPT !.status = "active"]
  OBVIOUS
<1>6. z.status = "active" /\ Encrypting(z, c, [loaded EXCEPT !.status = "active"], D, new)
  BY <1>3, <1>5, ConsentFields
<1>7. /\ z \in Rows /\ z.status = "active"
      /\ \A f \in Fields :
           /\ f \in D => z.env[f] = Encrypted(c, new[f]) /\ z.key[f] = Active(c)
           /\ f \notin D => z.env[f] = loaded.env[f] /\ z.key[f] = loaded.key[f]
  <2>1. PICK q : q = [loaded EXCEPT !.status = "active"]
    OBVIOUS
  <2>2. q.env = loaded.env /\ q.key = loaded.key
    BY <2>1 DEF Rows
  <2> QED BY <1>6, <2>1, <2>2 DEF Encrypting
<1>8. x = Written(a, loaded, z, D)
  BY <1>1, <1>2, <1>3, <1>4, <1>5 DEF StoredRow
<1>9. x \in Rows
  BY <1>7, <1>8, Types, WrittenIsTyped
<1>10. /\ x.status = IF z.status = loaded.status THEN row[a].status ELSE z.status
       /\ \A f \in Fields :
            /\ x.env[f] = IF f \in D THEN z.env[f]
                          ELSE IF z.env[f] = loaded.env[f] THEN row[a].env[f] ELSE z.env[f]
            /\ x.key[f] = IF z.key[f] = loaded.key[f] THEN row[a].key[f] ELSE z.key[f]
  BY <1>8, WrittenFields
<1>11. \A f \in D : Encrypted(c, new[f]) \in Envelopes
                    /\ Encrypted(c, new[f]).key = Active(c)
  BY <1>3, IssuedFacts, KeyFacts DEF Encrypted
<1>12. x.status # "none"
  BY <1>1, <1>2, <1>7, <1>10, RowFacts DEF Exists
<1> QED BY <1>1, <1>2, <1>3, <1>4, <1>7, <1>9, <1>10, <1>11, <1>12

\* The fields of the row that a disconnect leaves.
LEMMA DisconnectedFields ==
  ASSUME RowsInv, NEW h \in Handlers, Busy(h), NEW x, x = DisconnectedRow(h), Exists(handler[h].of)
  PROVE  LET a == handler[h].of
         IN /\ a \in Accounts /\ x \in Rows /\ x.status # "none"
            /\ x.status = IF LoadedRow(h).status = "disconnected" THEN row[a].status
                          ELSE "disconnected"
            /\ \A f \in Fields :
                 /\ x.env[f] = IF LoadedRow(h).env[f] = Null THEN row[a].env[f] ELSE Null
                 /\ x.key[f] = IF LoadedRow(h).key[f] = Null THEN row[a].key[f] ELSE Null
<1>1. PICK a \in Accounts : a = handler[h].of
  BY DEF RowsInv, HandlersAreSound
<1>2. PICK loaded \in Rows : loaded = LoadedRow(h)
  BY Types DEF LoadedRow, HandlerStates
<1>3. PICK z : z = [NoRow EXCEPT !.status = "disconnected"]
  OBVIOUS
<1>4. z \in Rows /\ z.status = "disconnected" /\ z.env = NoRow.env /\ z.key = NoRow.key
  BY <1>3, RowFacts DEF Rows
<1>5. x = Written(a, loaded, z, {})
  BY <1>1, <1>2, <1>3 DEF DisconnectedRow
<1>6. x \in Rows
  BY <1>4, <1>5, Types, WrittenIsTyped
<1>7. /\ x.status = IF z.status = loaded.status THEN row[a].status ELSE z.status
      /\ \A f \in Fields :
           /\ x.env[f] = IF f \in {} THEN z.env[f]
                         ELSE IF z.env[f] = loaded.env[f] THEN row[a].env[f] ELSE z.env[f]
           /\ x.key[f] = IF z.key[f] = loaded.key[f] THEN row[a].key[f] ELSE z.key[f]
  BY <1>5, WrittenFields
<1> QED BY <1>1, <1>2, <1>4, <1>6, <1>7, RowFacts DEF Exists
\* A handler ends.
LEMMA HandlerEnds ==
  ASSUME RowsInv, NEW h \in Handlers, handler' = [handler EXCEPT ![h] = Idle]
  PROVE  /\ handler' \in [Handlers -> HandlerStates]
         /\ handler'[h].op = "idle" /\ \A g \in Handlers : g # h => handler'[g] = handler[g]
<1> HandlerStates # {} /\ Idle \in HandlerStates /\ Idle.op = "idle"
  BY IdleIsTyped
<1> QED BY Types

LEMMA StoresKeeps ==
  ASSUME RowsInv, NEW h \in Handlers, Stores(h)
  PROVE  RowsInv'
<1>1. Busy(h)
  BY DEF Stores, Busy
<1>2. PICK a \in Accounts : a = handler[h].of
  BY <1>1 DEF RowsInv, HandlersAreSound
<1>3. /\ a \notin rotation.batch /\ a \notin refreshing
      /\ handler' = [handler EXCEPT ![h] = Idle]
      /\ UNCHANGED <<config, refreshing, rotation, verified>>
  BY <1>2 DEF Stores, Locked, HeldByRotation
<1>4. \E x \in Rows : /\ x.status = "none" => x = NoRow
                      /\ row' = [row EXCEPT ![a] = x] /\ Named(x)
                      /\ \A f \in Fields : x.key[f] \in {Null, Active(config), row[a].key[f]}
  <2>1. CASE row' = row
    <3>1. row' = [row EXCEPT ![a] = row[a]] /\ row[a] \in Rows
      BY <2>1, Types
    <3>2. Named(row[a]) /\ (row[a].status = "none" => row[a] = NoRow)
      BY Types DEF RowsInv, NoKeyIdMisleads, Exists
    <3> QED BY <3>1, <3>2
  <2>2. CASE /\ Exists(a) <=> LoadedRow(h) # NoRow
             /\ \E new \in IssuedTokens : row' = [row EXCEPT ![a] = StoredRow(h, new)]
    <3>1. PICK new \in IssuedTokens : row' = [row EXCEPT ![a] = StoredRow(h, new)]
      BY <2>2
    <3>2. PICK x : x = StoredRow(h, new)
      OBVIOUS
    <3>3. /\ x \in Rows /\ x.status # "none"
          /\ \A f \in Fields :
               /\ f \in DOMAIN new => /\ x.env[f] \in Envelopes
                                      /\ x.env[f].key = Active(config)
                                      /\ x.key[f] = IF LoadedRow(h).key[f] = Active(config)
                                                      THEN row[a].key[f] ELSE Active(config)
               /\ f \notin DOMAIN new => x.env[f] = row[a].env[f] /\ x.key[f] = row[a].key[f]
      BY <1>1, <1>2, <2>2, <3>2, StoredFields
    <3>4. /\ \A f \in Fields : LoadedRow(h).key[f] = Active(config)
                                 => row[a].key[f] \in {Null, Active(config)}
          /\ Named(row[a])
      <4>1. CASE Exists(a)
        BY <1>1, <1>2, <4>1 DEF RowsInv, HandlersAreSound, NoKeyIdMisleads
      <4>2. CASE ~Exists(a)
        BY <4>2, Types, RowFacts DEF RowsInv, NoKeyIdMisleads
      <4> QED BY <4>1, <4>2
    <3>5. ASSUME NEW f \in Fields
          PROVE  /\ x.env[f] # Null => x.key[f] \in {Null, x.env[f].key}
                 /\ x.key[f] \in {Null, Active(config), row[a].key[f]}
      <4>1. CASE f \in DOMAIN new
        BY <3>3, <3>4, <4>1
      <4>2. CASE f \notin DOMAIN new
        BY <3>3, <3>4, <4>2 DEF Named
      <4> QED BY <4>1, <4>2
    <3> QED BY <3>1, <3>2, <3>3, <3>5 DEF Named
  <2>3. \/ row' = row
        \/ /\ Exists(a) <=> LoadedRow(h) # NoRow
           /\ \E new \in IssuedTokens : row' = [row EXCEPT ![a] = StoredRow(h, new)]
    BY <1>2 DEF Stores, StoredRow, LoadedRow, IssuedTokens
  <2> QED BY <2>1, <2>2, <2>3
<1>5. /\ handler' \in [Handlers -> HandlerStates]
      /\ \A g \in Handlers : handler'[g] = handler[g] \/ handler'[g].op = "idle"
  BY <1>3, HandlerEnds
<1> QED BY <1>3, <1>4, <1>5, OneRowMoves

LEMMA DisconnectsKeeps ==
  ASSUME RowsInv, NEW h \in Handlers, Disconnects(h)
  PROVE  RowsInv'
<1>1. Busy(h)
  BY DEF Disconnects, Busy
<1>2. PICK a \in Accounts : a = handler[h].of
  BY <1>1 DEF RowsInv, HandlersAreSound
<1>3. /\ a \notin rotation.batch /\ a \notin refreshing
      /\ handler' = [handler EXCEPT ![h] = Idle]
      /\ UNCHANGED <<config, refreshing, rotation, verified>>
  BY <1>2 DEF Disconnects, Locked, HeldByRotation
<1>4. PICK x : x = IF Exists(a) THEN DisconnectedRow(h) ELSE row[a]
  OBVIOUS
<1>5. row' = [row EXCEPT ![a] = x]
  <2>1. CASE Exists(a)
    BY <1>2, <1>4, <2>1 DEF Disconnects, DisconnectedRow, LoadedRow
  <2>2. CASE ~Exists(a)
    BY <1>2, <1>4, <2>2, Types DEF Disconnects
  <2> QED BY <2>1, <2>2
<1>6. /\ x \in Rows /\ (x.status = "none" => x = NoRow)
      /\ \A f \in Fields : /\ x.env[f] \in {Null, row[a].env[f]}
                           /\ x.key[f] \in {Null, row[a].key[f]}
  <2>1. CASE Exists(a)
    BY <1>1, <1>2, <1>4, <2>1, DisconnectedFields
  <2>2. CASE ~Exists(a)
    BY <1>4, <2>2, Types
  <2> QED BY <2>1, <2>2
<1>7. Named(x)
  BY <1>6 DEF Named, RowsInv, NoKeyIdMisleads
<1>8. /\ handler' \in [Handlers -> HandlerStates]
      /\ \A g \in Handlers : handler'[g] = handler[g] \/ handler'[g].op = "idle"
  BY <1>3, HandlerEnds
<1>9. \A f \in Fields : x.key[f] \in {Null, Active(config), row[a].key[f]}
  BY <1>6
<1> QED BY <1>3, <1>5, <1>6, <1>7, <1>8, <1>9, OneRowMoves

\* What Google answers a refresh with.
LEMMA RefreshedFields ==
  ASSUME RowsInv, NEW a \in Accounts, Refreshed(a)
  PROVE  \E x \in Rows :
           /\ row' = [row EXCEPT ![a] = x] /\ x.status \in {"active", "revoked"}
           /\ \/ /\ x.status = "active"
                 /\ \A f \in Fields :
                      \/ x.env[f] = row[a].env[f] /\ x.key[f] = row[a].key[f]
                      \/ /\ x.env[f] \in Envelopes /\ x.env[f].key = Active(config)
                         /\ x.key[f] = Active(config)
              \/ /\ x.status = "revoked" /\ x.key = row[a].key
                 /\ \A f \in Fields : x.env[f] = row[a].env[f] \/ (f = "access" /\ x.env[f] = Null)
<1>1. row[a] \in Rows /\ row[a].status = "active" /\ config \in 1..3
  BY Types DEF RowsInv, LocksHold, Refreshed
<1>2. CASE row' = row
  <2>1. row' = [row EXCEPT ![a] = row[a]]
    BY <1>2, Types
  <2> QED BY <1>1, <2>1
<1>3. CASE row' = [row EXCEPT ![a].status = "revoked", ![a].env["access"] = Null]
  <2> DEFINE e == [row[a].env EXCEPT !["access"] = Null]
             y == [row[a] EXCEPT !.status = "revoked"]
  <2>1. PICK x : x = [y EXCEPT !.env = e]
    OBVIOUS
  <2>2. row' = [row EXCEPT ![a] = x]
    <3>1. PICK r : r = [row EXCEPT ![a].status = "revoked"]
      OBVIOUS
    <3>2. r = [row EXCEPT ![a] = y] /\ r[a] = y /\ row' = [r EXCEPT ![a].env["access"] = Null]
      BY <1>3, <3>1, Types
    <3>3. y.env = row[a].env
      BY <1>1 DEF Rows
    <3>4. row' = [r EXCEPT ![a] = x]
      BY <2>1, <3>2, <3>3
    <3> QED BY <3>2, <3>4, Types
  <2>3. /\ e \in [Fields -> Envelopes \cup {Null}]
        /\ \A f \in Fields : e[f] = row[a].env[f] \/ (f = "access" /\ e[f] = Null)
    BY <1>1, RowFacts DEF Rows
  <2> HIDE DEF e
  <2>4. y \in Rows /\ y.status = "revoked" /\ y.key = row[a].key
    BY <1>1 DEF Rows
  <2> HIDE DEF y
  <2>5. x \in Rows /\ x.status = "revoked" /\ x.key = row[a].key /\ x.env = e
    BY <2>1, <2>3, <2>4 DEF Rows
  <2> QED BY <2>2, <2>3, <2>5
<1>4. CASE \E new \in IssuedTokens : row' = [row EXCEPT ![a] = Encrypts(config, row[a], new)]
  <2>1. PICK new \in IssuedTokens : row' = [row EXCEPT ![a] = Encrypts(config, row[a], new)]
    BY <1>4
  <2>2. PICK x : x = Encrypts(config, row[a], new)
    OBVIOUS
  <2>3. PICK D \in SUBSET Fields : new \in [D -> Tokens]
    BY IssuedFacts
  <2>4. Encrypting(x, config, row[a], D, new)
    BY <1>1, <2>2, <2>3, EncryptsFields
  <2>5. \A f \in D : /\ Encrypted(config, new[f]) \in Envelopes
                     /\ Encrypted(config, new[f]).key = Active(config)
    BY <1>1, <2>3, KeyFacts DEF Encrypted
  <2>6. x \in Rows /\ x.status = "active"
    BY <1>1, <2>4 DEF Encrypting
  <2>7. \A f \in Fields :
          \/ x.env[f] = row[a].env[f] /\ x.key[f] = row[a].key[f]
          \/ /\ x.env[f] \in Envelopes /\ x.env[f].key = Active(config)
             /\ x.key[f] = Active(config)
    BY <2>4, <2>5 DEF Encrypting
  <2> QED BY <2>1, <2>2, <2>6, <2>7
<1> QED BY <1>2, <1>3, <1>4 DEF Refreshed, IssuedTokens

LEMMA RefreshedKeeps ==
  ASSUME RowsInv, NEW a \in Accounts, Refreshed(a)
  PROVE  RowsInv'
<1>1. PICK x \in Rows :
        /\ row' = [row EXCEPT ![a] = x] /\ x.status \in {"active", "revoked"}
        /\ \/ /\ x.status = "active"
              /\ \A f \in Fields :
                   \/ x.env[f] = row[a].env[f] /\ x.key[f] = row[a].key[f]
                   \/ /\ x.env[f] \in Envelopes /\ x.env[f].key = Active(config)
                      /\ x.key[f] = Active(config)
           \/ /\ x.status = "revoked" /\ x.key = row[a].key
              /\ \A f \in Fields : x.env[f] = row[a].env[f] \/ (f = "access" /\ x.env[f] = Null)
  BY RefreshedFields
<1>2. /\ a \notin rotation.batch /\ a \notin refreshing' /\ refreshing' \subseteq refreshing
      /\ UNCHANGED <<config, handler, rotation, verified>>
  BY DEF Refreshed, RowsInv, LocksHold
<1>3. Named(x)
  BY <1>1 DEF Named, RowsInv, NoKeyIdMisleads
<1>4. \A f \in Fields : x.key[f] \in {Null, Active(config), row[a].key[f]}
  BY <1>1
<1>5. handler' \in [Handlers -> HandlerStates]
  BY <1>2, Types
<1> QED BY <1>1, <1>2, <1>3, <1>4, <1>5, OneRowMoves

LEMMA ErasesKeeps ==
  ASSUME RowsInv, NEW a \in Accounts, Erases(a)
  PROVE  RowsInv'
<1>1. Named(NoRow) /\ \A f \in Fields : NoRow.key[f] = Null
  BY RowFacts DEF Named
<1>2. /\ row' = [row EXCEPT ![a] = NoRow] /\ a \notin rotation.batch /\ a \notin refreshing
      /\ UNCHANGED <<config, handler, refreshing, rotation, verified>>
  BY DEF Erases, Locked, HeldByRotation
<1>3. handler' \in [Handlers -> HandlerStates]
  BY <1>2, Types
<1> QED BY <1>1, <1>2, <1>3, RowFacts, OneRowMoves
\* The rows and the handlers stand; the locks are what they should be.
LEMMA RowsStand ==
  ASSUME RowsInv, UNCHANGED <<config, row>>,
         verified' \in BOOLEAN, handler' \in [Handlers -> HandlerStates],
         \A h \in Handlers :
           \/ handler'[h] = handler[h]
           \/ \E a \in Accounts : /\ handler'[h].of = a /\ handler'[h].loaded = row[a]
                                  /\ handler'[h].op = "disconnect" => Exists(a),
         refreshing' \subseteq Accounts,
         \A a \in refreshing' : row[a].status = "active" /\ row[a].env["refresh"] # Null,
         rotation'.step \in {"off", "picking", "locked"}, rotation'.ring \in 1..config,
         rotation'.batch \subseteq Accounts, Cardinality(rotation'.batch) <= BatchSize,
         rotation'.loaded \in [rotation'.batch -> Rows],
         rotation'.step = "locked" <=> rotation'.batch # {},
         rotation' = [step |-> rotation'.step, ring |-> rotation'.ring, batch |-> rotation'.batch,
                      loaded |-> rotation'.loaded],
         rotation'.batch \cap refreshing' = {},
         \A a \in rotation'.batch : rotation'.loaded[a] = row[a]
  PROVE  RowsInv'
<1>1. CredentialsTypeOK'
  <2>1. rotation'.ring \in 1..3
    BY Types
  <2> QED BY <2>1, Types DEF CredentialsTypeOK, HandlerStates, Exists
<1>2. LocksHold'
  BY Types DEF LocksHold
<1>3. NoKeyIdMisleads'
  BY DEF RowsInv, NoKeyIdMisleads, Named
<1>4. HandlersAreSound'
  <2> SUFFICES ASSUME NEW h \in Handlers, handler'[h].op # "idle"
               PROVE  LET b == handler'[h].of
                      IN /\ b \in Accounts
                         /\ handler'[h].op = "disconnect" => handler'[h].loaded # NoRow
                         /\ handler'[h].loaded.status = "none" => handler'[h].loaded = NoRow
                         /\ row[b].status # "none" =>
                              \A f \in Fields : handler'[h].loaded.key[f] = Active(config)
                                => row[b].key[f] \in {Null, Active(config)}
    BY DEF HandlersAreSound, Busy, LoadedRow, Exists
  <2>1. CASE handler'[h] = handler[h]
    BY <2>1 DEF RowsInv, HandlersAreSound, Busy, LoadedRow, Exists
  <2>2. CASE \E a \in Accounts : /\ handler'[h].of = a /\ handler'[h].loaded = row[a]
                                 /\ handler'[h].op = "disconnect" => Exists(a)
    BY <2>2, Types, RowFacts DEF Exists
  <2> QED BY <2>1, <2>2
<1> QED BY <1>1, <1>2, <1>3, <1>4 DEF RowsInv

LEMMA ReadsKeeps ==
  ASSUME RowsInv, NEW h \in Handlers, NEW a \in Accounts, Begins(h, a)
  PROVE  RowsInv'
<1>1. PICK op \in {"store", "disconnect"} :
        /\ handler' = [handler EXCEPT ![h] = [op |-> op, of |-> a, loaded |-> row[a]]]
        /\ op = "disconnect" => Exists(a)
        /\ UNCHANGED <<config, row, refreshing, rotation, verified>>
  BY DEF Begins, Reads
<1>2. PICK s \in HandlerStates : s = [op |-> op, of |-> a, loaded |-> row[a]]
  BY Types DEF HandlerStates
<1>3. s.op = op /\ s.of = a /\ s.loaded = row[a]
  BY <1>2
<1>4. handler' = [handler EXCEPT ![h] = s]
  BY <1>1, <1>2
<1>5. /\ handler' \in [Handlers -> HandlerStates] /\ handler'[h] = s
      /\ \A g \in Handlers : g # h => handler'[g] = handler[g]
  BY <1>4, Types
<1>6. \A g \in Handlers :
        \/ handler'[g] = handler[g]
        \/ \E b \in Accounts : /\ handler'[g].of = b /\ handler'[g].loaded = row[b]
                               /\ handler'[g].op = "disconnect" => Exists(b)
  BY <1>1, <1>3, <1>5
<1>7. rotation.ring \in 1..config
  BY Types DEF RowsInv, LocksHold
<1> QED BY <1>1, <1>5, <1>6, <1>7, Types, RowsStand DEF RowsInv, LocksHold

LEMMA RefreshesKeeps ==
  ASSUME RowsInv, NEW a \in Accounts, Refreshes(a)
  PROVE  RowsInv'
<1>1. /\ a \notin rotation.batch /\ row[a].status = "active" /\ row[a].env["refresh"] # Null
      /\ refreshing' = refreshing \cup {a}
      /\ UNCHANGED <<config, row, handler, rotation, verified>>
  BY DEF Refreshes, Locked, HeldByRotation
<1>2. rotation.ring \in 1..config
  BY Types DEF RowsInv, LocksHold
<1> QED BY <1>1, <1>2, Types, RowsStand DEF RowsInv, LocksHold

LEMMA VerifiesKeeps ==
  ASSUME RowsInv, Verifies
  PROVE  RowsInv'
<1>1. verified' \in BOOLEAN /\ UNCHANGED <<config, row, handler, refreshing, rotation>>
  BY DEF Verifies
<1>2. rotation.ring \in 1..config
  BY Types DEF RowsInv, LocksHold
<1> QED BY <1>1, <1>2, Types, RowsStand DEF RowsInv, LocksHold

\* The script selects, commits or stops.
LEMMA NewRotation ==
  ASSUME RowsInv, UNCHANGED <<config, row, handler, refreshing, verified>>,
         \/ rotation' = Off
         \/ rotation' = [Off EXCEPT !.step = "picking", !.ring = config]
  PROVE  RowsInv'
<1>1. config \in 1..3
  BY Types
<1>2. /\ rotation'.step \in {"off", "picking"} /\ rotation'.ring \in 1..config
      /\ rotation'.batch = {} /\ rotation'.loaded \in [rotation'.batch -> Rows]
      /\ rotation' = [step |-> rotation'.step, ring |-> rotation'.ring, batch |-> rotation'.batch,
                      loaded |-> rotation'.loaded]
  <2>1. CASE rotation' = Off
    BY <1>1, <2>1, OffIsTyped
  <2>2. CASE rotation' = [Off EXCEPT !.step = "picking", !.ring = config]
    <3>1. PICK c \in 1..3 : c = config
      BY <1>1
    <3>2. PICK p : p = [Off EXCEPT !.step = "picking", !.ring = c]
      OBVIOUS
    <3>3. /\ p.step = "picking" /\ p.ring = c /\ p.batch = {} /\ p.loaded \in [p.batch -> Rows]
          /\ p = [step |-> p.step, ring |-> p.ring, batch |-> p.batch, loaded |-> p.loaded]
      BY <3>2, OffIsTyped
    <3>4. rotation' = p
      BY <2>2, <3>1, <3>2
    <3> QED BY <1>1, <3>1, <3>3, <3>4
  <2> QED BY <2>1, <2>2
<1>3. Cardinality(rotation'.batch) <= BatchSize
  BY <1>2, OffIsTyped
<1> QED BY <1>2, <1>3, Types, RowsStand DEF RowsInv, LocksHold

\* A finite set of numbers has a greatest one: the fewest are above it.
LEMMA FiniteLast ==
  ASSUME NEW S \in SUBSET Int, IsFiniteSet(S), S # {}
  PROVE  \E x \in S : \A y \in S : x >= y
<1> DEFINE Above(v) == {w \in S : w > v}
           T == {Above(v) : v \in S}
<1>1. T \subseteq FiniteSubsetsOf(S) /\ T # {}
  <2>1. \A v \in S : Above(v) \in SUBSET S
    OBVIOUS
  <2>2. PICK v \in S : TRUE
    OBVIOUS
  <2>3. Above(v) \in T
    OBVIOUS
  <2>4. T \subseteq SUBSET S
    BY <2>1
  <2>5. FiniteSubsetsOf(S) = SUBSET S
    BY FS_FiniteSubsetsOfFinite
  <2> HIDE DEF T
  <2> QED BY <2>3, <2>4, <2>5
<1>2. PICK x \in T : \A y \in T : ~ (<<y, x>> \in StrictSubsetOrdering(S))
  BY <1>1, FS_StrictSubsetOrderingWellFounded, WFMin
<1>3. PICK v \in S : x = Above(v)
  OBVIOUS
<1>4. ASSUME NEW w \in S, w > v PROVE FALSE
  <2>1. /\ \A u \in Above(w) : u \in Above(v)
        /\ w \in Above(v) /\ w \notin Above(w)
    <3>1. w \in Int /\ v \in Int /\ \A u \in S : u \in Int
      OBVIOUS
    <3> QED BY <1>4, <3>1
  <2>2. <<Above(w), x>> \in StrictSubsetOrdering(S)
    BY <1>3, <2>1 DEF StrictSubsetOrdering
  <2> QED BY <1>2, <2>2
<1>5. \A w \in S : v >= w
  BY <1>4
<1> QED BY <1>5

\* The elements with fewer than n below them are at most n.
LEMMA FirstFew ==
  ASSUME NEW S \in SUBSET Int, IsFiniteSet(S), NEW n \in Nat,
         NEW F, F = {a \in S : Cardinality({b \in S : b < a}) < n}
  PROVE  IsFiniteSet(F) /\ Cardinality(F) <= n
<1>1. IsFiniteSet(F) /\ F \in SUBSET Int
  BY FS_Subset
<1>2. CASE F = {}
  <2>1. Cardinality(F) = 0
    BY <1>2, FS_EmptySet
  <2> QED BY <1>1, <2>1
<1>3. CASE F # {}
  <2>1. PICK a \in F : \A b \in F : a >= b
    BY <1>1, <1>3, FiniteLast
  <2> DEFINE Below == {b \in S : b < a}
  <2>2. IsFiniteSet(Below) /\ Cardinality(Below) < n /\ Cardinality(Below) \in Nat
    BY FS_Subset, FS_CardinalityType
  <2>3. F \ {a} \in SUBSET Below
    <3> SUFFICES ASSUME NEW b \in F, b # a PROVE b \in S /\ b < a
      OBVIOUS
    <3>1. b \in S /\ b \in Int /\ a \in Int /\ a >= b
      BY <1>1, <2>1
    <3> QED BY <3>1
  <2>4. Cardinality(F \ {a}) <= Cardinality(Below)
    BY <2>2, <2>3, FS_Subset
  <2>5. Cardinality(F \ {a}) = Cardinality(F) - 1 /\ Cardinality(F) \in Nat
    BY <1>1, FS_RemoveElement, FS_CardinalityType
  <2> HIDE DEF Below
  <2> QED BY <1>1, <2>2, <2>4, <2>5
<1> QED BY <1>2, <1>3

LEMMA SelectsKeeps ==
  ASSUME RowsInv, SelectsBatch
  PROVE  RowsInv'
<1> DEFINE free == {a \in Candidates(rotation.ring) : ~Locked(a)}
           y == [rotation EXCEPT !.step = "locked"]
<1>1. PICK batch : batch = FirstOf(free)
  OBVIOUS
<1>2. /\ batch # {} /\ UNCHANGED <<config, row, handler, refreshing, verified>>
      /\ rotation' = [rotation EXCEPT !.step = "locked", !.batch = batch,
                                      !.loaded = [a \in batch |-> row[a]]]
  BY <1>1 DEF SelectsBatch
<1>3. free \subseteq Accounts /\ free \cap refreshing = {}
  BY DEF Candidates, Locked
<1>4. batch \subseteq free /\ Cardinality(batch) <= BatchSize
  <2>1. PICK S : S = free
    OBVIOUS
  <2>2. IsFiniteSet(S) /\ S \subseteq Nat
    BY <1>3, <2>1, AccountsAreOrdered, FS_Subset
  <2>3. batch = {a \in S : Cardinality({b \in S : b < a}) < BatchSize}
    BY <1>1, <2>1 DEF FirstOf
  <2> HIDE DEF free
  <2> QED BY <2>1, <2>2, <2>3, BatchesHoldRows, FirstFew
<1> HIDE DEF free
<1>5. PICK L : L = [a \in batch |-> row[a]]
  OBVIOUS
<1>6. L \in [batch -> Rows] /\ \A a \in batch : L[a] = row[a]
  BY <1>3, <1>4, <1>5, Types
<1>7. PICK ring \in 1..config : ring = rotation.ring
  BY Types DEF RowsInv, LocksHold
<1>8. rotation' = [step |-> "locked", ring |-> ring, batch |-> batch, loaded |-> L]
  BY <1>2, <1>5, <1>7 DEF RowsInv, LocksHold
<1>9. /\ rotation'.step = "locked" /\ rotation'.ring = ring /\ rotation'.batch = batch
      /\ rotation'.loaded = L
  BY <1>8
<1> QED BY <1>2, <1>3, <1>4, <1>6, <1>8, <1>9, Types, RowsStand DEF RowsInv, LocksHold

LEMMA DeploysKeeps ==
  ASSUME RowsInv, Deploys
  PROVE  RowsInv'
<1>1. /\ config' = config + 1 /\ config \in 1..2 /\ refreshing' = {}
      /\ handler' = [h \in Handlers |-> Idle] /\ UNCHANGED <<row, rotation, verified>>
  BY Types DEF Deploys
<1>2. CredentialsTypeOK'
  <2>1. handler' \in [Handlers -> HandlerStates] /\ config' \in 1..3
    BY <1>1, IdleIsTyped
  <2> QED BY <1>1, <2>1, Types DEF CredentialsTypeOK, HandlerStates, Exists
<1>3. LocksHold'
  BY <1>1, Types DEF RowsInv, LocksHold
<1>4. NoKeyIdMisleads'
  BY <1>1 DEF RowsInv, NoKeyIdMisleads, Named
<1>5. HandlersAreSound'
  BY <1>1, IdleIsTyped DEF HandlersAreSound, Busy
<1> QED BY <1>2, <1>3, <1>4, <1>5 DEF RowsInv
\* What a batch writes: the migrated fields, with the tokens they have now.
MovesField(a, f) ==
  \/ row'[a].env[f] = row[a].env[f] /\ row'[a].key[f] = row[a].key[f]
  \/ /\ config > 1 /\ row[a].key[f] = "old" /\ row[a].env[f] # Null
     /\ row'[a].env[f] = [key |-> "new", token |-> row[a].env[f].token]
     /\ row'[a].env[f] \in Envelopes /\ row'[a].key[f] = "new"

LEMMA BatchWrites ==
  ASSUME RowsInv, CommitsBatch, NEW a \in Accounts
  PROVE  /\ row'[a] \in Rows /\ row'[a].status = row[a].status
         /\ ~Exists(a) => row'[a] = NoRow
         /\ \A f \in Fields : MovesField(a, f)
<1>1. row[a] \in Rows /\ (~Exists(a) => row[a] = NoRow)
  BY Types
<1>2. CASE a \notin rotation.batch \/ ~Exists(a)
  <2>1. row'[a] = row[a]
    BY <1>2 DEF CommitsBatch
  <2> QED BY <1>1, <2>1 DEF MovesField
<1>3. CASE a \in rotation.batch /\ Exists(a)
  <2>1. PICK r \in Rows : r = row[a] /\ r = rotation.loaded[a]
    BY <1>1, <1>3 DEF RowsInv, LocksHold
  <2>2. PICK ring \in 1..3 : ring = rotation.ring /\ ring <= config
    BY Types DEF RowsInv, LocksHold
  <2>3. PICK m : m = Migrated(ring, r)
    OBVIOUS
  <2>4. PICK issued : issued = MovedFields(a)
    OBVIOUS
  <2>5. PICK x : x = Written(a, r, m, issued)
    OBVIOUS
  <2>6. row'[a] = x
    BY <1>3, <2>1, <2>2, <2>3, <2>4, <2>5 DEF CommitsBatch
  <2>7. /\ m \in Rows /\ m.status = r.status
        /\ \A f \in Fields :
             \/ m.env[f] = r.env[f] /\ m.key[f] = r.key[f]
             \/ /\ r.env[f] # Null /\ r.key[f] \notin {Null, Active(ring)}
                /\ r.env[f].key \in Readable(ring)
                /\ m.env[f] = Encrypted(ring, r.env[f].token) /\ m.key[f] = Active(ring)
    BY <2>3, MigratedFields
  <2>8. x \in Rows
    BY <1>1, <2>5, <2>7, WrittenIsTyped
  <2>9. /\ x.status = IF m.status = r.status THEN row[a].status ELSE m.status
        /\ \A f \in Fields :
             /\ x.env[f] = IF f \in issued THEN m.env[f]
                           ELSE IF m.env[f] = r.env[f] THEN row[a].env[f] ELSE m.env[f]
             /\ x.key[f] = IF m.key[f] = r.key[f] THEN row[a].key[f] ELSE m.key[f]
    BY <2>5, WrittenFields
  <2>10. x.status = r.status /\ \A f \in Fields : x.env[f] = m.env[f] /\ x.key[f] = m.key[f]
    BY <2>1, <2>7, <2>9
  <2>11. Named(r)
    BY <2>1 DEF RowsInv, NoKeyIdMisleads
  <2>12. ASSUME NEW f \in Fields
         PROVE  \/ x.env[f] = r.env[f] /\ x.key[f] = r.key[f]
                \/ /\ config > 1 /\ r.key[f] = "old" /\ r.env[f] # Null
                   /\ x.env[f] = [key |-> "new", token |-> r.env[f].token]
                   /\ x.env[f] \in Envelopes /\ x.key[f] = "new"
    <3>1. CASE m.env[f] = r.env[f] /\ m.key[f] = r.key[f]
      BY <2>10, <3>1
    <3>2. CASE /\ r.env[f] # Null /\ r.key[f] \notin {Null, Active(ring)}
               /\ r.env[f].key \in Readable(ring)
               /\ m.env[f] = Encrypted(ring, r.env[f].token) /\ m.key[f] = Active(ring)
      <4>1. ring = 2 /\ r.key[f] = "old" /\ Active(ring) = "new"
        BY <2>11, <3>2, MovedIsNew
      <4>2. config > 1
        BY <2>2, <4>1, Types
      <4>3. x.env[f] = [key |-> "new", token |-> r.env[f].token] /\ x.key[f] = "new"
        BY <2>10, <3>2, <4>1 DEF Encrypted
      <4>4. x.env[f] \in Envelopes
        BY <3>2, <4>3, RowFacts DEF Envelopes, Keys
      <4> QED BY <3>2, <4>1, <4>2, <4>3, <4>4
    <3> QED BY <2>7, <3>1, <3>2
  <2>13. ASSUME NEW f \in Fields
         PROVE  \/ row'[a].env[f] = row[a].env[f] /\ row'[a].key[f] = row[a].key[f]
                \/ /\ config > 1 /\ row[a].key[f] = "old" /\ row[a].env[f] # Null
                   /\ row'[a].env[f] = [key |-> "new", token |-> row[a].env[f].token]
                   /\ row'[a].env[f] \in Envelopes /\ row'[a].key[f] = "new"
    BY <2>1, <2>2, <2>6, <2>12
  <2>14. \A f \in Fields : MovesField(a, f)
    BY <2>13 DEF MovesField
  <2> QED BY <1>3, <2>1, <2>6, <2>8, <2>10, <2>14
<1> QED BY <1>2, <1>3

LEMMA CommitsKeeps ==
  ASSUME RowsInv, CommitsBatch
  PROVE  RowsInv'
<1>1. /\ UNCHANGED <<config, handler, refreshing, verified>>
      /\ rotation' = [Off EXCEPT !.step = "picking", !.ring = rotation.ring]
      /\ row' = [a \in Accounts |-> row'[a]]
  BY DEF CommitsBatch
<1>2. rotation.ring \in 1..3 /\ rotation.ring <= config
  BY Types DEF RowsInv, LocksHold
<1>3. /\ rotation'.step = "picking" /\ rotation'.ring = rotation.ring /\ rotation'.batch = {}
      /\ rotation'.loaded \in [rotation'.batch -> Rows]
      /\ rotation' = [step |-> rotation'.step, ring |-> rotation'.ring, batch |-> rotation'.batch,
                      loaded |-> rotation'.loaded]
  BY <1>1, <1>2, OffIsTyped
<1>4. \A a \in Accounts : row'[a] \in Rows /\ (row'[a].status = "none" => row'[a] = NoRow)
  BY BatchWrites, Types DEF Exists
<1>5. CredentialsTypeOK'
  <2>1. Cardinality(rotation'.batch) <= BatchSize
    BY <1>3, OffIsTyped
  <2>2. row' \in [Accounts -> Rows]
    BY <1>1, <1>4
  <2> QED BY <1>1, <1>2, <1>3, <1>4, <2>1, <2>2, Types DEF CredentialsTypeOK, HandlerStates, Exists
<1>6. LocksHold'
  <2>1. \A a \in refreshing : row'[a].status = "active" /\ row'[a].env["refresh"] # Null
    <3> SUFFICES ASSUME NEW a \in refreshing
                 PROVE  row'[a].status = "active" /\ row'[a].env["refresh"] # Null
      OBVIOUS
    <3>1. a \in Accounts /\ a \notin rotation.batch
          /\ row[a].status = "active" /\ row[a].env["refresh"] # Null
      BY Types DEF RowsInv, LocksHold
    <3> QED BY <3>1 DEF CommitsBatch
  <2> QED BY <1>1, <1>2, <1>3, <2>1 DEF LocksHold
<1>7. NoKeyIdMisleads'
  <2> SUFFICES ASSUME NEW a \in Accounts, NEW f \in Fields, row'[a].env[f] # Null
               PROVE  row'[a].key[f] \in {Null, row'[a].env[f].key}
    BY DEF NoKeyIdMisleads, Named
  <2>1. MovesField(a, f)
    BY BatchWrites
  <2>2. row[a].env[f] # Null => row[a].key[f] \in {Null, row[a].env[f].key}
    BY DEF RowsInv, NoKeyIdMisleads, Named
  <2> QED BY <2>1, <2>2 DEF MovesField
<1>8. HandlersAreSound'
  <2> SUFFICES ASSUME NEW h \in Handlers, handler[h].op # "idle"
               PROVE  LET b == handler[h].of
                      IN /\ b \in Accounts
                         /\ handler[h].op = "disconnect" => handler[h].loaded # NoRow
                         /\ handler[h].loaded.status = "none" => handler[h].loaded = NoRow
                         /\ row'[b].status # "none" =>
                              \A f \in Fields : handler[h].loaded.key[f] = Active(config)
                                => row'[b].key[f] \in {Null, Active(config)}
    BY <1>1 DEF HandlersAreSound, Busy, LoadedRow, Exists
  <2>1. PICK b \in Accounts : b = handler[h].of
    BY DEF RowsInv, HandlersAreSound, Busy
  <2>2. /\ handler[h].op = "disconnect" => handler[h].loaded # NoRow
        /\ handler[h].loaded.status = "none" => handler[h].loaded = NoRow
        /\ row[b].status # "none" =>
             \A f \in Fields : handler[h].loaded.key[f] = Active(config)
               => row[b].key[f] \in {Null, Active(config)}
    BY <2>1 DEF RowsInv, HandlersAreSound, Busy, LoadedRow, Exists
  <2>3. config > 1 => Active(config) = "new"
    BY Types, KeyFacts
  <2>4. /\ row'[b].status = row[b].status
        /\ \A f \in Fields : \/ row'[b].key[f] = row[b].key[f]
                             \/ row'[b].key[f] = "new" /\ config > 1
    <3>1. row'[b].status = row[b].status /\ \A f \in Fields : MovesField(b, f)
      BY BatchWrites
    <3>2. ASSUME NEW f \in Fields
          PROVE  \/ row'[b].key[f] = row[b].key[f]
                 \/ row'[b].key[f] = "new" /\ config > 1
      BY <3>1 DEF MovesField
    <3> QED BY <3>1, <3>2
  <2> QED BY <2>1, <2>2, <2>3, <2>4
<1> QED BY <1>5, <1>6, <1>7, <1>8 DEF RowsInv

LEMMA RowsStep == RowsInv /\ [Next]_vars => RowsInv'
<1> SUFFICES ASSUME RowsInv, [Next]_vars PROVE RowsInv'
  OBVIOUS
<1>1. CASE UNCHANGED vars
  BY <1>1 DEF vars, RowsInv, CredentialsTypeOK, LocksHold, NoKeyIdMisleads, Named,
              HandlersAreSound, Busy, LoadedRow, Exists
<1>2. CASE \E h \in Handlers : \E a \in Accounts : Begins(h, a)
  BY <1>2, ReadsKeeps
<1>3. CASE \E h \in Handlers : Stores(h) \/ Disconnects(h)
  BY <1>3, StoresKeeps, DisconnectsKeeps
<1>4. CASE \E a \in Accounts : Refreshes(a) \/ Refreshed(a) \/ Erases(a)
  BY <1>4, RefreshesKeeps, RefreshedKeeps, ErasesKeeps
<1>5. CASE Rotates
  <2>1. config \in 1..3 /\ rotation.ring \in 1..config
    BY Types DEF RowsInv, LocksHold
  <2>2. CASE BeginsRotation \/ EndsRotation \/ Interrupted
    <3>1. /\ UNCHANGED <<config, row, handler, refreshing, verified>>
          /\ \/ rotation' = Off
             \/ rotation' = [Off EXCEPT !.step = "picking", !.ring = config]
      BY <2>2 DEF BeginsRotation, EndsRotation, Interrupted
    <3> QED BY <3>1, NewRotation
  <2> QED BY <1>5, <2>2, SelectsKeeps, CommitsKeeps DEF Rotates
<1>6. CASE Verifies \/ Deploys
  BY <1>6, VerifiesKeeps, DeploysKeeps
<1> QED BY <1>1, <1>2, <1>3, <1>4, <1>5, <1>6 DEF Next

LEMMA RowsAreSound == Spec => []RowsInv
<1>1. Init => RowsInv
  BY InitSerial DEF SerialInv
<1> QED BY <1>1, RowsStep, PTL DEF Spec

\* A key id that is there is the one the envelope beside it is encrypted
\* under, whoever writes meanwhile (accounts.py:54, _encrypt_field): no row
\* on the old key is passed over because its column says it is on the new.
THEOREM KeyIdsNeverMislead == Spec => []NoKeyIdMisleads
<1>1. RowsInv => NoKeyIdMisleads
  BY DEF RowsInv
<1> QED BY <1>1, RowsAreSound, PTL

\* Whatever else writes the rows meanwhile, a batch brings back no token that
\* was replaced (credential_rotation.py:10, FOR UPDATE SKIP LOCKED).
THEOREM RotationsKeepTokens == Spec => RotationKeepsTokens
<1>1. ASSUME RowsInv, CommitsBatch, NEW a \in Accounts, NEW f \in Fields
      PROVE  Plaintext(row[a], f)' = Plaintext(row[a], f)
  <2>1. MovesField(a, f)
    BY <1>1, BatchWrites
  <2>2. /\ row'[a].env[f] = Null <=> row[a].env[f] = Null
        /\ row[a].env[f] # Null => row'[a].env[f].token = row[a].env[f].token
    BY <1>1, <2>1, KeyFacts DEF MovesField
  <2> QED BY <2>2 DEF Plaintext
<1>2. RowsInv /\ [Next]_vars
        => [CommitsBatch => \A a \in Accounts : \A f \in Fields :
                              Plaintext(row[a], f)' = Plaintext(row[a], f)]_vars
  BY <1>1
<1> QED BY <1>2, RowsAreSound, PTL DEF Spec, RotationKeepsTokens
-----------------------------------------------------------------------------
(* With one handler.                                                       *)

LEMMA SerialTypes ==
  ASSUME SerialInv
  PROVE  /\ config \in 1..3 /\ row \in [Accounts -> Rows]
         /\ \A a \in Accounts : row[a] \in Rows /\ (~Exists(a) => row[a] = NoRow)
         /\ verified \in BOOLEAN
BY Types DEF SerialInv

\* One row is written: what a handler that goes on has found empty, or on the
\* active key, stays so.
LEMMA SerialMoves ==
  ASSUME SerialInv, RowsInv', NEW a \in Accounts, NEW x \in Rows,
         row' = [row EXCEPT ![a] = x], UNCHANGED <<config, verified>>,
         \A f \in Fields : x.env[f] # Null => x.key[f] = x.env[f].key,
         \A f \in Fields : x.key[f] \in {Null, Active(config), row[a].key[f]},
         x.status = "active" => x.env["access"] # Null,
         \/ \A h \in Handlers : handler'[h].op = "idle"
         \/ /\ handler' = handler
            /\ x.status # "none" =>
                 /\ Exists(a) /\ (x.status = "active" => row[a].status = "active")
                 /\ \A f \in Fields : /\ row[a].key[f] = Active(config) => x.key[f] = Active(config)
                                      /\ row[a].env[f] = Null => x.env[f] = Null
  PROVE  SerialInv'
<1>1. row'[a] = x /\ \A b \in Accounts : b # a => row'[b] = row[b]
  BY SerialTypes
<1>2. KeyIdsNameTheKey'
  <2>1. \A b \in Accounts : \A f \in Fields : row'[b].env[f] # Null => row'[b].key[f] = row'[b].env[f].key
    BY <1>1 DEF SerialInv, KeyIdsNameTheKey
  <2> QED BY <2>1 DEF KeyIdsNameTheKey
<1>3. ActiveRowsHaveAccess'
  <2>1. \A b \in Accounts : row'[b].status = "active" => row'[b].env["access"] # Null
    BY <1>1 DEF SerialInv, ActiveRowsHaveAccess
  <2> QED BY <2>1 DEF ActiveRowsHaveAccess
<1>4. RetirementIsVerified'
  <2>1. ASSUME verified, NEW b \in Accounts, NEW f \in Fields
        PROVE  row'[b].key[f] # "old"
    <3>1. row[b].key[f] # "old" /\ config > 1
      BY <2>1 DEF SerialInv, RetirementIsVerified, Unreferenced
    <3>2. Active(config) = "new" /\ Null # "old"
      BY <3>1, SerialTypes, KeyFacts DEF Keys
    <3> QED BY <1>1, <3>1, <3>2
  <2> QED BY <2>1 DEF SerialInv, RetirementIsVerified, Unreferenced
<1>5. LoadedIsCurrent'
  <2> SUFFICES ASSUME NEW h \in Handlers, handler'[h].op # "idle", handler'[h].loaded # NoRow,
                      row'[handler'[h].of].status # "none"
               PROVE  LET r == row'[handler'[h].of]
                      IN /\ r.status = "active" => handler'[h].loaded.status = "active"
                         /\ \A f \in Fields :
                              /\ handler'[h].loaded.key[f] = Active(config) => r.key[f] = Active(config)
                              /\ handler'[h].loaded.env[f] = Null => r.env[f] = Null
    BY DEF LoadedIsCurrent, Busy, LoadedRow, Exists
  <2>1. /\ handler' = handler
        /\ x.status # "none" =>
             /\ Exists(a) /\ (x.status = "active" => row[a].status = "active")
             /\ \A f \in Fields : /\ row[a].key[f] = Active(config) => x.key[f] = Active(config)
                                  /\ row[a].env[f] = Null => x.env[f] = Null
    OBVIOUS
  <2>2. PICK b \in Accounts : b = handler[h].of
    BY <2>1 DEF SerialInv, RowsInv, HandlersAreSound, Busy
  <2>3. row[b].status # "none" =>
          /\ row[b].status = "active" => handler[h].loaded.status = "active"
          /\ \A f \in Fields :
               /\ handler[h].loaded.key[f] = Active(config) => row[b].key[f] = Active(config)
               /\ handler[h].loaded.env[f] = Null => row[b].env[f] = Null
    BY <2>1, <2>2 DEF SerialInv, LoadedIsCurrent, Busy, LoadedRow, Exists
  <2>4. CASE b = a
    BY <1>1, <2>1, <2>2, <2>3, <2>4 DEF Exists
  <2>5. CASE b # a
    BY <1>1, <2>1, <2>2, <2>3, <2>5
  <2> QED BY <2>4, <2>5
<1> QED BY <1>2, <1>3, <1>4, <1>5 DEF SerialInv

\* The only handler ends.
LEMMA HandlerWasAlone ==
  ASSUME OneHandler, RowsInv, NEW h \in Handlers, handler' = [handler EXCEPT ![h] = Idle]
  PROVE  \A g \in Handlers : handler'[g].op = "idle"
BY HandlerEnds DEF OneHandler

LEMMA StoresSerially ==
  ASSUME OneHandler, SerialInv, NEW h \in Handlers, Stores(h)
  PROVE  SerialInv'
<1>1. RowsInv /\ RowsInv'
  BY StoresKeeps DEF SerialInv
<1>2. Busy(h)
  BY DEF Stores, Busy
<1>3. PICK a \in Accounts : a = handler[h].of
  BY <1>1, <1>2 DEF RowsInv, HandlersAreSound
<1>4. /\ handler' = [handler EXCEPT ![h] = Idle] /\ UNCHANGED <<config, verified>>
      /\ \/ row' = row
         \/ /\ Exists(a) <=> LoadedRow(h) # NoRow
            /\ \E new \in IssuedTokens : row' = [row EXCEPT ![a] = StoredRow(h, new)]
  BY <1>3 DEF Stores, StoredRow, LoadedRow, IssuedTokens
<1>5. \A g \in Handlers : handler'[g].op = "idle"
  BY <1>1, <1>4, HandlerWasAlone
<1>6. CASE row' = row
  <2>1. row' = [row EXCEPT ![a] = row[a]] /\ row[a] \in Rows
    BY <1>6, SerialTypes
  <2>2. /\ \A f \in Fields : row[a].env[f] # Null => row[a].key[f] = row[a].env[f].key
        /\ row[a].status = "active" => row[a].env["access"] # Null
    BY DEF SerialInv, KeyIdsNameTheKey, ActiveRowsHaveAccess
  <2> QED BY <1>1, <1>4, <1>5, <2>1, <2>2, SerialMoves
<1>7. CASE /\ Exists(a) <=> LoadedRow(h) # NoRow
           /\ \E new \in IssuedTokens : row' = [row EXCEPT ![a] = StoredRow(h, new)]
  <2>1. PICK new \in IssuedTokens : row' = [row EXCEPT ![a] = StoredRow(h, new)]
    BY <1>7
  <2>2. PICK x : x = StoredRow(h, new)
    OBVIOUS
  <2>3. /\ x \in Rows
        /\ \A f \in Fields :
             /\ f \in DOMAIN new => /\ x.env[f] \in Envelopes
                                    /\ x.env[f].key = Active(config)
                                    /\ x.key[f] = IF LoadedRow(h).key[f] = Active(config)
                                                    THEN row[a].key[f] ELSE Active(config)
             /\ f \notin DOMAIN new => x.env[f] = row[a].env[f] /\ x.key[f] = row[a].key[f]
    BY <1>1, <1>2, <1>3, <1>7, <2>2, StoredFields
  <2>4. ASSUME NEW f \in Fields, LoadedRow(h).key[f] = Active(config)
        PROVE  row[a].key[f] = Active(config)
    <3>1. LoadedRow(h) # NoRow
      BY <2>4, SerialTypes, KeyFacts, RowFacts
    <3>2. Exists(a)
      BY <1>7, <3>1
    <3> QED BY <1>2, <1>3, <2>4, <3>1, <3>2 DEF SerialInv, LoadedIsCurrent
  <2>5. \A f \in Fields : f \in DOMAIN new => x.env[f].key = Active(config) /\ x.key[f] = Active(config)
    BY <2>3, <2>4
  <2>6. \A f \in Fields : x.env[f] # Null => x.key[f] = x.env[f].key
    BY <2>3, <2>5 DEF SerialInv, KeyIdsNameTheKey
  <2>7. \A f \in Fields : x.key[f] \in {Null, Active(config), row[a].key[f]}
    BY <2>3, <2>5
  <2>8. x.env["access"] # Null
    BY <2>3, IssuedFacts, RowFacts, KeyFacts
  <2>9. row' = [row EXCEPT ![a] = x] /\ x \in Rows
    BY <2>1, <2>2, <2>3
  <2> QED BY <1>1, <1>4, <1>5, <2>6, <2>7, <2>8, <2>9, SerialMoves
<1> QED BY <1>4, <1>6, <1>7

LEMMA DisconnectsSerially ==
  ASSUME OneHandler, SerialInv, NEW h \in Handlers, Disconnects(h)
  PROVE  SerialInv'
<1>1. RowsInv /\ RowsInv'
  BY DisconnectsKeeps DEF SerialInv
<1>2. Busy(h) /\ LoadedRow(h) # NoRow
  BY <1>1 DEF Disconnects, Busy, RowsInv, HandlersAreSound
<1>3. PICK a \in Accounts : a = handler[h].of
  BY <1>1, <1>2 DEF RowsInv, HandlersAreSound
<1>4. handler' = [handler EXCEPT ![h] = Idle] /\ UNCHANGED <<config, verified>>
  BY DEF Disconnects
<1>5. \A g \in Handlers : handler'[g].op = "idle"
  BY <1>1, <1>4, HandlerWasAlone
<1>6. CASE ~Exists(a)
  <2>1. row' = [row EXCEPT ![a] = row[a]] /\ row[a] \in Rows
    BY <1>3, <1>6, SerialTypes DEF Disconnects
  <2>2. /\ \A f \in Fields : row[a].env[f] # Null => row[a].key[f] = row[a].env[f].key
        /\ row[a].status = "active" => row[a].env["access"] # Null
    BY DEF SerialInv, KeyIdsNameTheKey, ActiveRowsHaveAccess
  <2> QED BY <1>1, <1>4, <1>5, <2>1, <2>2, SerialMoves
<1>7. CASE Exists(a)
  <2>1. PICK x : x = DisconnectedRow(h)
    OBVIOUS
  <2>2. row' = [row EXCEPT ![a] = x]
    BY <1>3, <1>7, <2>1 DEF Disconnects, DisconnectedRow, LoadedRow
  <2>3. /\ x \in Rows
        /\ x.status = IF LoadedRow(h).status = "disconnected" THEN row[a].status ELSE "disconnected"
        /\ \A f \in Fields :
             /\ x.env[f] = IF LoadedRow(h).env[f] = Null THEN row[a].env[f] ELSE Null
             /\ x.key[f] = IF LoadedRow(h).key[f] = Null THEN row[a].key[f] ELSE Null
    BY <1>1, <1>2, <1>3, <1>7, <2>1, DisconnectedFields
  <2>4. /\ row[a].status = "active" => LoadedRow(h).status = "active"
        /\ \A f \in Fields : LoadedRow(h).env[f] = Null => row[a].env[f] = Null
    BY <1>2, <1>3, <1>7 DEF SerialInv, LoadedIsCurrent
  <2>5. x.status # "active" /\ \A f \in Fields : x.env[f] = Null
    BY <2>3, <2>4
  <2>6. \A f \in Fields : x.key[f] \in {Null, Active(config), row[a].key[f]}
    BY <2>3
  <2>7. /\ \A f \in Fields : x.env[f] # Null => x.key[f] = x.env[f].key
        /\ x.status = "active" => x.env["access"] # Null
        /\ x \in Rows
    BY <2>3, <2>5
  <2> QED BY <1>1, <1>4, <1>5, <2>2, <2>6, <2>7, SerialMoves
<1> QED BY <1>6, <1>7
LEMMA RefreshedSerially ==
  ASSUME SerialInv, NEW a \in Accounts, Refreshed(a)
  PROVE  SerialInv'
<1>1. RowsInv /\ RowsInv'
  BY RefreshedKeeps DEF SerialInv
<1>2. UNCHANGED <<config, handler, rotation, verified>>
  BY DEF Refreshed
<1>3. PICK x \in Rows :
        /\ row' = [row EXCEPT ![a] = x] /\ x.status \in {"active", "revoked"}
        /\ \/ /\ x.status = "active"
              /\ \A f \in Fields :
                   \/ x.env[f] = row[a].env[f] /\ x.key[f] = row[a].key[f]
                   \/ /\ x.env[f] \in Envelopes /\ x.env[f].key = Active(config)
                      /\ x.key[f] = Active(config)
           \/ /\ x.status = "revoked" /\ x.key = row[a].key
              /\ \A f \in Fields : x.env[f] = row[a].env[f] \/ (f = "access" /\ x.env[f] = Null)
  BY <1>1, RefreshedFields
<1>4. /\ row[a].status = "active" /\ Exists(a)
      /\ \A f \in Fields : /\ row[a].env[f] # Null
                           /\ row[a].key[f] = row[a].env[f].key
  <2>1. row[a].status = "active" /\ row[a].env["refresh"] # Null
    BY <1>1 DEF Refreshed, RowsInv, LocksHold
  <2>2. row[a].env["access"] # Null
    BY <2>1 DEF SerialInv, ActiveRowsHaveAccess
  <2> QED BY <2>1, <2>2 DEF SerialInv, KeyIdsNameTheKey, Exists, Fields
<1>5. \A f \in Fields : x.env[f] # Null => x.key[f] = x.env[f].key
  BY <1>3, <1>4
<1>6. /\ \A f \in Fields : x.key[f] \in {Null, Active(config), row[a].key[f]}
      /\ \A f \in Fields : row[a].key[f] = Active(config) => x.key[f] = Active(config)
  BY <1>3
<1>7. x.status = "active" => x.env["access"] # Null
  BY <1>3, <1>4, KeyFacts, RowFacts
<1>8. /\ handler' = handler
      /\ x.status # "none" =>
           /\ Exists(a) /\ (x.status = "active" => row[a].status = "active")
           /\ \A f \in Fields : /\ row[a].key[f] = Active(config) => x.key[f] = Active(config)
                                /\ row[a].env[f] = Null => x.env[f] = Null
  BY <1>2, <1>4, <1>6
<1> QED BY <1>1, <1>2, <1>3, <1>5, <1>6, <1>7, <1>8, SerialMoves

LEMMA ErasesSerially ==
  ASSUME SerialInv, NEW a \in Accounts, Erases(a)
  PROVE  SerialInv'
<1>1. RowsInv'
  BY ErasesKeeps DEF SerialInv
<1>2. row' = [row EXCEPT ![a] = NoRow] /\ UNCHANGED <<config, handler, verified>>
  BY DEF Erases
<1>3. \A f \in Fields : NoRow.env[f] = Null /\ NoRow.key[f] \in {Null, Active(config), row[a].key[f]}
  BY RowFacts
<1> QED BY <1>1, <1>2, <1>3, RowFacts, SerialMoves

LEMMA CommitsSerially ==
  ASSUME SerialInv, CommitsBatch
  PROVE  SerialInv'
<1>1. RowsInv /\ RowsInv' /\ UNCHANGED <<config, handler, verified>>
  BY CommitsKeeps DEF SerialInv, CommitsBatch
<1>2. ASSUME NEW a \in Accounts, NEW f \in Fields
      PROVE  /\ row'[a].env[f] # Null => row'[a].key[f] = row'[a].env[f].key
             /\ row'[a].env[f] = Null <=> row[a].env[f] = Null
             /\ row[a].key[f] = Active(config) => row'[a].key[f] = Active(config)
             /\ row'[a].key[f] = "old" => row[a].key[f] = "old"
  <2>1. MovesField(a, f)
    BY <1>1, BatchWrites
  <2>2. row[a].env[f] # Null => row[a].key[f] = row[a].env[f].key
    BY DEF SerialInv, KeyIdsNameTheKey
  <2>3. CASE row'[a].env[f] = row[a].env[f] /\ row'[a].key[f] = row[a].key[f]
    BY <2>2, <2>3
  <2>4. CASE /\ config > 1 /\ row[a].key[f] = "old" /\ row[a].env[f] # Null
             /\ row'[a].env[f] = [key |-> "new", token |-> row[a].env[f].token]
             /\ row'[a].env[f] \in Envelopes /\ row'[a].key[f] = "new"
    <3>1. Active(config) = "new"
      BY <2>4, SerialTypes, KeyFacts
    <3>2. row'[a].env[f] # Null /\ row'[a].env[f].key = "new"
      BY <2>4, KeyFacts
    <3> QED BY <2>4, <3>1, <3>2
  <2> QED BY <2>1, <2>3, <2>4 DEF MovesField
<1>3. \A a \in Accounts : row'[a].status = row[a].status
  BY <1>1, BatchWrites
<1>4. KeyIdsNameTheKey'
  BY <1>2 DEF KeyIdsNameTheKey
<1>5. ActiveRowsHaveAccess'
  <2>1. \A a \in Accounts : row'[a].status = "active" => row'[a].env["access"] # Null
    BY <1>2, <1>3, RowFacts DEF SerialInv, ActiveRowsHaveAccess
  <2> QED BY <2>1 DEF ActiveRowsHaveAccess
<1>6. RetirementIsVerified'
  <2>1. verified => \A a \in Accounts : \A f \in Fields : row'[a].key[f] # "old"
    BY <1>2 DEF SerialInv, RetirementIsVerified, Unreferenced
  <2> QED BY <1>1, <2>1 DEF SerialInv, RetirementIsVerified, Unreferenced
<1>7. LoadedIsCurrent'
  <2> SUFFICES ASSUME NEW h \in Handlers, handler[h].op # "idle", handler[h].loaded # NoRow,
                      row'[handler[h].of].status # "none"
               PROVE  LET r == row'[handler[h].of]
                      IN /\ r.status = "active" => handler[h].loaded.status = "active"
                         /\ \A f \in Fields :
                              /\ handler[h].loaded.key[f] = Active(config) => r.key[f] = Active(config)
                              /\ handler[h].loaded.env[f] = Null => r.env[f] = Null
    BY <1>1 DEF LoadedIsCurrent, Busy, LoadedRow, Exists
  <2>1. PICK b \in Accounts : b = handler[h].of
    BY <1>1 DEF RowsInv, HandlersAreSound, Busy
  <2>2. /\ row[b].status = "active" => handler[h].loaded.status = "active"
        /\ \A f \in Fields :
             /\ handler[h].loaded.key[f] = Active(config) => row[b].key[f] = Active(config)
             /\ handler[h].loaded.env[f] = Null => row[b].env[f] = Null
    BY <1>3, <2>1 DEF SerialInv, LoadedIsCurrent, Busy, LoadedRow, Exists
  <2> QED BY <1>2, <1>3, <2>1, <2>2
<1> QED BY <1>1, <1>4, <1>5, <1>6, <1>7 DEF SerialInv

LEMMA ReadsSerially ==
  ASSUME SerialInv, NEW h \in Handlers, NEW a \in Accounts, Begins(h, a)
  PROVE  SerialInv'
<1>1. RowsInv /\ RowsInv' /\ UNCHANGED <<config, row, verified>>
  BY ReadsKeeps DEF SerialInv, Begins, Reads
<1>2. PICK op \in {"store", "disconnect"} :
        handler' = [handler EXCEPT ![h] = [op |-> op, of |-> a, loaded |-> row[a]]]
  BY DEF Begins, Reads
<1>3. /\ handler'[h].of = a /\ handler'[h].loaded = row[a]
      /\ \A g \in Handlers : g # h => handler'[g] = handler[g]
  BY <1>1, <1>2, Types
<1>4. LoadedIsCurrent'
  <2> SUFFICES ASSUME NEW g \in Handlers, handler'[g].op # "idle", handler'[g].loaded # NoRow,
                      row[handler'[g].of].status # "none"
               PROVE  LET r == row[handler'[g].of]
                      IN /\ r.status = "active" => handler'[g].loaded.status = "active"
                         /\ \A f \in Fields :
                              /\ handler'[g].loaded.key[f] = Active(config) => r.key[f] = Active(config)
                              /\ handler'[g].loaded.env[f] = Null => r.env[f] = Null
    BY <1>1 DEF LoadedIsCurrent, Busy, LoadedRow, Exists
  <2>1. CASE g = h
    BY <1>3, <2>1
  <2>2. CASE g # h
    BY <1>3, <2>2 DEF SerialInv, LoadedIsCurrent, Busy, LoadedRow, Exists
  <2> QED BY <2>1, <2>2
<1> QED BY <1>1, <1>4
        DEF SerialInv, KeyIdsNameTheKey, ActiveRowsHaveAccess, RetirementIsVerified, Unreferenced

\* The rows and the handlers stand.
LEMMA NothingWritten ==
  ASSUME SerialInv, RowsInv', UNCHANGED <<config, row, handler>>,
         verified' = verified \/ (verified' = TRUE /\ config > 1 /\ Unreferenced("old"))
  PROVE  SerialInv'
<1>1. RetirementIsVerified'
  <2>1. CASE verified' = verified
    BY <2>1 DEF SerialInv, RetirementIsVerified, Unreferenced
  <2>2. CASE verified' = TRUE /\ config > 1 /\ Unreferenced("old")
    BY <2>2 DEF RetirementIsVerified, Unreferenced
  <2> QED BY <2>1, <2>2
<1> QED BY <1>1
        DEF SerialInv, KeyIdsNameTheKey, ActiveRowsHaveAccess, LoadedIsCurrent, Busy, LoadedRow,
            Exists

LEMMA DeploysSerially ==
  ASSUME SerialInv, Deploys
  PROVE  SerialInv'
<1>1. RowsInv' /\ UNCHANGED <<row, verified>>
  BY DeploysKeeps DEF SerialInv, Deploys
<1>2. config' = config + 1 /\ (config = 1 \/ (config = 2 /\ verified)) /\ verified \in BOOLEAN
  BY SerialTypes DEF Deploys
<1>3. RetirementIsVerified'
  BY <1>1, <1>2 DEF SerialInv, RetirementIsVerified, Unreferenced
<1>4. LoadedIsCurrent'
  BY IdleIsTyped DEF Deploys, LoadedIsCurrent, Busy
<1> QED BY <1>1, <1>3, <1>4 DEF SerialInv, KeyIdsNameTheKey, ActiveRowsHaveAccess

LEMMA SerialStep ==
  ASSUME OneHandler
  PROVE  SerialInv /\ [Next]_vars => SerialInv'
<1> SUFFICES ASSUME SerialInv, [Next]_vars PROVE SerialInv'
  OBVIOUS
<1>1. RowsInv'
  BY RowsStep DEF SerialInv
<1>2. CASE UNCHANGED vars \/ BeginsRotation \/ SelectsBatch \/ EndsRotation \/ Interrupted
  <2>1. UNCHANGED <<config, row, handler, verified>>
    BY <1>2 DEF vars, BeginsRotation, SelectsBatch, EndsRotation, Interrupted
  <2> QED BY <1>1, <2>1, NothingWritten
<1>3. CASE \E h \in Handlers : \E a \in Accounts : Begins(h, a)
  BY <1>3, ReadsSerially
<1>4. CASE \E h \in Handlers : Stores(h) \/ Disconnects(h)
  BY <1>4, StoresSerially, DisconnectsSerially
<1>5. CASE \E a \in Accounts : Refreshes(a)
  <2>1. UNCHANGED <<config, row, handler, verified>>
    BY <1>5 DEF Refreshes
  <2> QED BY <1>1, <2>1, NothingWritten
<1>6. CASE \E a \in Accounts : Refreshed(a) \/ Erases(a)
  BY <1>6, RefreshedSerially, ErasesSerially
<1>7. CASE Verifies
  <2>1. /\ UNCHANGED <<config, row, handler>>
        /\ verified' = TRUE /\ config > 1 /\ Unreferenced("old")
    BY <1>7 DEF Verifies
  <2> QED BY <1>1, <2>1, NothingWritten
<1>8. CASE Deploys \/ CommitsBatch
  BY <1>8, DeploysSerially, CommitsSerially
<1> QED BY <1>2, <1>3, <1>4, <1>5, <1>6, <1>7, <1>8 DEF Next, Rotates

\* With one handler in flight at a time the key-id columns can be trusted: a
\* retired key is used by no stored token, and the gate's clearance means that
\* every one opens under the active key (credential_rotation.py:147, :192).
THEOREM KeysAreTrusted ==
  ASSUME OneHandler
  PROVE  Spec => []KeysInv
<1>1. SerialInv => KeysInv
  <2> SUFFICES ASSUME SerialInv PROVE KeysInv
    OBVIOUS
  <2>1. CredentialsTypeOK /\ KeyIdsNameTheKey
    BY DEF SerialInv, RowsInv
  <2>2. RetiredKeyIsUnused
    BY DEF SerialInv, RetirementIsVerified, KeyIdsNameTheKey, Unreferenced, RetiredKeyIsUnused
  <2>3. ClearMeansActive
    <3> SUFFICES ASSUME Reported(config) = {}, NEW a \in Accounts, NEW f \in Fields,
                        row[a].env[f] # Null
                 PROVE  row[a].env[f].key = Active(config)
      BY DEF ClearMeansActive, ClearToConnect
    <3>1. <<a, f>> \in Accounts \X Fields /\ <<a, f>>[1] = a /\ <<a, f>>[2] = f
      OBVIOUS
    <3>2. row[a].key[f] = Active(config)
      BY <3>1 DEF Reported
    <3> QED BY <3>1, <3>2 DEF SerialInv, KeyIdsNameTheKey
  <2> QED BY <2>1, <2>2, <2>3 DEF KeysInv
<1> QED BY <1>1, InitSerial, SerialStep, PTL DEF Spec
=============================================================================
