--------------------------- MODULE GoogleSyncProofs ---------------------------
(***************************************************************************)
(* Theorems about GoogleSync, for any number of syncs, changes, pages and  *)
(* failures, as long as the user reconnects the same Google account.       *)
(*                                                                         *)
(* The argument: a sync that is past its lock is alone, and the cursor it  *)
(* started from is still the stored one.  What its listing has shown so    *)
(* far is in its hands, accounted for, or beyond the end of its window;    *)
(* what a stored continuation has shown is accounted for, or beyond.  So   *)
(* when a listing is complete, nothing between its base and its final      *)
(* position is missing but what it passed by, and below its base lies only *)
(* what an earlier sync has completed or the window has left behind.       *)
(***************************************************************************)
EXTENDS GoogleSync, FiniteSetTheorems, TLAPS

\* A position is a number of its mailbox: reconnected to another one, the
\* cursor means nothing there.
OneMailbox == \A m, n \in Mailboxes : m = n

-----------------------------------------------------------------------------
(* The inductive invariant.                                                *)

Cursors == [committed : Position \cup {None}, box : Mailboxes \cup {None},
            token : Token \cup {NoToken}, base : Base \cup {NoBase}]
SyncStates == [step : {"idle", "waiting", "listing", "listed", "profile", "done"},
               loaded : Cursors, base : Base \cup {NoBase},
               token : Token \cup {NoToken}, resumed : BOOLEAN,
               pages : 0..HistoryPages + WindowPages,
               ids : SUBSET Items, final : Position \cup {None}]

Running(s) == sync[s].step \notin {"idle", "waiting"}

\* The positions that the pages before this token have shown.
Shown(base, token) ==
  IF base.kind = "window" THEN token.next + 1..token.opened ELSE base.low + 1..token.next - 1

AllIn(positions, seen) == \A i \in positions : <<mailbox, i>> \in seen

\* What a listing passes by, because it lay beyond the end of the window.
Passing(base, seen) == seen \cup base.beyond

\* Below the base of a listing there is nothing left to do.
BaseFits(base) ==
  /\ base \in Base
  /\ base.low <= IF base.kind = "window" THEN since[mailbox] ELSE cursor.committed

TokenFits(base, token, seen) ==
  /\ token.next \in base.low + 1..arrived[mailbox]
  /\ token.opened <= arrived[mailbox] /\ cursor.committed <= token.opened
  /\ AllIn(Shown(base, token), Passing(base, seen))

\* A complete listing ends at a position that may be committed.
ListingEnds(r, seen) ==
  /\ r.final \in Position
  /\ cursor.committed <= r.final /\ r.final <= arrived[mailbox]
  /\ AllIn(r.base.low + 1..r.final, Passing(r.base, seen \cup r.ids))

SyncSound(r, seen) ==
  /\ r.loaded = cursor
  /\ BaseFits(r.base)
  /\ r.token # NoToken => TokenFits(r.base, r.token, seen \cup r.ids)
  /\ r.step = "listing" => r.pages < MaxPages(r.base)
  /\ r.step # "listing" /\ Complete(r) => ListingEnds(r, seen)
  /\ r.step = "profile" => Complete(r)

CursorIsSound ==
  /\ cursor.committed <= arrived[mailbox]
  /\ cursor.committed # None => cursor.box \in Mailboxes
  /\ has_continuation(cursor) =>
       BaseFits(cursor.base) /\ TokenFits(cursor.base, cursor.token, Accounted)

SyncsAreSound == \A s \in Syncs : Running(s) => SyncSound(sync[s], Accounted)

OneSyncRuns == \A s, u \in Syncs : Running(s) /\ Running(u) => s = u

\* NothingSkipped, of the events beyond the window's end too: they may near.
NothingBehind ==
  \A i \in since[mailbox] + 1..arrived[mailbox] :
    i <= cursor.committed => <<mailbox, i>> \in Accounted

SyncInv == GoogleSyncTypeOK /\ NothingBehind /\ CursorIsSound /\ SyncsAreSound /\ OneSyncRuns

-----------------------------------------------------------------------------
(* Types.                                                                  *)

LEMMA Types ==
  ASSUME GoogleSyncTypeOK
  PROVE  /\ feed \in Feeds /\ mailbox \in Mailboxes /\ connected \in BOOLEAN
         /\ cursor \in Cursors /\ (has_continuation(cursor) <=> cursor.base # NoBase)
         /\ stored \subseteq Items /\ gone \subseteq Items /\ ahead \subseteq Items
         /\ exposed \subseteq Items /\ overlooked \subseteq Items
         /\ arrived \in [Mailboxes -> Position] /\ since \in [Mailboxes -> Position]
         /\ forgotten \in [Mailboxes -> Position]
         /\ sync \in [Syncs -> SyncStates] /\ faults \in 0..MaxFaults
BY DEF GoogleSyncTypeOK, Cursors, SyncStates

LEMMA TypesSuffice ==
  ASSUME feed \in Feeds, mailbox \in Mailboxes, connected \in BOOLEAN,
         cursor \in Cursors, has_continuation(cursor) <=> cursor.base # NoBase,
         stored \subseteq Items, gone \subseteq Items, ahead \subseteq Items,
         exposed \subseteq Items, overlooked \subseteq Items,
         arrived \in [Mailboxes -> Position], since \in [Mailboxes -> Position],
         forgotten \in [Mailboxes -> Position],
         sync \in [Syncs -> SyncStates], faults \in 0..MaxFaults
  PROVE  GoogleSyncTypeOK
BY DEF GoogleSyncTypeOK, Cursors, SyncStates

LEMMA SyncUpdate ==
  ASSUME NEW f, f \in [Syncs -> SyncStates], NEW s \in Syncs, NEW x \in SyncStates,
         NEW g, g = [f EXCEPT ![s] = x]
  PROVE  /\ g \in [Syncs -> SyncStates] /\ g[s] = x
         /\ \A u \in Syncs : u # s => g[u] = f[u]
OBVIOUS

LEMMA IdleIsTyped == Idle \in SyncStates /\ EMPTY_CURSOR \in Cursors /\ None \notin Position
<1>1. EMPTY_CURSOR \in Cursors
  BY DEF EMPTY_CURSOR, Cursors
<1>2. 0 \in 0..HistoryPages + WindowPages
  BY PagesAndBounds
<1>3. {} \in SUBSET Items
  OBVIOUS
<1>4. Idle \in SyncStates
  BY <1>1, <1>2, <1>3 DEF Idle, SyncStates
<1> QED BY <1>1, <1>4 DEF None, Position

LEMMA InitSyncInv == Init => SyncInv
<1> SUFFICES ASSUME Init PROVE SyncInv
  OBVIOUS
<1>1. 0 \in Position /\ 0 \in 0..MaxFaults
  BY PagesAndBounds DEF Position
<1>2. GoogleSyncTypeOK
  <2>1. cursor \in Cursors /\ (has_continuation(cursor) <=> cursor.base # NoBase)
    BY IdleIsTyped DEF Init, EMPTY_CURSOR, has_continuation
  <2>2. sync \in [Syncs -> SyncStates]
    BY IdleIsTyped DEF Init
  <2> QED BY <1>1, <2>1, <2>2, TypesSuffice DEF Init
<1>3. /\ cursor.committed = None /\ ~has_continuation(cursor)
      /\ \A s \in Syncs : ~Running(s)
      /\ arrived[mailbox] = 0
  BY DEF Init, EMPTY_CURSOR, has_continuation, Running, Idle
<1>4. NothingBehind
  BY <1>3 DEF NothingBehind, Init, None
<1> QED BY <1>2, <1>3, <1>4 DEF SyncInv, CursorIsSound, SyncsAreSound, OneSyncRuns, None

-----------------------------------------------------------------------------
(* What moves, and what that keeps.                                        *)

\* More mail, a later window and more that is accounted for disturb nothing.
LEMMA SoundnessStays ==
  ASSUME SyncInv, UNCHANGED <<mailbox, cursor>>,
         arrived \in [Mailboxes -> Position], since \in [Mailboxes -> Position],
         arrived'[mailbox] \in Nat, since'[mailbox] \in Nat,
         arrived[mailbox] <= arrived'[mailbox], since[mailbox] <= since'[mailbox],
         Accounted \subseteq Accounted'
  PROVE  /\ NothingBehind' /\ CursorIsSound'
         /\ \A r \in SyncStates : \A seen, more :
              SyncSound(r, seen) /\ seen \subseteq more =>
                /\ r.loaded = cursor' /\ BaseFits(r.base)'
                /\ r.token # NoToken => TokenFits(r.base, r.token, more \cup r.ids)'
                /\ r.step # "listing" /\ Complete(r) => ListingEnds(r, more)'
<1>1. /\ mailbox \in Mailboxes /\ cursor \in Cursors
      /\ arrived[mailbox] \in Nat /\ since[mailbox] \in Nat /\ cursor.committed \in Int
  BY Types, PagesAndBounds DEF SyncInv, Cursors, Position, None
<1>2. NothingBehind'
  <2> SUFFICES ASSUME NEW i \in since'[mailbox] + 1..arrived'[mailbox], i <= cursor.committed
               PROVE  <<mailbox, i>> \in Accounted
    BY DEF NothingBehind
  <2>1. i \in since[mailbox] + 1..arrived[mailbox]
    BY <1>1 DEF SyncInv, CursorIsSound
  <2> QED BY <2>1 DEF SyncInv, NothingBehind
<1>3. ASSUME NEW base, BaseFits(base) PROVE BaseFits(base)'
  <2>1. base.low \in Nat
    BY <1>3, PagesAndBounds DEF BaseFits, Base, Position
  <2> QED BY <1>1, <1>3, <2>1 DEF BaseFits
<1>4. ASSUME NEW base, NEW token \in Token, NEW seen, NEW more, BaseFits(base),
             TokenFits(base, token, seen), seen \subseteq more
      PROVE  TokenFits(base, token, more)'
  <2>1. base.low \in Nat /\ token.opened \in Nat /\ token.next \in Nat
    BY <1>4, PagesAndBounds DEF BaseFits, Base, Position, Token
  <2>2. Passing(base, seen) \subseteq Passing(base, more)
    BY <1>4 DEF Passing
  <2> QED BY <1>1, <1>4, <2>1, <2>2 DEF TokenFits, AllIn
<1>5. CursorIsSound'
  <2>1. has_continuation(cursor) => cursor.token \in Token
    BY <1>1 DEF Cursors, has_continuation
  <2> QED BY <1>1, <1>3, <1>4, <2>1 DEF SyncInv, CursorIsSound, has_continuation
<1>6. ASSUME NEW r \in SyncStates, NEW seen, NEW more, SyncSound(r, seen), seen \subseteq more
      PROVE  /\ r.loaded = cursor' /\ BaseFits(r.base)'
             /\ r.token # NoToken => TokenFits(r.base, r.token, more \cup r.ids)'
             /\ r.step # "listing" /\ Complete(r) => ListingEnds(r, more)'
  <2>1. r.loaded = cursor' /\ BaseFits(r.base)'
    BY <1>3, <1>6 DEF SyncSound
  <2>2. ASSUME r.token # NoToken PROVE TokenFits(r.base, r.token, more \cup r.ids)'
    <3>1. /\ r.token \in Token /\ seen \cup r.ids \subseteq more \cup r.ids
          /\ TokenFits(r.base, r.token, seen \cup r.ids) /\ BaseFits(r.base)
      BY <1>6, <2>2 DEF SyncStates, SyncSound
    <3> QED BY <1>4, <3>1
  <2>3. ASSUME r.step # "listing", Complete(r) PROVE ListingEnds(r, more)'
    <3>1. ListingEnds(r, seen) /\ r.final \in Nat
      BY <1>6, <2>3, PagesAndBounds DEF SyncSound, ListingEnds, Position
    <3>2. Passing(r.base, seen \cup r.ids) \subseteq Passing(r.base, more \cup r.ids)
      BY <1>6 DEF Passing
    <3>3. AllIn(r.base.low + 1..r.final, Passing(r.base, more \cup r.ids))
      BY <3>1, <3>2 DEF ListingEnds, AllIn
    <3> QED BY <1>1, <3>1, <3>3 DEF ListingEnds, AllIn, Passing
  <2> QED BY <2>1, <2>2, <2>3
<1> QED BY <1>2, <1>5, <1>6

LEMMA SyncStaysSound ==
  ASSUME SyncInv, UNCHANGED <<mailbox, cursor>>,
         arrived \in [Mailboxes -> Position], since \in [Mailboxes -> Position],
         arrived'[mailbox] \in Nat, since'[mailbox] \in Nat,
         arrived[mailbox] <= arrived'[mailbox], since[mailbox] <= since'[mailbox],
         Accounted \subseteq Accounted',
         NEW r \in SyncStates, NEW seen, SyncSound(r, seen), seen \subseteq Accounted'
  PROVE  SyncSound(r, Accounted)'
<1>1. PICK more : more = Accounted'
  OBVIOUS
<1>2. /\ r.loaded = cursor' /\ BaseFits(r.base)'
      /\ r.token # NoToken => TokenFits(r.base, r.token, more \cup r.ids)'
      /\ r.step # "listing" /\ Complete(r) => ListingEnds(r, more)'
  BY <1>1, SoundnessStays
<1>3. /\ r.step = "listing" => r.pages < MaxPages(r.base)
      /\ r.step = "profile" => Complete(r)
  BY DEF SyncSound
<1> QED BY <1>1, <1>2, <1>3 DEF SyncSound

\* Google and the account row move, the syncs do not.
LEMMA WorldMoves ==
  ASSUME SyncInv, GoogleSyncTypeOK', UNCHANGED <<mailbox, cursor, sync>>,
         arrived[mailbox] <= arrived'[mailbox], since[mailbox] <= since'[mailbox],
         Accounted \subseteq Accounted'
  PROVE  SyncInv'
<1>1. /\ arrived \in [Mailboxes -> Position] /\ since \in [Mailboxes -> Position]
      /\ arrived' \in [Mailboxes -> Position] /\ since' \in [Mailboxes -> Position]
      /\ sync \in [Syncs -> SyncStates] /\ mailbox \in Mailboxes
  BY Types DEF SyncInv, GoogleSyncTypeOK
<1>2. arrived'[mailbox] \in Nat /\ since'[mailbox] \in Nat
  BY <1>1, PagesAndBounds DEF Position
<1>3. NothingBehind' /\ CursorIsSound'
  BY <1>1, <1>2, SoundnessStays
<1>4. SyncsAreSound'
  <2> SUFFICES ASSUME NEW s \in Syncs, Running(s) PROVE SyncSound(sync[s], Accounted)'
    BY DEF SyncsAreSound, Running
  <2>1. SyncSound(sync[s], Accounted) /\ sync[s] \in SyncStates /\ sync'[s] = sync[s]
    BY <1>1 DEF SyncInv, SyncsAreSound
  <2>2. PICK r \in SyncStates : r = sync[s]
    BY <2>1
  <2>3. PICK seen : seen = Accounted
    OBVIOUS
  <2>4. SyncSound(r, Accounted)'
    BY <1>1, <1>2, <2>1, <2>2, <2>3, SyncStaysSound
  <2> QED BY <2>1, <2>2, <2>4
<1>5. OneSyncRuns'
  BY DEF SyncInv, OneSyncRuns, Running
<1> QED BY <1>3, <1>4, <1>5 DEF SyncInv

\* One sync moves, before it has committed anything.
LEMMA SyncMoves ==
  ASSUME SyncInv, NEW s \in Syncs, NEW x \in SyncStates, NEW more, more = Accounted',
         sync' = [sync EXCEPT ![s] = x],
         UNCHANGED <<feed, account, cursor, arrived, since, forgotten, gone, ahead, overlooked>>,
         stored' \subseteq Items, exposed' \subseteq Items, faults' \in 0..MaxFaults,
         stored \subseteq stored', exposed \subseteq exposed',
         x.step \notin {"idle", "waiting"} => SyncSound(x, more) /\ (Running(s) \/ ~Locked)
  PROVE  SyncInv'
<1>1. /\ feed \in Feeds /\ mailbox \in Mailboxes /\ connected \in BOOLEAN
      /\ cursor \in Cursors /\ (has_continuation(cursor) <=> cursor.base # NoBase)
      /\ gone \subseteq Items /\ ahead \subseteq Items /\ overlooked \subseteq Items
      /\ arrived \in [Mailboxes -> Position] /\ since \in [Mailboxes -> Position]
      /\ forgotten \in [Mailboxes -> Position] /\ sync \in [Syncs -> SyncStates]
  BY Types DEF SyncInv
<1>2. /\ sync' \in [Syncs -> SyncStates] /\ sync'[s] = x
      /\ \A u \in Syncs : u # s => sync'[u] = sync[u]
  BY <1>1, SyncUpdate
<1>3. GoogleSyncTypeOK'
  <2>1. /\ feed' \in Feeds /\ mailbox' \in Mailboxes /\ connected' \in BOOLEAN
        /\ cursor' \in Cursors /\ (has_continuation(cursor') <=> cursor'.base # NoBase)
    BY <1>1 DEF account, has_continuation
  <2>2. /\ stored' \subseteq Items /\ gone' \subseteq Items /\ ahead' \subseteq Items
        /\ exposed' \subseteq Items /\ overlooked' \subseteq Items
        /\ arrived' \in [Mailboxes -> Position] /\ since' \in [Mailboxes -> Position]
        /\ forgotten' \in [Mailboxes -> Position]
        /\ sync' \in [Syncs -> SyncStates] /\ faults' \in 0..MaxFaults
    BY <1>1, <1>2
  <2> QED BY <2>1, <2>2 DEF GoogleSyncTypeOK, Cursors, SyncStates
<1>4. /\ arrived[mailbox] \in Nat /\ since[mailbox] \in Nat /\ mailbox' = mailbox
      /\ Accounted \subseteq Accounted'
  BY <1>1, PagesAndBounds DEF Position, Accounted, account
<1>5. NothingBehind' /\ CursorIsSound'
  BY <1>1, <1>4, SoundnessStays
<1>6. SyncsAreSound'
  <2> SUFFICES ASSUME NEW u \in Syncs, Running(u)' PROVE SyncSound(sync[u], Accounted)'
    BY DEF SyncsAreSound
  <2>1. CASE u = s
    <3>1. SyncSound(x, more)
      BY <1>2, <2>1 DEF Running
    <3>2. SyncSound(x, Accounted)'
      BY <1>1, <1>4, <3>1, SyncStaysSound
    <3> QED BY <1>2, <2>1, <3>2
  <2>2. CASE u # s
    <3>1. /\ SyncSound(sync[u], Accounted) /\ sync[u] \in SyncStates /\ sync'[u] = sync[u]
      BY <1>1, <1>2, <2>2 DEF SyncInv, SyncsAreSound, Running
    <3>2. PICK r \in SyncStates : r = sync[u]
      BY <3>1
    <3>3. PICK seen : seen = Accounted
      OBVIOUS
    <3>4. SyncSound(r, Accounted)'
      BY <1>1, <1>4, <3>1, <3>2, <3>3, SyncStaysSound
    <3> QED BY <3>1, <3>2, <3>4
  <2> QED BY <2>1, <2>2
<1>7. OneSyncRuns'
  BY <1>2 DEF SyncInv, OneSyncRuns, Running, Locked
<1> QED BY <1>3, <1>5, <1>6, <1>7 DEF SyncInv

-----------------------------------------------------------------------------
(* Pages.                                                                  *)

\* A page's token has shown what the token before it had and this page; a
\* page without one ends a listing that has shown all there was.
LEMMA PageIsSound ==
  ASSUME mailbox \in Mailboxes, arrived \in [Mailboxes -> Position],
         cursor.committed \in Int, cursor.committed <= arrived[mailbox],
         NEW base, BaseFits(base), NEW token \in Token \cup {NoToken}, NEW seen,
         token # NoToken => TokenFits(base, token, seen),
         NEW page, page = PageOf(mailbox, base, token)
  PROVE  /\ page.ids \subseteq Items /\ page.token \in Token \cup {NoToken}
         /\ page.position \in Position
         /\ page.token # NoToken => TokenFits(base, page.token, seen \cup page.ids)
         /\ page.token = NoToken =>
              /\ cursor.committed <= page.position /\ page.position <= arrived[mailbox]
              /\ AllIn(base.low + 1..page.position, Passing(base, seen \cup page.ids))
<1> DEFINE top    == arrived[mailbox]
           low    == base.low
           window == base.kind = "window"
           first  == token = NoToken
           opened == IF first THEN top ELSE token.opened
           at     == IF ~first THEN token.next ELSE IF window THEN top ELSE low + 1
           there  == at \in low + 1..top
           next   == IF window THEN at - 1 ELSE at + 1
           more   == next \in low + 1..top
<1>1. /\ top \in 0..MaxItems /\ low \in 0..MaxItems /\ MaxItems \in Nat
      /\ cursor.committed \in Int /\ cursor.committed <= top
  BY PagesAndBounds DEF Position, BaseFits, Base
<1>2. /\ page.ids = (IF there THEN {<<mailbox, at>>} ELSE {}) \ base.beyond
      /\ page.token = IF more THEN [box |-> mailbox, next |-> next, opened |-> opened]
                      ELSE NoToken
      /\ page.position = IF window THEN opened ELSE top
  BY DEF PageOf
<1>3. ~first => /\ token.next \in low + 1..top /\ token.opened \in 0..top
                /\ cursor.committed <= token.opened
                /\ AllIn(Shown(base, token), Passing(base, seen))
  <2>1. ~first => token \in Token
    OBVIOUS
  <2>2. ~first => token.opened \in 0..MaxItems
    BY <2>1 DEF Token, Position
  <2> QED BY <1>1, <2>2 DEF TokenFits
<1>4. opened \in 0..top /\ cursor.committed <= opened /\ at \in Int /\ next \in Int
  BY <1>1, <1>3
<1> DEFINE after == Passing(base, seen \cup page.ids)
<1>4a. Passing(base, seen) \subseteq after /\ (there => <<mailbox, at>> \in after)
  BY <1>2 DEF Passing
<1> HIDE DEF after
<1>5. page.ids \subseteq Items
  BY <1>1, <1>2 DEF Items
<1>6. page.position \in Position /\ cursor.committed <= page.position /\ page.position <= top
  BY <1>1, <1>2, <1>4 DEF Position
<1>7. ASSUME window, NEW i \in Int, low < i, at <= i, i <= opened
      PROVE  <<mailbox, i>> \in after
  <2>1. CASE i = at
    BY <1>1, <1>3, <1>4, <1>7, <1>4a, <2>1
  <2>2. CASE i # at
    <3>1. ~first /\ i \in Shown(base, token)
      BY <1>1, <1>3, <1>4, <1>7, <2>2 DEF Shown
    <3> QED BY <1>3, <1>4a, <3>1 DEF AllIn
  <2> QED BY <2>1, <2>2
<1>8. ASSUME ~window, NEW i \in Int, low < i, i <= at, i <= top
      PROVE  <<mailbox, i>> \in after
  <2>1. CASE i = at
    BY <1>1, <1>3, <1>4, <1>8, <1>4a, <2>1
  <2>2. CASE i # at
    <3>1. ~first /\ i \in Shown(base, token)
      BY <1>1, <1>3, <1>4, <1>8, <2>2 DEF Shown
    <3> QED BY <1>3, <1>4a, <3>1 DEF AllIn
  <2> QED BY <2>1, <2>2
<1>9. ASSUME more
      PROVE  page.token \in Token /\ TokenFits(base, page.token, seen \cup page.ids)
  <2>1. page.token = [box |-> mailbox, next |-> next, opened |-> opened]
    BY <1>2, <1>9
  <2>2. page.token.next = next /\ page.token.opened = opened
    BY <2>1
  <2>3. next \in 0..MaxItems + 1 /\ opened \in Position
    BY <1>1, <1>4, <1>9 DEF Position
  <2>4. page.token \in Token
    BY <2>1, <2>3 DEF Token
  <2>5. ASSUME NEW i \in Shown(base, page.token) PROVE <<mailbox, i>> \in after
    <3>1. CASE window
      BY <1>1, <1>4, <1>7, <1>9, <2>2, <2>5, <3>1 DEF Shown
    <3>2. CASE ~window
      BY <1>1, <1>4, <1>8, <1>9, <2>2, <2>5, <3>2 DEF Shown
    <3> QED BY <3>1, <3>2
  <2>6. AllIn(Shown(base, page.token), Passing(base, seen \cup page.ids))
    BY <2>5 DEF AllIn, after
  <2> QED BY <1>1, <1>4, <1>9, <2>2, <2>4, <2>6 DEF TokenFits
<1>10. ASSUME ~more PROVE AllIn(low + 1..page.position, after)
  <2> SUFFICES ASSUME NEW i \in low + 1..page.position
               PROVE  <<mailbox, i>> \in after
    BY DEF AllIn
  <2>1. CASE window
    <3>1. at <= top /\ i \in Int /\ low < i /\ i <= opened
      BY <1>1, <1>2, <1>3, <1>4, <2>1
    <3> QED BY <1>1, <1>4, <1>7, <1>10, <2>1, <3>1
  <2>2. CASE ~window
    <3>1. low + 1 <= at /\ i \in Int /\ low < i /\ i <= top
      BY <1>1, <1>2, <1>3, <1>4, <2>2
    <3> QED BY <1>1, <1>4, <1>8, <1>10, <2>2, <3>1
  <2> QED BY <2>1, <2>2
<1>11. more => page.token # NoToken
  <2>1. [box |-> mailbox, next |-> next, opened |-> opened].next # NoToken.next \/ ~more
    BY <1>1 DEF NoToken
  <2> QED BY <1>2, <2>1
<1> QED BY <1>2, <1>5, <1>6, <1>9, <1>10, <1>11 DEF after

-----------------------------------------------------------------------------
(* The steps.                                                              *)

\* Listing the window of this request afresh forgets nothing.
LEMMA AfreshIsSound ==
  ASSUME SyncInv, NEW r \in SyncStates, r.loaded = cursor, NEW seen
  PROVE  /\ Afresh(r) \in SyncStates /\ Afresh(r).step = "listing"
         /\ SyncSound(Afresh(r), seen)
<1> DEFINE base == [kind |-> "window", box |-> mailbox, low |-> since[mailbox], beyond |-> {}]
           x == Afresh(r)
<1>1. base \in Base /\ since[mailbox] \in Nat
  BY Types, PagesAndBounds DEF SyncInv, Base, Position
<1>2. /\ x.step = "listing" /\ x.token = NoToken /\ x.resumed = FALSE /\ x.pages = 0
      /\ x.ids = {} /\ x.base = base /\ x.loaded = r.loaded /\ x.final = r.final
  BY DEF Afresh, SyncStates
<1>3. 0 \in 0..HistoryPages + WindowPages /\ 0 < MaxPages(base)
  BY PagesAndBounds DEF MaxPages
<1>4. x \in SyncStates
  BY <1>1, <1>3 DEF Afresh, SyncStates
<1>5. BaseFits(x.base)
  BY <1>1, <1>2 DEF BaseFits
<1> HIDE DEF x, base
<1> QED BY <1>2, <1>3, <1>4, <1>5 DEF SyncSound, x

LEMMA ReadsKeeps ==
  ASSUME SyncInv, NEW s \in Syncs, Reads(s) PROVE SyncInv'
<1> DEFINE x == [Idle EXCEPT !.step = "waiting", !.loaded = cursor]
<1>1. /\ cursor \in Cursors /\ faults \in 0..MaxFaults
      /\ stored \subseteq Items /\ exposed \subseteq Items
  BY Types DEF SyncInv
<1>2. x \in SyncStates /\ x.step = "waiting"
  BY <1>1, IdleIsTyped DEF Idle, SyncStates
<1>3. /\ sync' = [sync EXCEPT ![s] = x]
      /\ UNCHANGED <<feed, account, cursor, arrived, since, forgotten, gone, ahead, overlooked>>
      /\ stored' = stored /\ exposed' = exposed /\ faults' = faults
  BY DEF Reads, provider, passed
<1> HIDE DEF x
<1>4. PICK more : more = Accounted'
  OBVIOUS
<1> QED BY <1>1, <1>2, <1>3, <1>4, SyncMoves

\* A sync that has its lock continues, or asks for the history, or for the window.
LEMMA LocksKeeps ==
  ASSUME SyncInv, NEW s \in Syncs, Locks(s) PROVE SyncInv'
<1>1. /\ cursor \in Cursors /\ faults \in 0..MaxFaults
      /\ stored \subseteq Items /\ exposed \subseteq Items
      /\ (has_continuation(cursor) <=> cursor.base # NoBase)
  BY Types DEF SyncInv
<1> DEFINE at == [Idle EXCEPT !.step = "listing", !.loaded = cursor]
           old == [kind |-> "history", box |-> cursor.box, low |-> cursor.committed, beyond |-> {}]
           resumed == [[[at EXCEPT !.base = cursor.base] EXCEPT !.token = cursor.token]
                         EXCEPT !.resumed = TRUE]
           since_ == [at EXCEPT !.base = old]
<1>2. PICK more : more = Accounted'
  OBVIOUS
<1>3. /\ UNCHANGED <<feed, account, cursor, arrived, since, forgotten, gone, ahead, overlooked>>
      /\ stored' = stored /\ exposed' = exposed /\ faults' = faults /\ more = Accounted
      /\ ~Locked
  BY <1>2 DEF Locks, provider, passed, Accounted
<1>4. /\ at \in SyncStates /\ at.step = "listing" /\ at.loaded = cursor
      /\ at.token = NoToken /\ at.pages = 0 /\ at.ids = {}
  BY <1>1, IdleIsTyped DEF Idle, SyncStates
<1>5. \A base \in Base : 0 < MaxPages(base)
  BY PagesAndBounds DEF MaxPages
<1>6. PICK x : sync' = [sync EXCEPT ![s] = x] /\ x = IF connected THEN Begun(Idle, cursor) ELSE Idle
  BY DEF Locks, Loaded
<1>7. CASE ~connected
  <2>1. x \in SyncStates /\ x.step = "idle"
    BY <1>6, <1>7, IdleIsTyped DEF Idle
  <2> QED BY <1>1, <1>2, <1>3, <1>6, <2>1, SyncMoves
<1>8. CASE connected /\ has_continuation(cursor)
  <2>1. x = resumed
    BY <1>6, <1>8 DEF Begun
  <2>2. BaseFits(cursor.base) /\ TokenFits(cursor.base, cursor.token, Accounted)
    BY <1>8 DEF SyncInv, CursorIsSound
  <2>3. cursor.base \in Base /\ cursor.token \in Token
    BY <1>1, <1>8, <2>2 DEF BaseFits, Cursors, has_continuation
  <2>4. /\ x.step = "listing" /\ x.loaded = cursor /\ x.base = cursor.base
        /\ x.token = cursor.token /\ x.pages = 0 /\ x.ids = {}
    BY <1>4, <2>1 DEF SyncStates
  <2>5. x \in SyncStates
    BY <1>4, <2>1, <2>3 DEF SyncStates
  <2>6. more \cup x.ids = Accounted
    BY <1>3, <2>4
  <2> HIDE DEF resumed, at
  <2>7. SyncSound(x, more)
    BY <1>5, <2>2, <2>3, <2>4, <2>6 DEF SyncSound
  <2> QED BY <1>1, <1>2, <1>3, <1>6, <2>5, <2>7, SyncMoves
<1>9. CASE connected /\ ~has_continuation(cursor) /\ cursor.committed # None
  <2>1. x = since_
    BY <1>6, <1>9 DEF Begun
  <2>2. old \in Base /\ cursor.committed \in Nat
    BY <1>1, <1>9, PagesAndBounds DEF Base, SyncInv, CursorIsSound, Cursors, Position
  <2>3. /\ x.step = "listing" /\ x.loaded = cursor /\ x.base = old
        /\ x.token = NoToken /\ x.pages = 0 /\ x.ids = {}
    BY <1>4, <2>1 DEF SyncStates
  <2>4. x \in SyncStates
    BY <1>4, <2>1, <2>2 DEF SyncStates
  <2>5. BaseFits(x.base)
    BY <2>2, <2>3 DEF BaseFits
  <2> HIDE DEF since_, at, old
  <2>6. SyncSound(x, more)
    BY <1>5, <2>2, <2>3, <2>5 DEF SyncSound
  <2> QED BY <1>1, <1>2, <1>3, <1>6, <2>4, <2>6, SyncMoves
<1>10. CASE connected /\ ~has_continuation(cursor) /\ cursor.committed = None
  <2>1. x = Afresh(at)
    BY <1>6, <1>10 DEF Begun
  <2>2. x \in SyncStates /\ SyncSound(x, more)
    BY <1>4, <2>1, AfreshIsSound
  <2> QED BY <1>1, <1>2, <1>3, <1>6, <2>2, SyncMoves
<1> QED BY <1>7, <1>8, <1>9, <1>10

\* A page leaves its listing as sound as it was.
LEMMA ListsPageKeeps ==
  ASSUME SyncInv, NEW s \in Syncs, ListsPage(s) PROVE SyncInv'
<1>1. /\ mailbox \in Mailboxes /\ arrived \in [Mailboxes -> Position]
      /\ cursor \in Cursors /\ faults \in 0..MaxFaults
      /\ stored \subseteq Items /\ exposed \subseteq Items /\ sync[s] \in SyncStates
  BY Types DEF SyncInv
<1>2. PICK more : more = Accounted'
  OBVIOUS
<1>3. PICK r \in SyncStates : r = sync[s]
  BY <1>1
<1>4. PICK base, page : base = BaseOf(r) /\ page = PageOf(mailbox, base, r.token)
  OBVIOUS
<1> DEFINE ends == page.token = NoToken \/ r.pages + 1 = MaxPages(r.base)
           y == [r EXCEPT !.base = base]
           x == [y EXCEPT !.step = IF ends THEN "listed" ELSE "listing",
                          !.token = page.token, !.pages = @ + 1,
                          !.ids = @ \cup page.ids, !.final = page.position]
<1>5. /\ sync' = [sync EXCEPT ![s] = [r EXCEPT
                    !.step = IF ends THEN "listed" ELSE "listing",
                    !.base = base, !.token = page.token, !.pages = @ + 1,
                    !.ids = @ \cup page.ids, !.final = page.position]]
      /\ r.step = "listing"
      /\ UNCHANGED <<feed, account, cursor, arrived, since, forgotten, gone, ahead, overlooked>>
      /\ stored' = stored /\ exposed' = exposed /\ faults' = faults /\ more = Accounted
  BY <1>2, <1>3, <1>4 DEF ListsPage, provider, passed, Accounted
<1>6. Running(s) /\ SyncSound(r, more)
  BY <1>3, <1>5 DEF SyncInv, SyncsAreSound, Running
<1>7. /\ r.loaded = cursor /\ BaseFits(r.base) /\ r.base \in Base
      /\ r.token # NoToken => TokenFits(r.base, r.token, more \cup r.ids)
      /\ r.pages < MaxPages(r.base)
  BY <1>5, <1>6 DEF SyncSound, BaseFits
<1>7a. /\ base \in Base /\ base.kind = r.base.kind /\ base.low = r.base.low
       /\ r.token # NoToken => base = r.base
       /\ MaxPages(base) = MaxPages(r.base)
  <2>1. {item \in ahead : item[1] = mailbox} \in SUBSET Items
    BY Types DEF SyncInv
  <2> QED BY <1>4, <1>7, <2>1 DEF BaseOf, Base, MaxPages
<1>7b. BaseFits(base)
  BY <1>7, <1>7a DEF BaseFits
<1>8. cursor.committed \in Int /\ cursor.committed <= arrived[mailbox]
  BY <1>1, PagesAndBounds DEF Cursors, Position, None, SyncInv, CursorIsSound
<1>9. r.token \in Token \cup {NoToken}
  BY DEF SyncStates
<1>10. PICK seen : seen = more \cup r.ids
  OBVIOUS
<1>11. /\ page.ids \subseteq Items /\ page.token \in Token \cup {NoToken}
       /\ page.position \in Position
       /\ page.token # NoToken => TokenFits(base, page.token, seen \cup page.ids)
       /\ page.token = NoToken =>
            /\ cursor.committed <= page.position /\ page.position <= arrived[mailbox]
            /\ AllIn(base.low + 1..page.position, Passing(base, seen \cup page.ids))
  <2>1. PICK token \in Token \cup {NoToken} : token = r.token
    BY <1>9
  <2>2. token # NoToken => TokenFits(base, token, seen)
    BY <1>7, <1>7a, <1>10, <2>1
  <2>3. page = PageOf(mailbox, base, token)
    BY <1>4, <2>1
  <2> QED BY <1>1, <1>7b, <1>8, <2>2, <2>3, PageIsSound
<1>12. /\ x.step = (IF ends THEN "listed" ELSE "listing") /\ x.token = page.token
       /\ x.pages = r.pages + 1 /\ x.ids = r.ids \cup page.ids /\ x.final = page.position
       /\ x.base = base /\ x.loaded = r.loaded /\ x.resumed = r.resumed
  BY DEF SyncStates
<1>13. x \in SyncStates /\ sync' = [sync EXCEPT ![s] = x]
  <2>1. r.pages + 1 \in 0..HistoryPages + WindowPages /\ r.ids \cup page.ids \subseteq Items
    BY <1>7, <1>11, PagesAndBounds DEF SyncStates, MaxPages
  <2>2. x \in SyncStates
    BY <1>7a, <1>11, <2>1 DEF SyncStates
  <2>3. x = [r EXCEPT !.step = IF ends THEN "listed" ELSE "listing", !.base = base,
                      !.token = page.token, !.pages = @ + 1,
                      !.ids = @ \cup page.ids, !.final = page.position]
    BY DEF SyncStates
  <2> QED BY <1>5, <2>2, <2>3
<1> HIDE DEF x, y
<1>14. more \cup x.ids = seen \cup page.ids
  BY <1>10, <1>12
<1>15. x.token # NoToken => TokenFits(x.base, x.token, more \cup x.ids)
  BY <1>11, <1>12, <1>14
<1>16. Complete(x) => ListingEnds(x, more)
  BY <1>11, <1>12, <1>14 DEF Complete, ListingEnds
<1>17. x.step = "listing" => x.pages < MaxPages(x.base)
  BY <1>7, <1>7a, <1>12, PagesAndBounds DEF MaxPages, SyncStates
<1>18. SyncSound(x, more)
  BY <1>7, <1>7b, <1>12, <1>15, <1>16, <1>17 DEF SyncSound
<1> QED BY <1>1, <1>2, <1>5, <1>6, <1>13, <1>18, SyncMoves

\* A sync that stops, or that lists the window afresh, whatever it stores.
LEMMA StopsKeeps ==
  ASSUME SyncInv, NEW s \in Syncs,
         sync' = [sync EXCEPT ![s] = Idle]
           \/ (Running(s) /\ sync' = [sync EXCEPT ![s] = Afresh(sync[s])]),
         UNCHANGED <<feed, account, cursor, arrived, since, forgotten, gone, ahead, passed>>,
         stored' \subseteq Items, stored \subseteq stored', faults' \in 0..MaxFaults
  PROVE  SyncInv'
<1>1. /\ exposed \subseteq Items /\ sync[s] \in SyncStates
      /\ exposed' = exposed /\ overlooked' = overlooked
  BY Types DEF SyncInv, passed
<1>2. PICK more : more = Accounted'
  OBVIOUS
<1>3. /\ exposed' \subseteq Items /\ exposed \subseteq exposed'
      /\ UNCHANGED <<feed, account, cursor, arrived, since, forgotten, gone, ahead, overlooked>>
  BY <1>1
<1>4. CASE sync' = [sync EXCEPT ![s] = Idle]
  <2>1. Idle \in SyncStates /\ Idle.step = "idle"
    BY IdleIsTyped DEF Idle
  <2>2. PICK x \in SyncStates : x = Idle
    BY <2>1
  <2> QED BY <1>2, <1>3, <1>4, <2>1, <2>2, SyncMoves
<1>5. CASE Running(s) /\ sync' = [sync EXCEPT ![s] = Afresh(sync[s])]
  <2>1. PICK r \in SyncStates : r = sync[s]
    BY <1>1
  <2>2. r.loaded = cursor
    BY <1>5, <2>1 DEF SyncInv, SyncsAreSound, SyncSound
  <2>3. PICK x : x = Afresh(r)
    OBVIOUS
  <2>4. x \in SyncStates /\ SyncSound(x, more)
    BY <2>2, <2>3, AfreshIsSound
  <2> QED BY <1>2, <1>3, <1>5, <2>1, <2>3, <2>4, SyncMoves
<1> QED BY <1>4, <1>5

LEMMA RefusalsKeep ==
  ASSUME SyncInv, NEW s \in Syncs,
         IsRefused(s) \/ IsRefusedAnyway(s) \/ Fails(s) \/ CalendarFails(s)
  PROVE  SyncInv'
<1>1. /\ stored \subseteq Items /\ faults \in 0..MaxFaults /\ MaxFaults \in Nat
      /\ sync[s] \in SyncStates /\ sync[s].ids \subseteq Items
  BY Types, PagesAndBounds DEF SyncInv, SyncStates
<1>2. faults' \in 0..MaxFaults
  BY <1>1 DEF IsRefused, IsRefusedAnyway, Fails, CalendarFails
<1>3. stored' \subseteq Items /\ stored \subseteq stored'
  BY <1>1 DEF IsRefused, IsRefusedAnyway, Fails, CalendarFails
<1>4. UNCHANGED <<feed, account, cursor, arrived, since, forgotten, gone, ahead, passed>>
  BY DEF IsRefused, IsRefusedAnyway, Fails, CalendarFails, provider
<1>5. sync' = [sync EXCEPT ![s] = Idle]
        \/ (Running(s) /\ sync' = [sync EXCEPT ![s] = Afresh(sync[s])])
  <2>1. CASE IsRefused(s)
    BY <2>1 DEF IsRefused, Running
  <2>2. CASE IsRefusedAnyway(s)
    BY <2>2 DEF IsRefusedAnyway, Running
  <2>3. CASE Fails(s) \/ CalendarFails(s)
    BY <2>3 DEF Fails, CalendarFails
  <2> QED BY <2>1, <2>2, <2>3
<1> QED BY <1>2, <1>3, <1>4, <1>5, StopsKeeps

\* What cannot be read any more is dropped, and counted as gone.
LEMMA ResolvesKeeps ==
  ASSUME SyncInv, NEW s \in Syncs, Resolves(s) PROVE SyncInv'
<1>1. /\ faults \in 0..MaxFaults /\ stored \subseteq Items /\ exposed \subseteq Items
      /\ sync[s] \in SyncStates
  BY Types DEF SyncInv
<1>2. PICK more : more = Accounted'
  OBVIOUS
<1>3. PICK r \in SyncStates : r = sync[s]
  BY <1>1
<1>4. PICK step : step = IF ReadsProfile(r) THEN "profile" ELSE "done"
  OBVIOUS
<1> DEFINE y == [r EXCEPT !.step = step]
           x == [y EXCEPT !.ids = @ \ gone]
<1>5. /\ sync' = [sync EXCEPT ![s] = [r EXCEPT !.step = step, !.ids = @ \ gone]]
      /\ r.step = "listed"
      /\ UNCHANGED <<feed, account, cursor, arrived, since, forgotten, gone, ahead, overlooked>>
      /\ stored' = stored /\ exposed' = exposed /\ faults' = faults /\ more = Accounted
  BY <1>2, <1>3, <1>4 DEF Resolves, provider, passed, Accounted
<1>6. Running(s) /\ SyncSound(r, more)
  BY <1>3, <1>5 DEF SyncInv, SyncsAreSound, Running
<1>7. step \in {"profile", "done"} /\ (step = "profile" => Complete(r))
  BY <1>4 DEF ReadsProfile
<1>8. /\ x.step = step /\ x.ids = r.ids \ gone /\ x.token = r.token /\ x.base = r.base
      /\ x.loaded = r.loaded /\ x.final = r.final /\ x.pages = r.pages
  BY DEF SyncStates
<1>9. x \in SyncStates /\ x = [r EXCEPT !.step = step, !.ids = @ \ gone]
  BY <1>7 DEF SyncStates
<1> HIDE DEF x, y
<1>10. more \cup x.ids = more \cup r.ids
  BY <1>5, <1>8 DEF Accounted
<1>11. Complete(x) => ListingEnds(x, more)
  BY <1>5, <1>6, <1>8, <1>10 DEF SyncSound, Complete, ListingEnds
<1>12. SyncSound(x, more)
  BY <1>6, <1>7, <1>8, <1>10, <1>11 DEF SyncSound, Complete
<1> QED BY <1>1, <1>2, <1>5, <1>6, <1>9, <1>12, SyncMoves

\* The position of the profile leaves exposed what came during the listing.
LEMMA LearnsPositionKeeps ==
  ASSUME SyncInv, NEW s \in Syncs, LearnsPosition(s) PROVE SyncInv'
<1>1. /\ faults \in 0..MaxFaults /\ stored \subseteq Items /\ exposed \subseteq Items
      /\ sync[s] \in SyncStates /\ mailbox \in Mailboxes
      /\ arrived[mailbox] \in Position /\ cursor.committed \in Int
  BY Types, PagesAndBounds DEF SyncInv, Cursors, Position, None
<1>2. PICK more : more = Accounted'
  OBVIOUS
<1>3. PICK r \in SyncStates : r = sync[s]
  BY <1>1
<1>4. PICK top : top = arrived[mailbox]
  OBVIOUS
<1> DEFINE late == {<<mailbox, i>> : i \in r.final + 1..top}
           y == [r EXCEPT !.step = "done"]
           x == [y EXCEPT !.final = top]
<1>5. /\ sync' = [sync EXCEPT ![s].step = "done", ![s].final = top]
      /\ r.step = "profile" /\ exposed' = exposed \cup late
      /\ UNCHANGED <<feed, account, cursor, arrived, since, forgotten, gone, ahead, overlooked>>
      /\ stored' = stored /\ faults' = faults /\ more = Accounted \cup late
  BY <1>2, <1>3, <1>4 DEF LearnsPosition, provider, Accounted
<1>6. Running(s) /\ SyncSound(r, Accounted)
  BY <1>3, <1>5 DEF SyncInv, SyncsAreSound, Running
<1>7. Complete(r) /\ ListingEnds(r, Accounted)
  BY <1>5, <1>6 DEF SyncSound
<1>8. /\ r.final \in Nat /\ r.base.low \in Nat /\ MaxItems \in Nat
      /\ cursor.committed <= r.final /\ r.final <= top
      /\ AllIn(r.base.low + 1..r.final, Passing(r.base, Accounted \cup r.ids))
  <2>1. r.base \in Base
    BY <1>6 DEF SyncSound, BaseFits
  <2> QED BY <1>4, <1>7, <2>1, PagesAndBounds DEF ListingEnds, Position, Base
<1>9. late \subseteq Items
  BY <1>1, <1>4, <1>8 DEF Items, Position
<1>10. /\ x.step = "done" /\ x.ids = r.ids /\ x.token = r.token /\ x.base = r.base
       /\ x.loaded = r.loaded /\ x.final = top /\ x.pages = r.pages
  BY DEF SyncStates
<1>11. x \in SyncStates /\ sync' = [sync EXCEPT ![s] = x]
  <2>1. x \in SyncStates
    BY <1>1, <1>4 DEF SyncStates
  <2>2. x = [r EXCEPT !.step = "done", !.final = top]
    BY DEF SyncStates
  <2>3. sync' = [sync EXCEPT ![s] = [sync[s] EXCEPT !.step = "done", !.final = top]]
    BY <1>3, <1>5, <1>4 DEF LearnsPosition, SyncStates
  <2> QED BY <1>3, <2>1, <2>2, <2>3
<1> HIDE DEF x, y
<1>12. AllIn(x.base.low + 1..x.final, Passing(x.base, more \cup x.ids))
  <2> SUFFICES ASSUME NEW i \in r.base.low + 1..top
               PROVE  <<mailbox, i>> \in Passing(r.base, more \cup r.ids)
    BY <1>10 DEF AllIn
  <2>1. CASE i <= r.final
    <3>1. <<mailbox, i>> \in Passing(r.base, Accounted \cup r.ids)
      BY <1>8, <2>1 DEF AllIn
    <3> QED BY <1>5, <3>1 DEF Passing
  <2>2. CASE ~(i <= r.final)
    <3>1. i \in r.final + 1..top
      BY <1>1, <1>4, <1>8, <2>2 DEF Position
    <3> QED BY <1>5, <3>1 DEF Passing
  <2> QED BY <2>1, <2>2
<1>13. ListingEnds(x, more)
  BY <1>1, <1>4, <1>8, <1>10, <1>12 DEF ListingEnds, Position
<1>14. SyncSound(x, more)
  BY <1>6, <1>7, <1>10, <1>13 DEF SyncSound, Complete
<1>15. exposed' \subseteq Items /\ exposed \subseteq exposed'
  BY <1>1, <1>5, <1>9
<1> HIDE DEF late
<1> QED BY <1>1, <1>2, <1>5, <1>6, <1>11, <1>14, <1>15, SyncMoves

\* The commit: what the cursor says is what is stored, and it never says less.
LEMMA CommitsKeep ==
  ASSUME SyncInv, NEW s \in Syncs, Commits(s)
  PROVE  SyncInv' /\ cursor'.committed >= cursor.committed
<1>1. /\ feed \in Feeds /\ mailbox \in Mailboxes /\ connected \in BOOLEAN
      /\ cursor \in Cursors /\ gone \subseteq Items /\ stored \subseteq Items
      /\ ahead \subseteq Items /\ exposed \subseteq Items /\ overlooked \subseteq Items
      /\ arrived \in [Mailboxes -> Position] /\ since \in [Mailboxes -> Position]
      /\ forgotten \in [Mailboxes -> Position] /\ sync \in [Syncs -> SyncStates]
      /\ faults \in 0..MaxFaults
  BY Types DEF SyncInv
<1>2. PICK r \in SyncStates : r = sync[s]
  BY <1>1
<1>3. PICK final : /\ final \in {r.final, None} /\ cursor' = ResultCursor(r, final)
                   /\ overlooked' = overlooked \cup
                        IF Complete(r) /\ final # None THEN r.base.beyond ELSE {}
  BY <1>2 DEF Commits
<1>4. /\ r.step = "done" /\ stored' = stored \cup r.ids /\ sync' = [sync EXCEPT ![s] = Idle]
      /\ feed' = feed /\ mailbox' = mailbox /\ connected' = connected /\ gone' = gone
      /\ arrived' = arrived /\ since' = since /\ forgotten' = forgotten
      /\ faults' = faults /\ exposed' = exposed /\ ahead' = ahead
  BY <1>2 DEF Commits, account, provider
<1>5. PICK seen : seen = Accounted \cup r.ids
  OBVIOUS
<1>6. PICK after : /\ after = Accounted' /\ seen \subseteq after
                   /\ Complete(r) /\ final # None => Passing(r.base, seen) \subseteq after
  BY <1>3, <1>4, <1>5 DEF Accounted, Passing
<1>7. SyncSound(r, Accounted)
  BY <1>2, <1>4 DEF SyncInv, SyncsAreSound, Running
<1>8. /\ r.loaded = cursor /\ BaseFits(r.base) /\ r.base \in Base
      /\ ~Complete(r) => TokenFits(r.base, r.token, seen)
      /\ Complete(r) => /\ r.final \in Nat /\ r.final \in Position
                        /\ cursor.committed <= r.final /\ r.final <= arrived[mailbox]
                        /\ AllIn(r.base.low + 1..r.final, Passing(r.base, seen))
  BY <1>4, <1>5, <1>7, PagesAndBounds DEF SyncSound, BaseFits, Complete, ListingEnds, Position
<1> DEFINE advances == Complete(r) /\ final # None
<1>9. /\ cursor'.committed = IF advances THEN r.final ELSE cursor.committed
      /\ cursor'.box = IF advances THEN mailbox ELSE cursor.box
      /\ cursor'.token = r.token
      /\ cursor'.base = IF Complete(r) THEN NoBase ELSE r.base
  BY <1>3, <1>8 DEF ResultCursor
<1>10. /\ arrived[mailbox] \in Nat /\ since[mailbox] \in Nat /\ cursor.committed \in Int
       /\ r.base.low \in Nat
  BY <1>1, <1>8, PagesAndBounds DEF Position, Cursors, None, Base
<1>11. cursor'.committed >= cursor.committed /\ cursor'.committed \in Int
       /\ cursor'.committed <= arrived[mailbox]
  BY <1>8, <1>9, <1>10 DEF SyncInv, CursorIsSound
<1>12. cursor' \in Cursors /\ (has_continuation(cursor') <=> cursor'.base # NoBase)
  <2>1. cursor' = [committed |-> cursor'.committed, box |-> cursor'.box,
                   token |-> cursor'.token, base |-> cursor'.base]
    BY <1>3 DEF ResultCursor
  <2>2. /\ cursor'.committed \in Position \cup {None} /\ cursor'.box \in Mailboxes \cup {None}
        /\ cursor'.token \in Token \cup {NoToken} /\ cursor'.base \in Base \cup {NoBase}
    BY <1>1, <1>8, <1>9 DEF Cursors, SyncStates
  <2>3. \A b \in Base : b # NoBase
    BY DEF Base, NoBase
  <2>4. has_continuation(cursor') <=> cursor'.base # NoBase
    BY <1>8, <1>9, <2>3 DEF has_continuation, Complete
  <2> QED BY <2>1, <2>2, <2>4 DEF Cursors
<1>13. /\ sync' \in [Syncs -> SyncStates] /\ sync'[s] = Idle
       /\ \A u \in Syncs : u # s => sync'[u] = sync[u]
  BY <1>1, <1>4, IdleIsTyped, SyncUpdate
<1>14. GoogleSyncTypeOK'
  <2>1. stored' \subseteq Items
    BY <1>1, <1>4 DEF SyncStates
  <2>2. overlooked' \subseteq Items
    BY <1>1, <1>3, <1>8 DEF Base
  <2> QED BY <1>1, <1>4, <1>12, <1>13, <2>1, <2>2 DEF GoogleSyncTypeOK, Cursors, SyncStates
<1>15. NothingBehind'
  <2> SUFFICES ASSUME NEW i \in since[mailbox] + 1..arrived[mailbox], i <= cursor'.committed
               PROVE  <<mailbox, i>> \in after
    BY <1>4, <1>6 DEF NothingBehind
  <2>1. CASE i <= cursor.committed
    BY <1>5, <1>6, <2>1 DEF SyncInv, NothingBehind
  <2>2. CASE ~(i <= cursor.committed)
    <3>1. Complete(r) /\ final # None /\ i <= r.final
      BY <1>9, <1>10, <2>2
    <3>2. r.base.low < i
      BY <1>8, <1>10, <2>2 DEF BaseFits
    <3> QED BY <1>6, <1>8, <1>10, <3>1, <3>2 DEF AllIn
  <2> QED BY <2>1, <2>2
<1>16. CursorIsSound'
  <2>1. cursor'.committed # None => cursor'.box \in Mailboxes
    BY <1>1, <1>9 DEF SyncInv, CursorIsSound
  <2>2. ASSUME has_continuation(cursor')
        PROVE  BaseFits(cursor.base)' /\ TokenFits(cursor.base, cursor.token, Accounted)'
    <3>1. ~Complete(r) /\ cursor'.base = r.base /\ cursor'.token = r.token
      BY <1>9, <2>2 DEF has_continuation, Complete
    <3>2. cursor'.committed = cursor.committed
      BY <1>9, <3>1
    <3>3. BaseFits(cursor.base)'
      BY <1>4, <1>8, <3>1, <3>2 DEF BaseFits
    <3>4. TokenFits(cursor.base, cursor.token, Accounted)'
      <4>1. /\ TokenFits(r.base, r.token, seen)
            /\ Passing(r.base, seen) \subseteq Passing(r.base, after)
        BY <1>6, <1>8, <3>1 DEF Passing
      <4> QED BY <1>4, <1>6, <3>1, <3>2, <4>1 DEF TokenFits, AllIn
    <3> QED BY <3>3, <3>4
  <2> QED BY <1>4, <1>11, <2>1, <2>2 DEF CursorIsSound, has_continuation
<1>17. \A u \in Syncs : ~Running(u)'
  BY <1>2, <1>4, <1>13 DEF SyncInv, OneSyncRuns, Running, Idle
<1> QED BY <1>11, <1>14, <1>15, <1>16, <1>17 DEF SyncInv, SyncsAreSound, OneSyncRuns

\* Google's steps and the user's: the mailbox only grows, and stays the one.
LEMMA WorldKeeps ==
  ASSUME SyncInv, OneMailbox,
         \/ \E m \in Mailboxes : \/ Arrives(m) \/ WindowMoves(m) \/ HistoryExpires(m)
                                 \/ \E i \in 1..MaxItems : Goes(m, i) \/ Nears(m, i)
                                 \/ Connects(m)
         \/ Disconnects
  PROVE  SyncInv' /\ UNCHANGED cursor
<1>1. /\ feed \in Feeds /\ mailbox \in Mailboxes /\ connected \in BOOLEAN
      /\ cursor \in Cursors /\ (has_continuation(cursor) <=> cursor.base # NoBase)
      /\ stored \subseteq Items /\ gone \subseteq Items /\ ahead \subseteq Items
      /\ exposed \subseteq Items /\ overlooked \subseteq Items
      /\ arrived \in [Mailboxes -> Position] /\ since \in [Mailboxes -> Position]
      /\ forgotten \in [Mailboxes -> Position]
      /\ sync \in [Syncs -> SyncStates] /\ faults \in 0..MaxFaults
  BY Types DEF SyncInv
<1>2. \A f \in [Mailboxes -> Position] : \A m \in Mailboxes : \A g :
        f[m] < MaxItems /\ g = [f EXCEPT ![m] = @ + 1] =>
          g \in [Mailboxes -> Position] /\ f[mailbox] <= g[mailbox]
  BY <1>1, PagesAndBounds DEF Position
<1>3. \A f \in [Mailboxes -> Position] : f[mailbox] \in Nat /\ f[mailbox] <= f[mailbox]
  BY <1>1, PagesAndBounds DEF Position
<1>4. \A m \in Mailboxes : arrived[m] <= MaxItems /\ arrived[m] \in Nat /\ MaxItems \in Nat
                           /\ since[m] \in Nat /\ forgotten[m] \in Nat
  BY <1>1, PagesAndBounds DEF Position
<1> DEFINE Moved ==
      /\ UNCHANGED <<feed, mailbox, cursor, stored, sync, faults, exposed, overlooked>>
      /\ connected' \in BOOLEAN /\ gone \subseteq gone' /\ gone' \subseteq Items
      /\ ahead' \subseteq Items
      /\ arrived' \in [Mailboxes -> Position] /\ since' \in [Mailboxes -> Position]
      /\ forgotten' \in [Mailboxes -> Position]
      /\ arrived[mailbox] <= arrived'[mailbox] /\ since[mailbox] <= since'[mailbox]
<1>5. ASSUME NEW m \in Mailboxes, Arrives(m) PROVE Moved
  <2>1. /\ UNCHANGED <<feed, mailbox, connected, cursor, stored, sync, faults, passed>>
        /\ UNCHANGED <<since, forgotten, gone>>
        /\ arrived[m] < MaxItems /\ arrived' = [arrived EXCEPT ![m] = @ + 1]
    BY <1>5 DEF Arrives, account
  <2>2. ahead' \subseteq ahead \cup {<<m, arrived[m] + 1>>}
    BY <1>5 DEF Arrives
  <2>3. <<m, arrived[m] + 1>> \in Items
    BY <1>4, <2>1 DEF Items
  <2>4. ahead' \subseteq Items
    BY <1>1, <2>2, <2>3
  <2> QED BY <1>1, <1>2, <1>3, <2>1, <2>4 DEF passed
<1>6. ASSUME NEW m \in Mailboxes, WindowMoves(m) PROVE Moved
  <2>1. since[m] < MaxItems
    BY <1>4, <1>6 DEF WindowMoves
  <2> QED BY <1>1, <1>2, <1>3, <1>6, <2>1 DEF WindowMoves, account, passed
<1>7. ASSUME NEW m \in Mailboxes, HistoryExpires(m) PROVE Moved
  <2>1. forgotten[m] < MaxItems
    BY <1>4, <1>7 DEF HistoryExpires
  <2> QED BY <1>1, <1>2, <1>3, <1>7, <2>1 DEF HistoryExpires, account, passed
<1>8. ASSUME NEW m \in Mailboxes, NEW i \in 1..MaxItems, Goes(m, i) PROVE Moved
  <2>1. <<m, i>> \in Items
    BY DEF Items
  <2> QED BY <1>1, <1>3, <1>8, <2>1 DEF Goes, account, passed
<1>9. ASSUME NEW m \in Mailboxes, Connects(m) PROVE Moved
  <2>1. m = mailbox
    BY <1>1 DEF OneMailbox
  <2> QED BY <1>1, <1>3, <1>9, <2>1 DEF Connects, provider, passed
<1>10. ASSUME Disconnects PROVE Moved
  BY <1>1, <1>3, <1>10 DEF Disconnects, provider, passed
<1>10a. ASSUME NEW m \in Mailboxes, NEW i \in 1..MaxItems, Nears(m, i) PROVE Moved
  BY <1>1, <1>3, <1>10a DEF Nears, account, passed
<1>11. Moved
  BY <1>5, <1>6, <1>7, <1>8, <1>9, <1>10, <1>10a
<1>12. GoogleSyncTypeOK'
  BY <1>1, <1>11 DEF GoogleSyncTypeOK, Cursors, SyncStates, has_continuation
<1>13. Accounted \subseteq Accounted'
  BY <1>11 DEF Accounted
<1> QED BY <1>11, <1>12, <1>13, WorldMoves

LEMMA NextSyncInv ==
  ASSUME SyncInv, OneMailbox, [Next]_vars
  PROVE  SyncInv' /\ cursor'.committed >= cursor.committed
<1>1. cursor.committed \in Int
  BY Types, PagesAndBounds DEF SyncInv, Cursors, Position, None
<1>2. CASE UNCHANGED vars
  BY <1>1, <1>2 DEF SyncInv, GoogleSyncTypeOK, NothingBehind, Accounted, Passing, CursorIsSound,
                   SyncsAreSound, OneSyncRuns, SyncSound, BaseFits, TokenFits, ListingEnds, AllIn,
                   Running, vars, account, provider, passed
<1>3. ASSUME NEW s \in Syncs, Proceeds(s) PROVE SyncInv' /\ cursor'.committed >= cursor.committed
  <2>1. CASE Commits(s)
    BY <2>1, CommitsKeep
  <2>2. CASE Reads(s) \/ Locks(s) \/ ListsPage(s) \/ IsRefused(s) \/ Resolves(s) \/ LearnsPosition(s)
    <3>1. cursor' = cursor
      BY <2>2 DEF Reads, Locks, ListsPage, IsRefused, Resolves, LearnsPosition
    <3>2. SyncInv'
      BY <2>2, ReadsKeeps, LocksKeeps, ListsPageKeeps, RefusalsKeep, ResolvesKeeps,
         LearnsPositionKeeps
    <3> QED BY <1>1, <3>1, <3>2
  <2> QED BY <1>3, <2>1, <2>2 DEF Proceeds
<1>4. ASSUME NEW s \in Syncs, IsRefusedAnyway(s) \/ Fails(s) \/ CalendarFails(s)
      PROVE  SyncInv' /\ cursor'.committed >= cursor.committed
  <2>1. cursor' = cursor
    BY <1>4 DEF IsRefusedAnyway, Fails, CalendarFails
  <2> QED BY <1>1, <1>4, <2>1, RefusalsKeep
<1>5. ASSUME \/ \E m \in Mailboxes : \/ Arrives(m) \/ WindowMoves(m) \/ HistoryExpires(m)
                                     \/ \E i \in 1..MaxItems : Goes(m, i) \/ Nears(m, i)
                                     \/ Connects(m)
             \/ Disconnects
      PROVE  SyncInv' /\ cursor'.committed >= cursor.committed
  BY <1>1, <1>5, WorldKeeps
<1> QED BY <1>2, <1>3, <1>4, <1>5 DEF Next

-----------------------------------------------------------------------------
(* The theorems.                                                           *)

LEMMA SyncInvariant == ASSUME OneMailbox PROVE Spec => []SyncInv
<1>1. SyncInv /\ [Next]_vars => SyncInv'
  BY NextSyncInv
<1> QED BY <1>1, InitSyncInv, PTL DEF Spec

\* Whatever bounds, continuations, refusals, expired histories and failures
\* there were, each message or event of the window up to the committed position
\* is stored or gone, or was passed by in one of two ways: a message that came
\* while a Gmail window was being listed, an event beyond the calendar window's
\* end when that was listed; and a continuation is a whole one (google_email.py,
\* google_calendar.py, google_sync.py).
THEOREM NothingIsSkipped == ASSUME OneMailbox PROVE Spec => []CursorInv
<1>1. SyncInv => CursorInv
  <2>1. NothingBehind => NothingSkipped
    BY DEF NothingBehind, NothingSkipped, Window
  <2> QED BY <2>1 DEF SyncInv, CursorInv
<1> QED BY <1>1, SyncInvariant, PTL

\* A sync that waited for another one's row lock does not take the cursor back
\* (get_by_provider reads the row anew, connected_accounts.py).
THEOREM CursorsGoForward == ASSUME OneMailbox PROVE Spec => CommittedNeverGoesBack
<1>1. SyncInv /\ [Next]_vars => [cursor'.committed >= cursor.committed]_cursor
  BY NextSyncInv
<1> QED BY <1>1, SyncInvariant, PTL DEF Spec, CommittedNeverGoesBack
=============================================================================
