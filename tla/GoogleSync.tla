------------------------------ MODULE GoogleSync ------------------------------
(***************************************************************************)
(* One feed (Gmail or Calendar) of a user's Google account, and the        *)
(* user-triggered sync that imports it: google_sync.py, the cursor of      *)
(* google_sync_cursor.py, the connectors google_email.py and               *)
(* google_calendar.py, and the upserts of ingestion.py.                    *)
(*                                                                         *)
(* A mailbox is the sequence 1..arrived of its changes; a historyId or     *)
(* syncToken is a position in it.  A window lists what is newer than       *)
(* since, newest first, one item a page, without the events that lie       *)
(* beyond its end (a page with nothing on it stands for one of these); the *)
(* history lists what is newer than a position, oldest first, as it is     *)
(* when the page is served, whatever its date.                             *)
(* A sync fetches a bounded number of pages and leaves the rest to the     *)
(* next sync in a continuation.  It holds the account row's lock from the  *)
(* token read to the end of the request, whose transaction it is.          *)
(***************************************************************************)
EXTENDS Integers, FiniteSets

CONSTANTS
  Feeds,             \* which of "gmail" and "calendar" to check
  Mailboxes,         \* the Google accounts the user may connect
  Syncs,             \* sync requests that may be in flight
  WindowPages,       \* _MAX_WINDOW_PAGES, _MAX_PAGES
  HistoryPages,      \* _MAX_HISTORY_PAGES, _MAX_PAGES
  MaxItems, MaxGone, MaxFaults   \* bounds: changes, items lost, failed syncs

ASSUME FeedsAreKnown == Feeds \subseteq {"gmail", "calendar"}
ASSUME PagesAndBounds ==
  /\ WindowPages \in Nat \ {0} /\ HistoryPages \in Nat \ {0}
  /\ MaxItems \in Nat /\ MaxGone \in Nat /\ MaxFaults \in Nat

VARIABLES
  feed,       \* the feed checked; never changes
  mailbox,    \* the Google account the tokens belong to
  connected,  \* the account is active and the feed's read scope granted
  cursor,     \* account.sync_cursors[feed]
  stored,     \* the imported source items, as <<mailbox, position>>
  arrived,    \* Mailboxes -> how many changes there have been
  since,      \* Mailboxes -> changes up to here are older than the window
  forgotten,  \* Mailboxes -> positions below are too old for a history
  gone,       \* items that can no longer be fetched, or not be read
  ahead,      \* events that lie further in the future than the window goes
  sync,       \* Syncs -> the request in progress
  faults,     \* failures so far
  exposed,    \* history: what came during a Gmail window that was completed
  overlooked  \* history: what lay beyond a calendar window that was committed

provider == <<arrived, since, forgotten, gone, ahead>>
account == <<mailbox, connected>>
passed == <<exposed, overlooked>>
vars == <<feed, account, cursor, stored, provider, sync, faults, passed>>

None == -1
Position == 0..MaxItems
Items == Mailboxes \X (1..MaxItems)

\* A page token remembers the listing it continues: the mailbox, the position
\* the next page starts at, and how far the feed was at the first page.
NoToken == [box |-> None, next |-> 0, opened |-> 0]
Token == [box : Mailboxes, next : 0..MaxItems + 1, opened : Position]
\* A window remembers its dates: where it begins, and what is beyond its end.
Base == [kind : {"window", "history"}, box : Mailboxes, low : Position,
         beyond : SUBSET Items]
NoBase == [kind |-> "none", box |-> None, low |-> 0, beyond |-> {}]

\* GoogleSyncCursor, without the time it reports
EMPTY_CURSOR == [committed |-> None, box |-> None, token |-> NoToken, base |-> NoBase]
has_continuation(c) == c.token # NoToken

Idle == [step |-> "idle", loaded |-> EMPTY_CURSOR, base |-> NoBase, token |-> NoToken,
         resumed |-> FALSE, pages |-> 0, ids |-> {}, final |-> None]

GoogleSyncTypeOK ==
  LET Cursor == [committed : Position \cup {None}, box : Mailboxes \cup {None}, token : Token \cup {NoToken},
                 base : Base \cup {NoBase}]
  IN /\ feed \in Feeds /\ mailbox \in Mailboxes /\ connected \in BOOLEAN
     /\ cursor \in Cursor /\ (has_continuation(cursor) <=> cursor.base # NoBase)
     /\ stored \subseteq Items /\ gone \subseteq Items /\ ahead \subseteq Items
     /\ exposed \subseteq Items /\ overlooked \subseteq Items
     /\ arrived \in [Mailboxes -> Position] /\ since \in [Mailboxes -> Position]
     /\ forgotten \in [Mailboxes -> Position]
     /\ sync \in [Syncs -> [step : {"idle", "waiting", "listing", "listed", "profile",
                                    "done"},
                            loaded : Cursor, base : Base \cup {NoBase},
                            token : Token \cup {NoToken}, resumed : BOOLEAN,
                            pages : 0..HistoryPages + WindowPages,
                            ids : SUBSET Items, final : Position \cup {None}]]
     /\ faults \in 0..MaxFaults

Init ==
  /\ feed \in Feeds /\ mailbox \in Mailboxes /\ connected = FALSE
  /\ cursor = EMPTY_CURSOR
  /\ stored = {} /\ gone = {} /\ ahead = {} /\ exposed = {} /\ overlooked = {}
  /\ arrived = [m \in Mailboxes |-> 0] /\ since = [m \in Mailboxes |-> 0]
  /\ forgotten = [m \in Mailboxes |-> 0]
  /\ sync = [s \in Syncs |-> Idle]
  /\ faults = 0

-----------------------------------------------------------------------------
(* Google: the mailbox moves on, and forgets.                              *)

\* A message or an event; only an event may lie beyond the window's end.
Arrives(m) ==
  /\ arrived[m] < MaxItems
  /\ arrived' = [arrived EXCEPT ![m] = @ + 1]
  /\ \E far \in {{}} \cup IF feed = "calendar" THEN {{<<m, arrived[m] + 1>>}} ELSE {} :
       ahead' = ahead \cup far
  /\ UNCHANGED <<feed, account, cursor, stored, since, forgotten, gone, sync, faults, passed>>

\* SYNC_WINDOW_PAST_DAYS: the window leaves its oldest item behind.
WindowMoves(m) ==
  /\ since[m] < arrived[m] /\ <<m, since[m] + 1>> \notin ahead
  /\ since' = [since EXCEPT ![m] = @ + 1]
  /\ UNCHANGED <<feed, account, cursor, stored, arrived, forgotten, gone, ahead, sync, faults,
                 passed>>

\* SYNC_WINDOW_FUTURE_DAYS: the window's end reaches an event, which is not
\* a change of the event.
Nears(m, i) ==
  /\ <<m, i>> \in ahead
  /\ ahead' = ahead \ {<<m, i>>}
  /\ UNCHANGED <<feed, account, cursor, stored, arrived, since, forgotten, gone, sync, faults,
                 passed>>

HistoryExpires(m) ==
  /\ forgotten[m] < arrived[m]
  /\ forgotten' = [forgotten EXCEPT ![m] = @ + 1]
  /\ UNCHANGED <<feed, account, cursor, stored, arrived, since, gone, ahead, sync, faults,
                 passed>>

\* A message is deleted or is a superseded draft (404); an event is cancelled.
Goes(m, i) ==
  /\ i <= arrived[m] /\ <<m, i>> \notin gone /\ Cardinality(gone) < MaxGone
  /\ gone' = gone \cup {<<m, i>>}
  /\ UNCHANGED <<feed, account, cursor, stored, arrived, since, forgotten, ahead, sync,
                 faults, passed>>

\* A historyId is a number, which any mailbox takes for its own; a syncToken
\* is only good for the calendar it is from (as every page token is).
Knows(m, base) ==
  \/ base.kind = "window"
  \/ base.low \in forgotten[m]..arrived[m] /\ (feed = "gmail" \/ base.box = m)

\* What a page shows, and whether another follows.  A window's listing stays
\* as it was at its first page, and leaves out what is beyond its end
\* (time_max); a history is live.
PageOf(m, base, token) ==
  LET first == token = NoToken
      opened == IF first THEN arrived[m] ELSE token.opened
      at == IF ~first THEN token.next
            ELSE IF base.kind = "window" THEN arrived[m] ELSE base.low + 1
      there == at \in base.low + 1..arrived[m]
      next == IF base.kind = "window" THEN at - 1 ELSE at + 1
      more == next \in base.low + 1..arrived[m]
  IN [ids |-> (IF there THEN {<<m, at>>} ELSE {}) \ base.beyond,
      token |-> IF more THEN [box |-> m, next |-> next, opened |-> opened] ELSE NoToken,
      position |-> IF base.kind = "window" THEN opened ELSE arrived[m]]

-----------------------------------------------------------------------------
(* The account: connected_accounts.py.  Both writes wait for the row lock. *)

Locked == \E s \in Syncs : sync[s].step \notin {"idle", "waiting"}

\* The OAuth callback: the row and its sync_cursors stay what they were.
Connects(m) ==
  /\ ~Locked
  /\ mailbox' = m /\ connected' = TRUE
  /\ UNCHANGED <<feed, cursor, stored, provider, sync, faults, passed>>

\* A disconnect, a refresh token that Google rejects, or a consent that leaves
\* the feed out.
Disconnects ==
  /\ ~Locked /\ connected
  /\ connected' = FALSE
  /\ UNCHANGED <<feed, mailbox, cursor, stored, provider, sync, faults, passed>>

-----------------------------------------------------------------------------
(* One sync.                                                               *)

\* A listing that starts over at the window of this request.
Afresh(r) ==
  [r EXCEPT !.step = "listing", !.token = NoToken, !.resumed = FALSE, !.pages = 0, !.ids = {},
            !.base = [kind |-> "window", box |-> mailbox, low |-> since[mailbox], beyond |-> {}]]

\* fetch_recent, fetch_events: resume, or the history since the committed
\* position, or the whole window.
Begun(r, c) ==
  LET at == [r EXCEPT !.step = "listing", !.loaded = c]
  IN IF has_continuation(c)
       THEN [at EXCEPT !.base = c.base, !.token = c.token, !.resumed = TRUE]
     ELSE IF c.committed # None
       THEN [at EXCEPT !.base = [kind |-> "history", box |-> c.box, low |-> c.committed,
                                    beyond |-> {}]]
     ELSE Afresh(at)

\* The account is read, without a lock: connected, with the scope granted.
\* (Without the scope a connector that returns nothing takes this one's place.)
Reads(s) ==
  /\ sync[s].step = "idle" /\ connected
  /\ sync' = [sync EXCEPT ![s] = [Idle EXCEPT !.step = "waiting", !.loaded = cursor]]
  /\ UNCHANGED <<feed, account, cursor, stored, provider, faults, passed>>

\* Mutant of Loaded: the row as it was first read, from the identity map.
LoadedAtFirstRead(s) == sync[s].loaded

\* get_by_provider(for_update=True) reads the row anew (populate_existing).
Loaded(s) == cursor

\* get_valid_access_token: the row is locked and read again; its cursors are
\* those the connectors start from.  An account no longer active is refused.
Locks(s) ==
  /\ sync[s].step = "waiting" /\ ~Locked
  /\ sync' = [sync EXCEPT ![s] = IF connected THEN Begun(Idle, Loaded(s)) ELSE Idle]
  /\ UNCHANGED <<feed, account, cursor, stored, provider, faults, passed>>

MaxPages(base) == IF base.kind = "window" THEN WindowPages ELSE HistoryPages

\* A page token of another mailbox is refused, as is a foreign syncToken.
Answers(s) ==
  LET r == sync[s]
  IN IF r.token # NoToken THEN r.token.box = mailbox ELSE Knows(mailbox, r.base)

\* The listing a page belongs to: a window that starts ends at its until.
BaseOf(r) ==
  IF r.base.kind = "window" /\ r.token = NoToken
    THEN [r.base EXCEPT !.beyond = {item \in ahead : item[1] = mailbox}] ELSE r.base

\* One page; the loop ends at the last page or at the bound.
ListsPage(s) ==
  LET r == sync[s]
      page == PageOf(mailbox, BaseOf(r), r.token)
      ends == page.token = NoToken \/ r.pages + 1 = MaxPages(r.base)
  IN /\ r.step = "listing" /\ Answers(s)
     /\ sync' = [sync EXCEPT ![s] =
                   [r EXCEPT !.step = IF ends THEN "listed" ELSE "listing",
                             !.base = BaseOf(r), !.token = page.token, !.pages = @ + 1,
                             !.ids = @ \cup page.ids, !.final = page.position]]
     /\ UNCHANGED <<feed, account, cursor, stored, provider, faults, passed>>

\* Mutant of Restarts: an expired history is an error of the sync.
RestartsOnTokenOnly(r) == r.token # NoToken /\ r.resumed

\* An expired history is listed afresh, as is a continuation refused.
Restarts(r) == r.resumed \/ (r.base.kind = "history" /\ r.token = NoToken)

\* Google refuses the page: a continuation, or an expired position, gives way
\* to the window of this request; otherwise the sync fails.
IsRefused(s) ==
  LET r == sync[s]
  IN /\ r.step = "listing" /\ ~Answers(s)
     /\ sync' = [sync EXCEPT ![s] = IF Restarts(r) THEN Afresh(r) ELSE Idle]
     /\ UNCHANGED <<feed, account, cursor, stored, provider, faults, passed>>

\* Google refuses a page token, or a message, that it should know.
IsRefusedAnyway(s) ==
  LET r == sync[s]
  IN /\ r.step \in {"listing", "listed", "profile"} /\ faults < MaxFaults
     /\ faults' = faults + 1
     /\ sync' = [sync EXCEPT ![s] = IF r.resumed THEN Afresh(r) ELSE Idle]
     /\ UNCHANGED <<feed, account, cursor, stored, provider, passed>>

Complete(r) == r.token = NoToken
ReadsProfile(r) == feed = "gmail" /\ r.base.kind = "window" /\ Complete(r)

\* _resolve_messages, _convert: what can be read, the others are counted.
Resolves(s) ==
  LET r == sync[s]
  IN /\ r.step = "listed"
     /\ sync' = [sync EXCEPT ![s] = [r EXCEPT !.step = IF ReadsProfile(r) THEN "profile"
                                                       ELSE "done",
                                              !.ids = @ \ gone]]
     /\ UNCHANGED <<feed, account, cursor, stored, provider, faults, passed>>

\* get_current_history_id: where Gmail is by now.
LearnsPosition(s) ==
  /\ sync[s].step = "profile"
  /\ sync' = [sync EXCEPT ![s].step = "done", ![s].final = arrived[mailbox]]
  /\ exposed' = exposed \cup
       {<<mailbox, i>> : i \in sync[s].final + 1..arrived[mailbox]}
  /\ UNCHANGED <<feed, account, cursor, stored, provider, faults, overlooked>>

\* Mutant of ResultCursor: the position of the last page fetched is committed,
\* whether or not it was the last one there is.
ResultCursorAtBound(r, final) ==
  [EMPTY_CURSOR EXCEPT !.committed = IF final # None THEN final ELSE r.loaded.committed,
                       !.box = mailbox]

\* result_cursor: complete, or a continuation that leaves committed alone.
ResultCursor(r, final) ==
  LET advances == Complete(r) /\ final # None
  IN [committed |-> IF advances THEN final ELSE r.loaded.committed,
      box |-> IF advances THEN mailbox ELSE r.loaded.box,
      token |-> r.token,
      base |-> IF Complete(r) THEN NoBase ELSE r.base]

\* The items are upserted, the cursor is written, the request commits.  A
\* calendar page may come without the nextSyncToken.
Commits(s) ==
  LET r == sync[s]
  IN /\ r.step = "done"
     /\ \E final \in {r.final} \cup IF feed = "calendar" THEN {None} ELSE {} :
          /\ cursor' = ResultCursor(r, final)
          /\ overlooked' = overlooked \cup
               IF Complete(r) /\ final # None THEN r.base.beyond ELSE {}
     /\ stored' = stored \cup r.ids
     /\ sync' = [sync EXCEPT ![s] = Idle]
     /\ UNCHANGED <<feed, account, provider, faults, exposed>>

\* A timeout, 429, 5xx or rejected token: a 502 that commits nothing of this
\* feed; or the process dies and the transaction is rolled back.
Fails(s) ==
  /\ sync[s].step # "idle" /\ faults < MaxFaults
  /\ faults' = faults + 1
  /\ sync' = [sync EXCEPT ![s] = Idle]
  /\ UNCHANGED <<feed, account, cursor, stored, provider, passed>>

\* The calendar fails after the mail: the 502 is a response like any other,
\* so the request commits the messages, but not the cursor.
CalendarFails(s) ==
  /\ sync[s].step = "done" /\ feed = "gmail" /\ faults < MaxFaults
  /\ faults' = faults + 1
  /\ stored' = stored \cup sync[s].ids
  /\ sync' = [sync EXCEPT ![s] = Idle]
  /\ UNCHANGED <<feed, account, cursor, provider, passed>>

Proceeds(s) ==
  \/ Reads(s) \/ Locks(s) \/ ListsPage(s) \/ IsRefused(s) \/ Resolves(s)
  \/ LearnsPosition(s) \/ Commits(s)

Next ==
  \/ \E m \in Mailboxes : \/ Arrives(m) \/ WindowMoves(m) \/ HistoryExpires(m)
                          \/ \E i \in 1..MaxItems : Goes(m, i) \/ Nears(m, i)
                          \/ Connects(m)
  \/ Disconnects
  \/ \E s \in Syncs : \/ Proceeds(s) \/ IsRefusedAnyway(s) \/ Fails(s) \/ CalendarFails(s)

Spec == Init /\ [][Next]_vars

\* The user syncs again and again, and a request proceeds until it fails.
FairSpec == Spec /\ \A s \in Syncs : WF_vars(Proceeds(s))

-----------------------------------------------------------------------------
(* Properties.                                                             *)

\* What the user is to have: newer than the window's beginning, and not
\* beyond its end.
Window == {<<mailbox, i>> : i \in since[mailbox] + 1..arrived[mailbox]} \ ahead
Accounted == stored \cup gone \cup exposed \cup overlooked

\* What the cursor says is done, is done, whatever bounds, continuations,
\* refusals and failures there were (google_sync_cursor.py): a message or
\* event of the window up to the committed position is stored or gone, or it
\* is one of the two kinds that a listing passes by: a message that came
\* while a Gmail window was being listed (see NoMessageSkipped), or an event
\* that lay beyond the end of the window when it was listed (see
\* NoEventSkipped).
NothingSkipped ==
  \A item \in Window : item[2] <= cursor.committed => item \in Accounted

\* A continuation is a whole one, and what is committed is imported, but for
\* what a listing passes by.
CursorInv == GoogleSyncTypeOK /\ NothingSkipped

\* google_sync_cursor.py: committed is "the historyId/syncToken a sync has
\* fully, genuinely completed through".  What comes between the listing of a
\* Gmail window and the reading of the profile is missed.
NoMessageSkipped ==
  \A item \in Window : item[2] <= cursor.committed => item \in stored \cup gone \cup overlooked

\* The same sentence of events: one that lay more than 30 days ahead when the
\* calendar was first listed is missed, and stays so when its day comes near,
\* unless it is changed or the position expires.
NoEventSkipped ==
  \A item \in Window : item[2] <= cursor.committed => item \in stored \cup gone \cup exposed

\* A sync that waited for another one does not take the cursor back.
CommittedNeverGoesBack ==
  [][cursor'.committed >= cursor.committed]_cursor

\* A user who stays connected and syncs again and again gets everything that
\* is left in the window, although a sync only fetches so many pages; but for
\* what a listing has passed by (exposed and overlooked, see above).
Converges ==
  <>[]connected => <>[](Window \subseteq Accounted)

=============================================================================
