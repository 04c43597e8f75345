------------------------- MODULE EvidenceDeletionProofs ------------------------
(***************************************************************************)
(* Theorems about EvidenceDeletion, for any number of items, signals and   *)
(* proposals and batches of any size.                                      *)
(*                                                                         *)
(* The argument: until the operation decides, every content is old and     *)
(* every reference is there.  What it read when it decided differs from    *)
(* the rows it then writes only by what is late, for requests never put an *)
(* old content or an old reference back; so writing the columns that       *)
(* change, computed from what was read, leaves only what is late.          *)
(*                                                                         *)
(* And while nothing else moves, what is counted and what is still there   *)
(* make up the plan, so that the counts at the end add up to the plan's.   *)
(***************************************************************************)
EXTENDS EvidenceDeletion, FiniteSetTheorems, TLAPS

-----------------------------------------------------------------------------
(* The inductive invariant.                                                *)

ProposalRows ==
  [status : Statuses, approved : BOOLEAN, payload : Contents, snapshot : Contents,
   refs : SUBSET Items, outcome : {"none", "pending", "uncertain", "terminal"},
   executed : Contents, result : Contents, made : Int]
SignalRows == [there : BOOLEAN, refs : SUBSET Items, late : BOOLEAN]

Phases == {"derived", "sources", "credentials", "product", "minimise", "finalise", "done"}
Cursors ==
  [phase : Phases, step : {"idle", "ready", "read", "classified"}, at : Int,
   removed : SUBSET Items, surviving : SUBSET Items,
   seen : {Null} \cup [Proposals -> ProposalRows],
   signals : {Null} \cup [Signals -> SignalRows], crashes : Int]

ProposalIsSound(p, row) ==
  /\ row \in ProposalRows /\ row.refs \subseteq RefsOf[p]
  /\ row.status \in {"proposed", "edited"} => ~row.approved
  /\ row.status = "approved" => row.approved
  /\ row.outcome # "none" <=> row.status \in {"executing", "ended"}
  /\ row.status = "absent" => row = NoProposal

SignalIsSound(s, row) ==
  /\ row \in SignalRows /\ row.refs \subseteq RefsOf[s]
  /\ row.there => s \in pool /\ row.refs # {}
  /\ ~row.there => row = NoSignal

Kept(row) == {row.payload, row.snapshot, row.executed, row.result}

\* Before the decision: nothing is late and nothing pruned.
Fresh(p, row) == "late" \notin Kept(row) /\ (row.status # "absent" => row.refs = RefsOf[p])
FreshSignal(s, row) == ~row.late /\ (row.there => row.refs = RefsOf[s])

\* A row, and what the operation has seen of it.
Since(row, seen) ==
  /\ row.payload # "late" => row.payload = seen.payload /\ row.refs = seen.refs
  /\ row.snapshot \in {"late", "none", seen.snapshot}
  /\ row.executed \in {"late", "none", seen.executed}
  /\ row.result \in {"late", "none", seen.result}
  /\ seen.outcome # "none" => row.outcome # "none"
  /\ seen.status = "absent" => row.status = "absent" \/ row.payload = "late"
  /\ seen.status # "absent" => row.status # "absent"

\* After it.
PrunedSignal(row, removed) == row.there /\ ~row.late => row.refs \cap removed = {}
PrunedProposal(row, removed) ==
  /\ row.payload # "late" => row.refs \cap removed = {}
  /\ row.refs = {} => "old" \notin Kept(row)
ErasedProposal(row) ==
  /\ "old" \notin Kept(row)
  /\ row.status # "absent" => row.outcome # "none" \/ row.payload = "late"

RowsAreSound ==
  /\ \A p \in Proposals : ProposalIsSound(p, proposal[p])
  /\ \A s \in Signals : SignalIsSound(s, signal[s])

CursorIsSound ==
  /\ op \in Cursors
  /\ op.phase \in IF type = "account" THEN {"credentials", "product", "minimise", "finalise", "done"}
                  ELSE {"derived", "sources", "done"}
  /\ op.step = "read" => op.phase = "derived"
  /\ op.step = "classified" => op.phase \in {"derived", "minimise"}
  /\ op.phase = "done" => op.step = "idle"
  /\ op.step \in {"read", "classified"} /\ op.phase = "derived" =>
       op.removed \cap op.surviving = {}

SeenIsSound ==
  op.step = "classified" =>
    /\ op.seen \in [Proposals -> ProposalRows]
    /\ \A p \in Proposals : /\ ProposalIsSound(p, op.seen[p]) /\ Fresh(p, op.seen[p])
                            /\ Since(proposal[p], op.seen[p])
                            /\ proposal[p].status # "absent" => proposal[p].refs = RefsOf[p]
    /\ op.phase = "derived" =>
         /\ op.signals \in [Signals -> SignalRows]
         /\ \A s \in Signals : /\ SignalIsSound(s, op.signals[s]) /\ ~op.signals[s].late
                               /\ ~signal[s].late => signal[s] = op.signals[s]
                               /\ op.signals[s].there => signal[s] = op.signals[s]
                               /\ signal[s].there => signal[s].refs = RefsOf[s]

\* What a request may make of the row r: it writes the content c.
Requested(p, r, row, c) ==
  /\ ProposalIsSound(p, row)
  /\ r.status # "absent" => row.status # "absent"
  /\ r.status = "absent" /\ row.status # "absent" => row.payload = c /\ row.refs = RefsOf[p]
  /\ row.payload \in {r.payload, c}
  /\ row.refs = r.refs \/ (row.refs = RefsOf[p] /\ row.payload = c)
  /\ row.snapshot \in {r.snapshot, "none", c}
  /\ row.executed \in {r.executed, "none", c}
  /\ row.result \in {r.result, "none", c}
  /\ r.outcome # "none" => row.outcome # "none"

UndecidedIsFresh ==
  /\ ~Decided => \A p \in Proposals : Fresh(p, proposal[p])
  /\ ~DecidedSignals => \A s \in Signals : FreshSignal(s, signal[s])

DecidedIsPruned ==
  type # "account" /\ op.phase \in {"sources", "done"} =>
    /\ \A s \in Signals : PrunedSignal(signal[s], op.removed)
    /\ \A p \in Proposals : PrunedProposal(proposal[p], op.removed)

ErasedIsEmpty ==
  type = "account" =>
    /\ op.phase # "credentials" => ~connected
    /\ op.phase \in {"minimise", "finalise", "done"} =>
         Live = {} /\ \A s \in Signals : signal[s].there => signal[s].late
    /\ op.phase \in {"finalise", "done"} => \A p \in Proposals : ErasedProposal(proposal[p])

EvidenceInv ==
  /\ type \in {"imported", "retention", "account"} /\ now \in Int /\ connected \in BOOLEAN
  /\ proposal \in [Proposals -> ProposalRows] /\ signal \in [Signals -> SignalRows]
  /\ DOMAIN stored = Items
  /\ RowsAreSound /\ CursorIsSound /\ SeenIsSound /\ UndecidedIsFresh /\ DecidedIsPruned
  /\ ErasedIsEmpty

-----------------------------------------------------------------------------
(* Rows.                                                                   *)

LEMMA NothingFields ==
  /\ NoProposal \in ProposalRows /\ NoProposal.status = "absent" /\ NoProposal.refs = {}
  /\ NoProposal.payload = "none" /\ NoProposal.snapshot = "none"
  /\ NoProposal.executed = "none" /\ NoProposal.result = "none"
  /\ NoProposal.outcome = "none" /\ ~NoProposal.approved
  /\ NoSignal \in SignalRows /\ ~NoSignal.there /\ NoSignal.refs = {} /\ ~NoSignal.late
BY DEF NoProposal, NoSignal, ProposalRows, SignalRows, Statuses, Contents

LEMMA ContentFacts ==
  Content \in {"old", "late"} /\ (Decided => Content = "late") /\ (~Decided => Content = "old")
BY DEF Content

\* Offered: the row is new.
LEMMA OfferedFields ==
  ASSUME NEW p \in Proposals, NEW made \in Int, NEW c \in Contents, NEW x, x = Offered(p, made, c)
  PROVE  /\ x \in ProposalRows /\ x.status = "proposed" /\ ~x.approved /\ x.payload = c
         /\ x.snapshot = "none" /\ x.refs = RefsOf[p] /\ x.outcome = "none"
         /\ x.executed = "none" /\ x.result = "none"
<1>1. RefsOf[p] \in SUBSET Items
  BY EvidenceIsGiven
<1>2. x = [status |-> "proposed", approved |-> FALSE, payload |-> c, snapshot |-> "none",
           refs |-> RefsOf[p], outcome |-> "none", executed |-> "none", result |-> "none",
           made |-> made]
  BY DEF Offered, NoProposal
<1> QED BY <1>1, <1>2 DEF ProposalRows, Statuses, Contents

LEMMA ApprovedFields ==
  ASSUME NEW r \in ProposalRows, NEW c \in Contents, NEW x, x = ApprovedRow(r, c)
  PROVE  /\ x \in ProposalRows /\ x.status = "approved" /\ x.approved /\ x.payload = r.payload
         /\ x.snapshot = c /\ x.refs = r.refs /\ x.outcome = r.outcome
         /\ x.executed = r.executed /\ x.result = r.result
<1> DEFINE r1 == [r EXCEPT !.status = "approved"]
           r2 == [r1 EXCEPT !.approved = TRUE]
<1>1. x = [r2 EXCEPT !.snapshot = c]
  BY DEF ApprovedRow, ProposalRows
<1>2. /\ r1 \in ProposalRows /\ r1.status = "approved" /\ r1.payload = r.payload
      /\ r1.refs = r.refs /\ r1.outcome = r.outcome /\ r1.executed = r.executed
      /\ r1.result = r.result
  BY DEF ProposalRows, Statuses
<1> HIDE DEF r1
<1>3. /\ r2 \in ProposalRows /\ r2.status = "approved" /\ r2.approved /\ r2.payload = r.payload
      /\ r2.refs = r.refs /\ r2.outcome = r.outcome /\ r2.executed = r.executed
      /\ r2.result = r.result
  BY <1>2 DEF ProposalRows
<1> HIDE DEF r2
<1> QED BY <1>1, <1>3 DEF ProposalRows

LEMMA AttemptedFields ==
  ASSUME NEW r \in ProposalRows, NEW c \in Contents, NEW x, x = Attempted(r, c)
  PROVE  /\ x \in ProposalRows /\ x.status = "executing" /\ x.approved = r.approved
         /\ x.payload = r.payload /\ x.snapshot = r.snapshot /\ x.refs = r.refs
         /\ x.outcome = "pending" /\ x.executed = c /\ x.result = r.result
<1> DEFINE r1 == [r EXCEPT !.status = "executing"]
           r2 == [r1 EXCEPT !.outcome = "pending"]
<1>1. x = [r2 EXCEPT !.executed = c]
  BY DEF Attempted, ProposalRows
<1>2. /\ r1 \in ProposalRows /\ r1.status = "executing" /\ r1.approved = r.approved
      /\ r1.payload = r.payload /\ r1.snapshot = r.snapshot /\ r1.refs = r.refs
      /\ r1.result = r.result
  BY DEF ProposalRows, Statuses
<1> HIDE DEF r1
<1>3. /\ r2 \in ProposalRows /\ r2.status = "executing" /\ r2.approved = r.approved
      /\ r2.payload = r.payload /\ r2.snapshot = r.snapshot /\ r2.refs = r.refs
      /\ r2.outcome = "pending" /\ r2.result = r.result
  BY <1>2 DEF ProposalRows
<1> HIDE DEF r2
<1> QED BY <1>1, <1>3 DEF ProposalRows

LEMMA UnsignedFields ==
  ASSUME NEW r \in ProposalRows, NEW st \in Statuses, NEW x, x = Unsigned(r, st)
  PROVE  /\ x \in ProposalRows /\ x.status = st /\ ~x.approved
         /\ x.payload = r.payload /\ x.snapshot = "none" /\ x.refs = r.refs
         /\ x.outcome = r.outcome /\ x.executed = r.executed /\ x.result = r.result
<1> DEFINE r1 == [r EXCEPT !.status = st]
           r2 == [r1 EXCEPT !.approved = FALSE]
<1>1. x = [r2 EXCEPT !.snapshot = "none"]
  BY DEF Unsigned, ProposalRows
<1>2. /\ r1 \in ProposalRows /\ r1.status = st /\ r1.payload = r.payload
      /\ r1.refs = r.refs /\ r1.outcome = r.outcome /\ r1.executed = r.executed
      /\ r1.result = r.result
  BY DEF ProposalRows
<1> HIDE DEF r1
<1>3. /\ r2 \in ProposalRows /\ r2.status = st /\ ~r2.approved /\ r2.payload = r.payload
      /\ r2.refs = r.refs /\ r2.outcome = r.outcome /\ r2.executed = r.executed
      /\ r2.result = r.result
  BY <1>2 DEF ProposalRows
<1> HIDE DEF r2
<1> QED BY <1>1, <1>3 DEF ProposalRows, Contents

\* One column of a row.
LEMMA OneColumn ==
  ASSUME NEW r \in ProposalRows
  PROVE  /\ \A st \in Statuses : \A x : x = [r EXCEPT !.status = st] =>
              /\ x \in ProposalRows /\ x.status = st /\ x.approved = r.approved
              /\ x.payload = r.payload /\ x.snapshot = r.snapshot /\ x.refs = r.refs
              /\ x.outcome = r.outcome /\ x.executed = r.executed /\ x.result = r.result
         /\ \A c \in Contents : \A x : x = [r EXCEPT !.payload = c] =>
              /\ x \in ProposalRows /\ x.status = r.status /\ x.approved = r.approved
              /\ x.payload = c /\ x.snapshot = r.snapshot /\ x.refs = r.refs
              /\ x.outcome = r.outcome /\ x.executed = r.executed /\ x.result = r.result
         /\ \A refs \in SUBSET Items : \A x : x = [r EXCEPT !.refs = refs] =>
              /\ x \in ProposalRows /\ x.status = r.status /\ x.approved = r.approved
              /\ x.payload = r.payload /\ x.snapshot = r.snapshot /\ x.refs = refs
              /\ x.outcome = r.outcome /\ x.executed = r.executed /\ x.result = r.result
BY DEF ProposalRows

\* An executor comes back.
Finished(r, o, c) ==
  [r EXCEPT !.outcome = o, !.result = c, !.status = IF o = "uncertain" THEN @ ELSE "ended"]

LEMMA FinishedFields ==
  ASSUME NEW r \in ProposalRows, NEW o \in {"terminal", "uncertain"}, NEW c \in Contents,
         NEW x, x = Finished(r, o, c)
  PROVE  /\ x \in ProposalRows /\ x.status = IF o = "uncertain" THEN r.status ELSE "ended"
         /\ x.approved = r.approved /\ x.payload = r.payload /\ x.snapshot = r.snapshot
         /\ x.refs = r.refs /\ x.outcome = o /\ x.executed = r.executed /\ x.result = c
<1> DEFINE st == IF o = "uncertain" THEN r.status ELSE "ended"
           r1 == [r EXCEPT !.outcome = o]
           r2 == [r1 EXCEPT !.result = c]
<1>1. x = [r2 EXCEPT !.status = st]
  BY DEF Finished, ProposalRows
<1>2. st \in Statuses
  BY DEF ProposalRows, Statuses
<1> HIDE DEF st
<1>3. /\ r1 \in ProposalRows /\ r1.status = r.status /\ r1.approved = r.approved
      /\ r1.payload = r.payload /\ r1.snapshot = r.snapshot /\ r1.refs = r.refs
      /\ r1.outcome = o /\ r1.executed = r.executed
  BY DEF ProposalRows
<1> HIDE DEF r1
<1>4. /\ r2 \in ProposalRows /\ r2.status = r.status /\ r2.approved = r.approved
      /\ r2.payload = r.payload /\ r2.snapshot = r.snapshot /\ r2.refs = r.refs
      /\ r2.outcome = o /\ r2.executed = r.executed /\ r2.result = c
  BY <1>3 DEF ProposalRows
<1> HIDE DEF r2
<1>5. /\ x \in ProposalRows /\ x.status = st
      /\ x.approved = r.approved /\ x.payload = r.payload /\ x.snapshot = r.snapshot
      /\ x.refs = r.refs /\ x.outcome = o /\ x.executed = r.executed /\ x.result = c
  BY <1>1, <1>2, <1>4 DEF ProposalRows
<1> QED BY <1>5 DEF st

\* A tombstone: what was there when it was read is not there.
LEMMA MinimisedFields ==
  ASSUME NEW r \in ProposalRows, NEW seen \in ProposalRows, NEW x, x = Minimised(r, seen)
  PROVE  /\ x \in ProposalRows /\ x.status = r.status /\ x.approved = r.approved
         /\ x.outcome = r.outcome
         /\ x.payload = Assigned(seen.payload, "none", r.payload)
         /\ x.snapshot = Assigned(seen.snapshot, "none", r.snapshot)
         /\ x.refs = Assigned(seen.refs, {}, r.refs)
         /\ x.executed = Assigned(seen.executed, "none", r.executed)
         /\ x.result = Assigned(seen.result, "none", r.result)
<1> DEFINE a == Assigned(seen.payload, "none", r.payload)
           b == Assigned(seen.snapshot, "none", r.snapshot)
           c == Assigned(seen.refs, {}, r.refs)
           d == Assigned(seen.executed, "none", r.executed)
           e == Assigned(seen.result, "none", r.result)
           r1 == [r EXCEPT !.payload = a]
           r2 == [r1 EXCEPT !.snapshot = b]
           r3 == [r2 EXCEPT !.refs = c]
           r4 == [r3 EXCEPT !.executed = d]
<1>1. x = [r4 EXCEPT !.result = e]
  BY DEF Minimised, ProposalRows
<1>2. {a, b, d, e} \subseteq Contents /\ c \in SUBSET Items
  BY DEF Assigned, ProposalRows, Contents
<1> HIDE DEF a, b, c, d, e
<1>3. r1 \in ProposalRows /\ r1 = [r EXCEPT !.payload = a]
  BY <1>2 DEF ProposalRows
<1> HIDE DEF r1
<1>4. r2 \in ProposalRows /\ r2 = [r1 EXCEPT !.snapshot = b]
  BY <1>2, <1>3 DEF ProposalRows
<1> HIDE DEF r2
<1>5. r3 \in ProposalRows /\ r3 = [r2 EXCEPT !.refs = c]
  BY <1>2, <1>4 DEF ProposalRows
<1> HIDE DEF r3
<1>6. r4 \in ProposalRows /\ r4 = [r3 EXCEPT !.executed = d]
  BY <1>2, <1>5 DEF ProposalRows
<1> HIDE DEF r4
<1>7. x \in ProposalRows
  BY <1>1, <1>2, <1>6 DEF ProposalRows
<1>8. /\ x.status = r.status /\ x.approved = r.approved /\ x.outcome = r.outcome
      /\ x.payload = a /\ x.snapshot = b /\ x.refs = c /\ x.executed = d /\ x.result = e
  BY <1>1, <1>3, <1>4, <1>5, <1>6 DEF ProposalRows
<1> QED BY <1>7, <1>8 DEF a, b, c, d, e

LEMMA UndecidedFields ==
  ASSUME NEW r \in ProposalRows, NEW x, x = Undecided(r)
  PROVE  /\ x \in ProposalRows /\ x.status = r.status /\ x.approved = r.approved
         /\ x.outcome = r.outcome /\ x.refs = r.refs
         /\ x.payload = Again(r.payload) /\ x.snapshot = Again(r.snapshot)
         /\ x.executed = Again(r.executed) /\ x.result = Again(r.result)
<1> DEFINE a == Again(r.payload)
           b == Again(r.snapshot)
           d == Again(r.executed)
           e == Again(r.result)
           r1 == [r EXCEPT !.payload = a]
           r2 == [r1 EXCEPT !.snapshot = b]
           r3 == [r2 EXCEPT !.executed = d]
<1>1. x = [r3 EXCEPT !.result = e]
  BY DEF Undecided, ProposalRows
<1>2. {a, b, d, e} \subseteq Contents
  BY DEF Again, ProposalRows, Contents
<1> HIDE DEF a, b, d, e
<1>3. r1 \in ProposalRows /\ r1 = [r EXCEPT !.payload = a]
  BY <1>2 DEF ProposalRows
<1> HIDE DEF r1
<1>4. r2 \in ProposalRows /\ r2 = [r1 EXCEPT !.snapshot = b]
  BY <1>2, <1>3 DEF ProposalRows
<1> HIDE DEF r2
<1>5. r3 \in ProposalRows /\ r3 = [r2 EXCEPT !.executed = d]
  BY <1>2, <1>4 DEF ProposalRows
<1> HIDE DEF r3
<1>6. x \in ProposalRows
  BY <1>1, <1>2, <1>5 DEF ProposalRows
<1>7. /\ x.status = r.status /\ x.approved = r.approved /\ x.outcome = r.outcome
      /\ x.refs = r.refs /\ x.payload = a /\ x.snapshot = b /\ x.executed = d /\ x.result = e
  BY <1>1, <1>3, <1>4, <1>5 DEF ProposalRows
<1> QED BY <1>6, <1>7 DEF a, b, d, e

-----------------------------------------------------------------------------
(* The requests.                                                           *)

\* Edited, Approved, Rejected, Lapsed, Executed and Finishes change one row.
Touches(p) == \E row \in ProposalRows : /\ Changes(p, row)
                                        /\ Requested(p, proposal[p], row, Content)

LEMMA RowFacts ==
  ASSUME EvidenceInv, NEW p \in Proposals
  PROVE  /\ proposal[p] \in ProposalRows /\ ProposalIsSound(p, proposal[p])
         /\ Content \in Contents /\ RefsOf[p] \subseteq Items /\ RefsOf[p] # {}
<1>1. Content \in Contents
  BY ContentFacts DEF Contents
<1>2. RefsOf[p] \subseteq Items /\ RefsOf[p] # {}
  BY EvidenceIsGiven
<1> QED BY <1>1, <1>2 DEF EvidenceInv, RowsAreSound

LEMMA EditedTouches ==
  ASSUME EvidenceInv, NEW p \in Proposals, Edited(p)
  PROVE  Touches(p)
<1>1. PICK r \in ProposalRows : r = proposal[p]
  BY RowFacts
<1>2. PICK c \in Contents : c = Content
  BY RowFacts
<1>3. PICK u : u = Unsigned(r, "edited")
  OBVIOUS
<1>4. /\ u \in ProposalRows /\ u.status = "edited" /\ ~u.approved
      /\ u.payload = r.payload /\ u.snapshot = "none" /\ u.refs = r.refs
      /\ u.outcome = r.outcome /\ u.executed = r.executed /\ u.result = r.result
  BY <1>3, UnsignedFields DEF Statuses
<1>5. PICK x : x = [u EXCEPT !.payload = c]
  OBVIOUS
<1>6. /\ x \in ProposalRows /\ x.status = "edited" /\ ~x.approved
      /\ x.payload = c /\ x.snapshot = "none" /\ x.refs = r.refs
      /\ x.outcome = r.outcome /\ x.executed = r.executed /\ x.result = r.result
  BY <1>4, <1>5, OneColumn
<1>7. Changes(p, x) /\ r.status \in Open
  BY <1>1, <1>2, <1>3, <1>5 DEF Edited
<1>8. Requested(p, r, x, c)
  BY <1>1, <1>6, <1>7, RowFacts DEF Requested, ProposalIsSound, Open
<1> QED BY <1>1, <1>2, <1>6, <1>7, <1>8 DEF Touches

LEMMA ApprovedTouches ==
  ASSUME EvidenceInv, NEW p \in Proposals, Approved(p)
  PROVE  Touches(p)
<1>1. PICK r \in ProposalRows : r = proposal[p]
  BY RowFacts
<1>2. PICK c \in Contents : c = Content
  BY RowFacts
<1>3. PICK x : x = ApprovedRow(r, c)
  OBVIOUS
<1>4. /\ x \in ProposalRows /\ x.status = "approved" /\ x.approved /\ x.payload = r.payload
      /\ x.snapshot = c /\ x.refs = r.refs /\ x.outcome = r.outcome
      /\ x.executed = r.executed /\ x.result = r.result
  BY <1>3, ApprovedFields
<1>5. Changes(p, x) /\ r.status \in {"proposed", "edited"}
  BY <1>1, <1>2, <1>3 DEF Approved
<1>6. Requested(p, r, x, c)
  BY <1>1, <1>4, <1>5, RowFacts DEF Requested, ProposalIsSound
<1> QED BY <1>1, <1>2, <1>4, <1>5, <1>6 DEF Touches

LEMMA RejectedTouches ==
  ASSUME EvidenceInv, NEW p \in Proposals, Rejected(p) \/ Lapsed(p)
  PROVE  Touches(p)
<1>1. PICK r \in ProposalRows : r = proposal[p]
  BY RowFacts
<1>2. r.status \in Open
  BY <1>1 DEF Rejected, Lapsed
<1>3. CASE Changes(p, Unsigned(r, "closed"))
  <2>1. PICK x : x = Unsigned(r, "closed")
    OBVIOUS
  <2>2. /\ x \in ProposalRows /\ x.status = "closed" /\ ~x.approved
        /\ x.payload = r.payload /\ x.snapshot = "none" /\ x.refs = r.refs
        /\ x.outcome = r.outcome /\ x.executed = r.executed /\ x.result = r.result
    BY <2>1, UnsignedFields DEF Statuses
  <2>3. Requested(p, r, x, Content)
    BY <1>1, <1>2, <2>2, RowFacts DEF Requested, ProposalIsSound, Open
  <2> QED BY <1>1, <1>3, <2>1, <2>2, <2>3 DEF Touches
<1>4. CASE Changes(p, [r EXCEPT !.status = "closed"])
  <2>1. PICK x : x = [r EXCEPT !.status = "closed"]
    OBVIOUS
  <2>2. /\ x \in ProposalRows /\ x.status = "closed" /\ x.approved = r.approved
        /\ x.payload = r.payload /\ x.snapshot = r.snapshot /\ x.refs = r.refs
        /\ x.outcome = r.outcome /\ x.executed = r.executed /\ x.result = r.result
    BY <2>1, OneColumn DEF Statuses
  <2>3. Requested(p, r, x, Content)
    BY <1>1, <1>2, <2>2, RowFacts DEF Requested, ProposalIsSound, Open
  <2> QED BY <1>1, <1>4, <2>1, <2>2, <2>3 DEF Touches
<1> QED BY <1>1, <1>3, <1>4 DEF Rejected, Lapsed

LEMMA ExecutedTouches ==
  ASSUME EvidenceInv, NEW p \in Proposals, Executed(p)
  PROVE  Touches(p)
<1>1. PICK r \in ProposalRows : r = proposal[p]
  BY RowFacts
<1>2. PICK c \in Contents : c = Content
  BY RowFacts
<1>3. r.status = "approved"
  BY <1>1 DEF Executed
<1>4. CASE Changes(p, Attempted(r, c))
  <2>1. PICK x : x = Attempted(r, c)
    OBVIOUS
  <2>2. /\ x \in ProposalRows /\ x.status = "executing" /\ x.approved = r.approved
        /\ x.payload = r.payload /\ x.snapshot = r.snapshot /\ x.refs = r.refs
        /\ x.outcome = "pending" /\ x.executed = c /\ x.result = r.result
    BY <2>1, AttemptedFields
  <2>3. Requested(p, r, x, c)
    BY <1>1, <1>3, <2>2, RowFacts DEF Requested, ProposalIsSound
  <2> QED BY <1>1, <1>2, <1>4, <2>1, <2>2, <2>3 DEF Touches
<1>5. CASE Changes(p, Unsigned(r, "edited"))
  <2>1. PICK x : x = Unsigned(r, "edited")
    OBVIOUS
  <2>2. /\ x \in ProposalRows /\ x.status = "edited" /\ ~x.approved
        /\ x.payload = r.payload /\ x.snapshot = "none" /\ x.refs = r.refs
        /\ x.outcome = r.outcome /\ x.executed = r.executed /\ x.result = r.result
    BY <2>1, UnsignedFields DEF Statuses
  <2>3. Requested(p, r, x, c)
    BY <1>1, <1>3, <2>2, RowFacts DEF Requested, ProposalIsSound
  <2> QED BY <1>1, <1>2, <1>5, <2>1, <2>2, <2>3 DEF Touches
<1> QED BY <1>1, <1>2, <1>4, <1>5 DEF Executed

LEMMA FinishesTouches ==
  ASSUME EvidenceInv, NEW p \in Proposals, Finishes(p)
  PROVE  Touches(p)
<1>1. PICK r \in ProposalRows : r = proposal[p]
  BY RowFacts
<1>2. PICK c \in Contents : c = Content
  BY RowFacts
<1>3. PICK o \in {"terminal", "uncertain"} :
        /\ r.outcome = "pending"
        /\ Changes(p, Finished(r, o, c))
  BY <1>1, <1>2 DEF Finishes, Finished
<1>4. PICK x : x = Finished(r, o, c)
  OBVIOUS
<1>5. /\ x \in ProposalRows /\ x.status = IF o = "uncertain" THEN r.status ELSE "ended"
      /\ x.approved = r.approved /\ x.payload = r.payload /\ x.snapshot = r.snapshot
      /\ x.refs = r.refs /\ x.outcome = o /\ x.executed = r.executed /\ x.result = c
  BY <1>4, FinishedFields
<1>6. Requested(p, r, x, c)
  BY <1>1, <1>3, <1>5, RowFacts DEF Requested, ProposalIsSound
<1> QED BY <1>1, <1>2, <1>3, <1>4, <1>5, <1>6 DEF Touches

\* A generation offers a proposal, or renews one that nobody has touched.
LEMMA RenewedIsRequested ==
  ASSUME EvidenceInv, NEW p \in Proposals, Renewable(p)
  PROVE  Renewed(p) \in ProposalRows /\ Requested(p, proposal[p], Renewed(p), Content)
<1>1. PICK r \in ProposalRows : r = proposal[p]
  BY RowFacts
<1>2. PICK made \in Int : made = IF r.status = "absent" THEN now ELSE r.made
  BY DEF ProposalRows, EvidenceInv
<1>3. PICK c \in Contents : c = Content
  BY RowFacts
<1>4. PICK x : x = Renewed(p)
  OBVIOUS
<1>5. /\ x \in ProposalRows /\ x.status = "proposed" /\ ~x.approved /\ x.payload = c
      /\ x.snapshot = "none" /\ x.refs = RefsOf[p] /\ x.outcome = "none"
      /\ x.executed = "none" /\ x.result = "none"
  BY <1>1, <1>2, <1>3, <1>4, OfferedFields DEF Renewed
<1>6. r.status \in {"absent", "proposed"} /\ r.outcome = "none"
  BY <1>1, RowFacts DEF Renewable, ProposalIsSound
<1>7. Requested(p, r, x, c)
  BY <1>5, <1>6 DEF Requested, ProposalIsSound
<1> QED BY <1>1, <1>3, <1>4, <1>5, <1>7

\* What the requests do, one of them at a time, a generation to many rows.
RequestsMove ==
  /\ UNCHANGED <<type, pool, op, connected>> /\ now' \in Int
  /\ DOMAIN stored' = Items
  /\ ~connected => stored' = stored
  /\ proposal' \in [Proposals -> ProposalRows] /\ signal' \in [Signals -> SignalRows]
  /\ \A p \in Proposals :
       proposal'[p] = proposal[p] \/ Requested(p, proposal[p], proposal'[p], Content)
  /\ \A s \in Signals :
       \/ signal'[s] = signal[s]
       \/ s \in pool /\ ~signal[s].there /\ signal'[s] = Row(s, DecidedSignals)

LEMMA TouchesMoves ==
  ASSUME EvidenceInv, NEW p \in Proposals, Touches(p)
  PROVE  RequestsMove
<1>1. PICK row \in ProposalRows : Changes(p, row) /\ Requested(p, proposal[p], row, Content)
  BY DEF Touches
<1>2. proposal' = [proposal EXCEPT ![p] = row]
      /\ UNCHANGED <<type, pool, op, connected, now, stored, signal>>
  BY <1>1 DEF Changes, Elsewhere
<1>3. /\ proposal' \in [Proposals -> ProposalRows] /\ proposal'[p] = row
      /\ \A q \in Proposals : q # p => proposal'[q] = proposal[q]
  BY <1>2 DEF EvidenceInv
<1> QED BY <1>1, <1>2, <1>3 DEF RequestsMove, EvidenceInv

LEMMA RowOfSignal ==
  ASSUME NEW s \in Signals, NEW late \in BOOLEAN
  PROVE  /\ Row(s, late) \in SignalRows /\ Row(s, late).there
         /\ Row(s, late).refs = RefsOf[s] /\ (Row(s, late).late <=> late)
BY EvidenceIsGiven DEF Row, SignalRows

LEMMA GenerationMoves ==
  ASSUME EvidenceInv, GenerationCommits
  PROVE  RequestsMove
<1>1. PICK offered \in SUBSET Proposals :
        /\ \A p \in offered : Renewable(p)
        /\ signal' = [s \in Signals |-> IF s \in pool /\ RefsOf[s] \subseteq gen /\ ~signal[s].there
                                         THEN Row(s, DecidedSignals) ELSE signal[s]]
        /\ proposal' = [p \in Proposals |-> IF p \in offered THEN Renewed(p) ELSE proposal[p]]
        /\ Elsewhere /\ UNCHANGED <<now, stored, fetched>>
  BY DEF GenerationCommits
<1>2. /\ \A p \in Proposals : proposal'[p] \in ProposalRows
      /\ \A p \in Proposals :
           proposal'[p] = proposal[p] \/ Requested(p, proposal[p], proposal'[p], Content)
  BY <1>1, RowFacts, RenewedIsRequested
<1>3. DecidedSignals \in BOOLEAN
  BY DEF DecidedSignals
<1>4. /\ \A s \in Signals : signal'[s] \in SignalRows
      /\ \A s \in Signals : \/ signal'[s] = signal[s]
                            \/ s \in pool /\ ~signal[s].there /\ signal'[s] = Row(s, DecidedSignals)
  BY <1>1, <1>3, RowOfSignal DEF EvidenceInv
<1>5. proposal' \in [Proposals -> ProposalRows] /\ signal' \in [Signals -> SignalRows]
  BY <1>1, <1>2, <1>4
<1> QED BY <1>1, <1>2, <1>4, <1>5 DEF RequestsMove, Elsewhere, EvidenceInv

LEMMA OthersMove ==
  ASSUME EvidenceInv,
         \/ \E i \in Items : SyncBegins(i)
         \/ SyncEnds \/ GenerationBegins \/ GenerationFails \/ TimePasses
  PROVE  RequestsMove
<1>1. /\ UNCHANGED <<type, pool, op, connected, signal, proposal>>
      /\ now' = now \/ now' = now + 1
      /\ \/ stored' = stored
         \/ connected /\ stored' = [stored EXCEPT ![fetched.item] = fetched.created]
  BY DEF SyncBegins, SyncEnds, GenerationBegins, GenerationFails, TimePasses, Elsewhere
<1>2. now' \in Int /\ DOMAIN stored' = Items /\ (~connected => stored' = stored)
  BY <1>1 DEF EvidenceInv
<1> QED BY <1>1, <1>2 DEF RequestsMove, EvidenceInv

LEMMA RequestsAreMoves ==
  ASSUME EvidenceInv, Next
  PROVE  Works \/ Dies \/ RequestsMove
BY EditedTouches, ApprovedTouches, RejectedTouches, ExecutedTouches, FinishesTouches,
   TouchesMoves, GenerationMoves, OthersMove
   DEF Next, Edits, Approves, Rejects, Lapses, Executes

\* A request keeps what is said of a row: it writes what is late once the
\* operation has decided.
LEMMA RequestKeepsRow ==
  ASSUME NEW p \in Proposals, NEW r, ProposalIsSound(p, r), NEW row,
         NEW c \in {"old", "late"}, row = r \/ Requested(p, r, row, c)
  PROVE  /\ ProposalIsSound(p, row)
         /\ c = "old" /\ Fresh(p, r) => Fresh(p, row)
         /\ r.status # "absent" => row.status # "absent"
         /\ c = "late" =>
              /\ \A removed : PrunedProposal(r, removed) => PrunedProposal(row, removed)
              /\ ErasedProposal(r) => ErasedProposal(row)
              /\ \A seen : Since(r, seen) => Since(row, seen)
              /\ (r.status # "absent" => r.refs = RefsOf[p]) =>
                   (row.status # "absent" => row.refs = RefsOf[p])
<1>1. CASE row = r
  BY <1>1
<1>2. CASE Requested(p, r, row, c)
  <2>1. RefsOf[p] # {}
    BY EvidenceIsGiven
  <2>2. ProposalIsSound(p, row) /\ (r.status # "absent" => row.status # "absent")
    BY <1>2 DEF Requested
  <2>3. c = "old" /\ Fresh(p, r) => Fresh(p, row)
    BY <1>2 DEF Requested, Fresh, Kept
  <2>4. ASSUME c = "late", NEW removed, PrunedProposal(r, removed)
        PROVE  PrunedProposal(row, removed)
    BY <1>2, <2>1, <2>4 DEF Requested, PrunedProposal, Kept
  <2>5. ASSUME c = "late", ErasedProposal(r)
        PROVE  ErasedProposal(row)
    BY <1>2, <2>5 DEF Requested, ErasedProposal, Kept
  <2>6. ASSUME c = "late", NEW seen, Since(r, seen)
        PROVE  Since(row, seen)
    BY <1>2, <2>6 DEF Requested, Since
  <2>7. (r.status # "absent" => r.refs = RefsOf[p]) =>
          (row.status # "absent" => row.refs = RefsOf[p])
    BY <1>2 DEF Requested
  <2> QED BY <2>2, <2>3, <2>4, <2>5, <2>6, <2>7
<1> QED BY <1>1, <1>2

LEMMA RequestsKeep ==
  ASSUME EvidenceInv, RequestsMove
  PROVE  EvidenceInv'
<1>1. /\ Decided' = Decided /\ DecidedSignals' = DecidedSignals
      /\ UNCHANGED <<type, pool, op, connected>>
  BY DEF RequestsMove, Decided, DecidedSignals
<1>2. PICK c \in {"old", "late"} : c = Content
  BY ContentFacts
<1>3. ASSUME NEW p \in Proposals
      PROVE  /\ ProposalIsSound(p, proposal[p])
             /\ proposal'[p] = proposal[p] \/ Requested(p, proposal[p], proposal'[p], c)
  BY <1>2 DEF RequestsMove, EvidenceInv, RowsAreSound
<1>4. ASSUME NEW s \in Signals
      PROVE  \/ signal'[s] = signal[s]
             \/ /\ s \in pool /\ ~signal[s].there /\ signal'[s] \in SignalRows
                /\ signal'[s].there /\ signal'[s].refs = RefsOf[s] /\ RefsOf[s] # {}
                /\ signal'[s].late = DecidedSignals
  <2>1. DecidedSignals \in BOOLEAN
    BY DEF DecidedSignals
  <2> QED BY <2>1, RowOfSignal, EvidenceIsGiven DEF RequestsMove, SignalRows
<1>5. RowsAreSound'
  <2>1. \A p \in Proposals : ProposalIsSound(p, proposal'[p])
    BY <1>3, RequestKeepsRow
  <2>2. \A s \in Signals : SignalIsSound(s, signal'[s])
    BY <1>4 DEF EvidenceInv, RowsAreSound, SignalIsSound
  <2> QED BY <1>1, <2>1, <2>2 DEF RowsAreSound, ProposalIsSound, SignalIsSound
<1>6. CursorIsSound'
  BY <1>1 DEF EvidenceInv, CursorIsSound
<1>7. SeenIsSound'
  <2> SUFFICES ASSUME op.step = "classified"
               PROVE  /\ \A p \in Proposals : 
                           /\ Since(proposal'[p], op.seen[p])
                           /\ proposal'[p].status # "absent" => proposal'[p].refs = RefsOf[p]
                      /\ op.phase = "derived" =>
                           \A s \in Signals : /\ ~signal'[s].late => signal'[s] = op.signals[s]
                                              /\ op.signals[s].there => signal'[s] = op.signals[s]
                                              /\ signal'[s].there => signal'[s].refs = RefsOf[s]
    <3>1. SeenIsSound
      BY DEF EvidenceInv
    <3> QED BY <1>1, <3>1 DEF SeenIsSound, ProposalIsSound, SignalIsSound, Fresh, Since
  <2>1. c = "late" /\ DecidedSignals
    BY <1>2, ContentFacts DEF Decided, DecidedSignals
  <2>2. SeenIsSound
    BY DEF EvidenceInv
  <2>3. ASSUME NEW p \in Proposals
        PROVE  /\ Since(proposal'[p], op.seen[p])
               /\ proposal'[p].status # "absent" => proposal'[p].refs = RefsOf[p]
    <3>1. /\ Since(proposal[p], op.seen[p])
          /\ proposal[p].status # "absent" => proposal[p].refs = RefsOf[p]
      BY <2>2 DEF SeenIsSound
    <3> QED BY <1>3, <2>1, <3>1, RequestKeepsRow
  <2>4. ASSUME op.phase = "derived", NEW s \in Signals
        PROVE  /\ ~signal'[s].late => signal'[s] = op.signals[s]
               /\ op.signals[s].there => signal'[s] = op.signals[s]
               /\ signal'[s].there => signal'[s].refs = RefsOf[s]
    <3>1. /\ ~signal[s].late => signal[s] = op.signals[s]
          /\ op.signals[s].there => signal[s] = op.signals[s]
          /\ signal[s].there => signal[s].refs = RefsOf[s]
      BY <2>2, <2>4 DEF SeenIsSound
    <3> QED BY <1>4, <2>1, <3>1
  <2> QED BY <2>3, <2>4
<1>8. UndecidedIsFresh'
  <2>1. ASSUME ~Decided, NEW p \in Proposals
        PROVE  Fresh(p, proposal'[p])
    <3>1. c = "old" /\ Fresh(p, proposal[p])
      BY <1>2, <2>1, ContentFacts DEF EvidenceInv, UndecidedIsFresh
    <3> QED BY <1>3, <3>1, RequestKeepsRow
  <2>2. ASSUME ~DecidedSignals, NEW s \in Signals
        PROVE  FreshSignal(s, signal'[s])
    <3>1. FreshSignal(s, signal[s])
      BY <2>2 DEF EvidenceInv, UndecidedIsFresh
    <3> QED BY <1>4, <2>2, <3>1 DEF FreshSignal
  <2> QED BY <1>1, <2>1, <2>2 DEF UndecidedIsFresh, Fresh, FreshSignal, Kept
<1>9. DecidedIsPruned'
  <2> SUFFICES ASSUME type # "account", op.phase \in {"sources", "done"}
               PROVE  /\ \A s \in Signals : PrunedSignal(signal'[s], op.removed)
                      /\ \A p \in Proposals : PrunedProposal(proposal'[p], op.removed)
    BY <1>1 DEF DecidedIsPruned, PrunedSignal, PrunedProposal, Kept
  <2>1. c = "late" /\ DecidedSignals
    BY <1>2, ContentFacts DEF Decided, DecidedSignals
  <2>2. DecidedIsPruned
    BY DEF EvidenceInv
  <2>3. ASSUME NEW p \in Proposals
        PROVE  PrunedProposal(proposal'[p], op.removed)
    <3>1. PrunedProposal(proposal[p], op.removed)
      BY <2>2 DEF DecidedIsPruned
    <3> QED BY <1>3, <2>1, <3>1, RequestKeepsRow
  <2>4. ASSUME NEW s \in Signals
        PROVE  PrunedSignal(signal'[s], op.removed)
    BY <1>4, <2>1, <2>2 DEF DecidedIsPruned, PrunedSignal
  <2> QED BY <2>3, <2>4
<1>10. ErasedIsEmpty'
  <2> SUFFICES ASSUME type = "account", op.phase # "credentials"
               PROVE  /\ ~connected
                      /\ op.phase \in {"minimise", "finalise", "done"} =>
                           /\ {i \in Items : stored'[i] # Null} = {}
                           /\ \A s \in Signals : signal'[s].there => signal'[s].late
                      /\ op.phase \in {"finalise", "done"} =>
                           \A p \in Proposals : ErasedProposal(proposal'[p])
    BY <1>1 DEF ErasedIsEmpty, ErasedProposal, Kept, Live
  <2>1. ErasedIsEmpty
    BY DEF EvidenceInv
  <2>2. ~connected /\ stored' = stored
    BY <2>1 DEF ErasedIsEmpty, RequestsMove
  <2>3. ASSUME op.phase \in {"minimise", "finalise", "done"}
        PROVE  /\ {i \in Items : stored'[i] # Null} = {}
               /\ \A s \in Signals : signal'[s].there => signal'[s].late
    <3>1. DecidedSignals
      BY <2>3 DEF DecidedSignals
    <3> QED BY <1>4, <2>1, <2>2, <2>3, <3>1 DEF ErasedIsEmpty, Live
  <2>4. ASSUME op.phase \in {"finalise", "done"}, NEW p \in Proposals
        PROVE  ErasedProposal(proposal'[p])
    <3>1. c = "late" /\ ErasedProposal(proposal[p])
      BY <1>2, <2>1, <2>4, ContentFacts DEF Decided, ErasedIsEmpty
    <3> QED BY <1>3, <3>1, RequestKeepsRow
  <2> QED BY <2>2, <2>3, <2>4
<1> QED BY <1>1, <1>5, <1>6, <1>7, <1>8, <1>9, <1>10 DEF EvidenceInv, RequestsMove

-----------------------------------------------------------------------------
(* The operation.                                                          *)

LEMMA CursorFacts ==
  ASSUME EvidenceInv
  PROVE  op \in Cursors /\ type \in {"imported", "retention", "account"} /\ Confirmed \in Int
BY DaysAreNumbers DEF EvidenceInv, CursorIsSound

LEMMA BetweenFields ==
  ASSUME op \in Cursors, NEW phase \in Phases, NEW x, x = Between(phase)
  PROVE  /\ x \in Cursors /\ x.phase = phase /\ x.step = "ready" /\ x.at = op.at
         /\ x.removed = {} /\ x.surviving = {} /\ x.crashes = op.crashes
<1> DEFINE o1 == [op EXCEPT !.phase = phase]
           o2 == [o1 EXCEPT !.step = "ready"]
           o3 == [o2 EXCEPT !.removed = {}]
           o4 == [o3 EXCEPT !.surviving = {}]
           o5 == [o4 EXCEPT !.seen = Null]
<1>1. x = [o5 EXCEPT !.signals = Null]
  BY DEF Between, Cursors
<1>2. o1 \in Cursors /\ o1.phase = phase /\ o1.at = op.at /\ o1.crashes = op.crashes
  BY DEF Cursors
<1> HIDE DEF o1
<1>3. /\ o2 \in Cursors /\ o2.phase = phase /\ o2.at = op.at /\ o2.crashes = op.crashes
      /\ o2.step = "ready"
  BY <1>2 DEF Cursors
<1> HIDE DEF o2
<1>4. /\ o3 \in Cursors /\ o3.phase = phase /\ o3.at = op.at /\ o3.crashes = op.crashes
      /\ o3.step = "ready" /\ o3.removed = {}
  BY <1>3 DEF Cursors
<1> HIDE DEF o3
<1>5. /\ o4 \in Cursors /\ o4.phase = phase /\ o4.at = op.at /\ o4.crashes = op.crashes
      /\ o4.step = "ready" /\ o4.removed = {} /\ o4.surviving = {}
  BY <1>4 DEF Cursors
<1> HIDE DEF o4
<1>6. /\ o5 \in Cursors /\ o5.phase = phase /\ o5.at = op.at /\ o5.crashes = op.crashes
      /\ o5.step = "ready" /\ o5.removed = {} /\ o5.surviving = {}
  BY <1>5 DEF Cursors
<1> HIDE DEF o5
<1> QED BY <1>1, <1>6 DEF Cursors

\* One field of a cursor.
LEMMA OneField ==
  ASSUME NEW o \in Cursors
  PROVE  /\ \A step \in {"idle", "ready", "read", "classified"} : \A x : x = [o EXCEPT !.step = step] =>
              /\ x \in Cursors /\ x.step = step /\ x.phase = o.phase /\ x.at = o.at
              /\ x.removed = o.removed /\ x.surviving = o.surviving /\ x.crashes = o.crashes
         /\ \A at \in Int : \A x : x = [o EXCEPT !.at = at] =>
              /\ x \in Cursors /\ x.step = o.step /\ x.phase = o.phase
              /\ x.removed = o.removed /\ x.surviving = o.surviving /\ x.crashes = o.crashes
         /\ \A removed \in SUBSET Items : \A x : x = [o EXCEPT !.removed = removed] =>
              /\ x \in Cursors /\ x.step = o.step /\ x.phase = o.phase /\ x.at = o.at
              /\ x.removed = removed /\ x.surviving = o.surviving /\ x.crashes = o.crashes
         /\ \A surviving \in SUBSET Items : \A x : x = [o EXCEPT !.surviving = surviving] =>
              /\ x \in Cursors /\ x.step = o.step /\ x.phase = o.phase /\ x.at = o.at
              /\ x.removed = o.removed /\ x.surviving = surviving /\ x.crashes = o.crashes
         /\ \A crashes \in Int : \A x : x = [o EXCEPT !.crashes = crashes] =>
              /\ x \in Cursors /\ x.step = o.step /\ x.phase = o.phase /\ x.at = o.at
              /\ x.removed = o.removed /\ x.surviving = o.surviving
BY DEF Cursors

\* The cursor moves over rows that stay.
LEMMA CursorMoves ==
  ASSUME EvidenceInv, UNCHANGED <<type, pool, now, signal, proposal>>,
         connected' \in BOOLEAN, DOMAIN stored' = Items,
         CursorIsSound', op'.step # "classified",
         ~Decided' => ~Decided, ~DecidedSignals' => ~DecidedSignals,
         type # "account" /\ op'.phase \in {"sources", "done"} =>
           op.phase \in {"sources", "done"} /\ op'.removed = op.removed,
         type = "account" =>
           /\ op'.phase # "credentials" => ~connected'
           /\ op'.phase \in {"minimise", "finalise", "done"} =>
                op.phase \in {"minimise", "finalise", "done"} /\ stored' = stored
           /\ op'.phase \in {"finalise", "done"} => op.phase \in {"finalise", "done"}
  PROVE  EvidenceInv'
<1>1. RowsAreSound'
  BY DEF EvidenceInv, RowsAreSound, ProposalIsSound, SignalIsSound
<1>2. SeenIsSound'
  BY DEF SeenIsSound
<1>3. UndecidedIsFresh'
  BY DEF EvidenceInv, UndecidedIsFresh, Fresh, FreshSignal, Kept
<1>4. DecidedIsPruned'
  <2>1. DecidedIsPruned
    BY DEF EvidenceInv
  <2> QED BY <2>1 DEF DecidedIsPruned, PrunedSignal, PrunedProposal, Kept
<1>5. ErasedIsEmpty'
  <2>1. ErasedIsEmpty
    BY DEF EvidenceInv
  <2> QED BY <2>1 DEF ErasedIsEmpty, ErasedProposal, Kept, Live
<1> QED BY <1>1, <1>2, <1>3, <1>4, <1>5 DEF EvidenceInv

LEMMA ClaimsKeeps ==
  ASSUME EvidenceInv, Claims
  PROVE  EvidenceInv'
<1>1. UNCHANGED <<type, pool, now, signal, proposal, stored, connected>>
  BY DEF Claims, Others, data
<1>2. op.step = "idle" /\ op.phase # "done"
  BY DEF Claims, Claimable
<1>3. PICK at \in Int : op' = [op EXCEPT !.step = "ready", !.at = at]
  BY CursorFacts DEF Claims, Cursors, EvidenceInv
<1>4. PICK y : y = [op EXCEPT !.step = "ready"]
  OBVIOUS
<1>5. op' = [y EXCEPT !.at = at]
  BY <1>3, <1>4, CursorFacts DEF Cursors
<1>6. /\ op' \in Cursors /\ op'.step = "ready" /\ op'.phase = op.phase
      /\ op'.removed = op.removed /\ op'.surviving = op.surviving
  <2>1. /\ y \in Cursors /\ y.step = "ready" /\ y.phase = op.phase
        /\ y.removed = op.removed /\ y.surviving = op.surviving
    BY <1>4, CursorFacts, OneField
  <2> QED BY <1>5, <2>1, OneField
<1>7. CursorIsSound'
  BY <1>1, <1>2, <1>6 DEF EvidenceInv, CursorIsSound
<1> QED BY <1>1, <1>2, <1>6, <1>7, CursorMoves
        DEF EvidenceInv, Decided, DecidedSignals, ErasedIsEmpty

LEMMA ReadsKeeps ==
  ASSUME EvidenceInv, ReadsEvidence
  PROVE  EvidenceInv'
<1>1. UNCHANGED <<type, pool, now, signal, proposal, stored, connected>>
  BY DEF ReadsEvidence, Others, data
<1>2. op.step = "ready" /\ op.phase = "derived"
  BY DEF ReadsEvidence
<1>3. PICK removed \in SUBSET Items : removed = Removed
  BY DEF Removed
<1>4. PICK surviving \in SUBSET Items : surviving = Live \ removed
  BY DEF Live
<1>5. op' = [op EXCEPT !.step = "read", !.removed = removed, !.surviving = surviving]
  BY <1>3, <1>4 DEF ReadsEvidence
<1>6. PICK y : y = [op EXCEPT !.step = "read"]
  OBVIOUS
<1>7. PICK z : z = [y EXCEPT !.removed = removed]
  OBVIOUS
<1>8. op' = [z EXCEPT !.surviving = surviving]
  BY <1>5, <1>6, <1>7, CursorFacts DEF Cursors
<1>9. y \in Cursors /\ y.step = "read" /\ y.phase = op.phase
  BY <1>6, CursorFacts, OneField
<1>10. z \in Cursors /\ z.step = "read" /\ z.phase = op.phase /\ z.removed = removed
  BY <1>7, <1>9, OneField
<1>11. /\ op' \in Cursors /\ op'.step = "read" /\ op'.phase = op.phase
       /\ op'.removed = removed /\ op'.surviving = surviving
  BY <1>8, <1>10, OneField
<1>12. CursorIsSound'
  BY <1>1, <1>2, <1>4, <1>11 DEF EvidenceInv, CursorIsSound
<1> QED BY <1>1, <1>2, <1>11, <1>12, CursorMoves
        DEF EvidenceInv, CursorIsSound, Decided, DecidedSignals

LEMMA DeletesKeeps ==
  ASSUME EvidenceInv, DeletesSources
  PROVE  EvidenceInv'
<1>1. /\ UNCHANGED <<type, pool, now, signal, proposal, connected>>
      /\ op.step = "ready" /\ op.phase = "sources"
  BY DEF DeletesSources, Others
<1>2. type # "account"
  BY <1>1 DEF EvidenceInv, CursorIsSound
<1>3. DOMAIN stored' = Items
  BY DEF DeletesSources, Erases, EvidenceInv
<1>4. CASE op' = op
  <2>1. CursorIsSound'
    BY <1>1, <1>4 DEF EvidenceInv, CursorIsSound
  <2> QED BY <1>1, <1>2, <1>3, <1>4, <2>1, CursorMoves DEF EvidenceInv, Decided, DecidedSignals
<1>5. CASE op' = [Between("done") EXCEPT !.step = "idle", !.at = Confirmed, !.removed = op.removed]
  <2>1. PICK removed \in SUBSET Items : removed = op.removed
    BY CursorFacts DEF Cursors
  <2>2. PICK x : x = Between("done")
    OBVIOUS
  <2>3. x \in Cursors /\ x.phase = "done"
    BY <2>2, CursorFacts, BetweenFields DEF Phases
  <2>4. PICK y : y = [x EXCEPT !.step = "idle"]
    OBVIOUS
  <2>5. PICK z : z = [y EXCEPT !.at = Confirmed]
    OBVIOUS
  <2>6. op' = [z EXCEPT !.removed = removed]
    BY <1>5, <2>1, <2>2, <2>3, <2>4, <2>5 DEF Cursors
  <2>7. y \in Cursors /\ y.step = "idle" /\ y.phase = "done"
    BY <2>3, <2>4, OneField
  <2>8. z \in Cursors /\ z.step = "idle" /\ z.phase = "done"
    BY <2>5, <2>7, CursorFacts, OneField
  <2>9. op' \in Cursors /\ op'.step = "idle" /\ op'.phase = "done" /\ op'.removed = removed
    BY <2>6, <2>8, OneField
  <2>10. CursorIsSound'
    BY <1>1, <1>2, <2>9 DEF CursorIsSound
  <2> QED BY <1>1, <1>2, <1>3, <2>1, <2>9, <2>10, CursorMoves
          DEF EvidenceInv, Decided, DecidedSignals
<1> QED BY <1>4, <1>5 DEF DeletesSources

LEMMA CredentialsKeeps ==
  ASSUME EvidenceInv, ErasesCredentials
  PROVE  EvidenceInv'
<1>1. /\ UNCHANGED <<type, pool, now, signal, proposal, stored>> /\ connected' = FALSE
      /\ op.step = "ready" /\ op.phase = "credentials" /\ op' = Between("product")
  BY DEF ErasesCredentials, Others
<1>2. type = "account"
  BY <1>1 DEF EvidenceInv, CursorIsSound
<1>3. op' \in Cursors /\ op'.phase = "product" /\ op'.step = "ready"
  BY <1>1, CursorFacts, BetweenFields DEF Phases
<1>4. CursorIsSound'
  BY <1>1, <1>2, <1>3 DEF CursorIsSound
<1> QED BY <1>1, <1>2, <1>3, <1>4, CursorMoves DEF EvidenceInv, Decided, DecidedSignals

LEMMA FinalisesKeeps ==
  ASSUME EvidenceInv, Finalises
  PROVE  EvidenceInv'
<1>1. /\ UNCHANGED <<type, pool, now, signal, proposal, stored, connected>>
      /\ op.step = "ready" /\ op.phase = "finalise"
      /\ op' = [Between("done") EXCEPT !.step = "idle"]
  BY DEF Finalises, Others, data
<1>2. type = "account" /\ ~connected
  BY <1>1 DEF EvidenceInv, CursorIsSound, ErasedIsEmpty
<1>3. PICK x : x = Between("done")
  OBVIOUS
<1>4. x \in Cursors /\ x.phase = "done"
  BY <1>3, CursorFacts, BetweenFields DEF Phases
<1>5. op' \in Cursors /\ op'.phase = "done" /\ op'.step = "idle"
  BY <1>1, <1>3, <1>4, OneField
<1>6. CursorIsSound'
  BY <1>1, <1>2, <1>5 DEF CursorIsSound
<1> QED BY <1>1, <1>2, <1>5, <1>6, CursorMoves DEF EvidenceInv, Decided, DecidedSignals

LEMMA ProductKeeps ==
  ASSUME EvidenceInv, ErasesProduct
  PROVE  EvidenceInv'
<1>1. /\ UNCHANGED <<type, pool, now, proposal, connected>>
      /\ op.step = "ready" /\ op.phase = "product"
  BY DEF ErasesProduct, Others
<1>2. type = "account" /\ ~connected
  BY <1>1 DEF EvidenceInv, CursorIsSound, ErasedIsEmpty
<1>3. CASE Live # {}
  <2>1. UNCHANGED <<op, signal>> /\ DOMAIN stored' = Items
    BY <1>3 DEF ErasesProduct, Erases
  <2>2. CursorIsSound'
    BY <1>1, <2>1 DEF EvidenceInv, CursorIsSound
  <2> QED BY <1>1, <1>2, <2>1, <2>2, CursorMoves DEF EvidenceInv, Decided, DecidedSignals
<1>4. CASE Live = {}
  <2>1. /\ op' = Between("minimise") /\ signal' = [s \in Signals |-> NoSignal]
        /\ stored' = stored
    BY <1>4 DEF ErasesProduct
  <2>2. op' \in Cursors /\ op'.phase = "minimise" /\ op'.step = "ready"
    BY <2>1, CursorFacts, BetweenFields DEF Phases
  <2>3. CursorIsSound'
    BY <1>1, <1>2, <2>2 DEF CursorIsSound
  <2>4. RowsAreSound' /\ signal' \in [Signals -> SignalRows]
    BY <1>1, <2>1, NothingFields DEF EvidenceInv, RowsAreSound, ProposalIsSound, SignalIsSound
  <2>5. SeenIsSound'
    BY <2>2 DEF SeenIsSound
  <2>6. UndecidedIsFresh'
    <3>1. ~Decided /\ ~Decided' /\ DecidedSignals'
      BY <1>1, <2>2 DEF Decided, DecidedSignals
    <3> QED BY <1>1, <3>1 DEF EvidenceInv, UndecidedIsFresh, Fresh, Kept
  <2>7. DecidedIsPruned'
    BY <1>1, <1>2 DEF DecidedIsPruned
  <2>8. ErasedIsEmpty'
    BY <1>1, <1>2, <1>4, <2>1, <2>2, NothingFields DEF ErasedIsEmpty, Live
  <2> QED BY <1>1, <2>1, <2>3, <2>4, <2>5, <2>6, <2>7, <2>8 DEF EvidenceInv
<1> QED BY <1>3, <1>4

LEMMA ClassifiesKeeps ==
  ASSUME EvidenceInv, Classifies
  PROVE  EvidenceInv'
<1>1. /\ UNCHANGED <<type, pool, now, signal, proposal, stored, connected>>
      /\ \/ op.phase = "derived" /\ op.step = "read"
         \/ op.phase = "minimise" /\ op.step = "ready"
  BY DEF Classifies, Others, data
<1>2. PICK p0 \in [Proposals -> ProposalRows] : p0 = proposal
  BY DEF EvidenceInv
<1>3. PICK s0 \in [Signals -> SignalRows] : s0 = signal
  BY DEF EvidenceInv
<1>4. PICK y : y = [op EXCEPT !.step = "classified"]
  OBVIOUS
<1>5. PICK z : z = [y EXCEPT !.seen = p0]
  OBVIOUS
<1>6. op' = [z EXCEPT !.signals = s0]
  BY <1>2, <1>3, <1>4, <1>5, CursorFacts DEF Classifies, Cursors
<1>7. /\ y \in Cursors /\ y.step = "classified" /\ y.phase = op.phase
      /\ y.removed = op.removed /\ y.surviving = op.surviving
  BY <1>4, CursorFacts, OneField
<1>8. /\ z \in Cursors /\ z.step = "classified" /\ z.phase = op.phase
      /\ z.removed = op.removed /\ z.surviving = op.surviving /\ z.seen = p0
  BY <1>5, <1>7 DEF Cursors
<1>9. /\ op' \in Cursors /\ op'.step = "classified" /\ op'.phase = op.phase
      /\ op'.removed = op.removed /\ op'.surviving = op.surviving
      /\ op'.seen = p0 /\ op'.signals = s0
  BY <1>6, <1>8 DEF Cursors
<1>10. CursorIsSound'
  BY <1>1, <1>9 DEF EvidenceInv, CursorIsSound
<1>11. RowsAreSound'
  BY <1>1 DEF EvidenceInv, RowsAreSound, ProposalIsSound, SignalIsSound
<1>12. /\ ~Decided /\ Decided' /\ DecidedSignals' /\ (op.phase = "derived" => ~DecidedSignals)
  BY <1>1, <1>9 DEF Decided, DecidedSignals
<1>13. SeenIsSound'
  <2>1. ASSUME NEW p \in Proposals
        PROVE  /\ ProposalIsSound(p, p0[p]) /\ Fresh(p, p0[p]) /\ Since(p0[p], p0[p])
               /\ p0[p].status # "absent" => p0[p].refs = RefsOf[p]
    <3>1. ProposalIsSound(p, p0[p]) /\ Fresh(p, p0[p])
      BY <1>2, <1>12 DEF EvidenceInv, RowsAreSound, UndecidedIsFresh
    <3> QED BY <3>1 DEF Since, Fresh
  <2>2. ASSUME op.phase = "derived", NEW s \in Signals
        PROVE  /\ SignalIsSound(s, s0[s]) /\ ~s0[s].late
               /\ s0[s].there => s0[s].refs = RefsOf[s]
    BY <1>3, <1>12, <2>2 DEF EvidenceInv, RowsAreSound, UndecidedIsFresh, FreshSignal
  <2>3. /\ \A p \in Proposals : /\ ProposalIsSound(p, p0[p]) /\ Fresh(p, p0[p])
                                /\ Since(p0[p], p0[p])
                                /\ p0[p].status # "absent" => p0[p].refs = RefsOf[p]
        /\ op.phase = "derived" => \A s \in Signals : /\ SignalIsSound(s, s0[s]) /\ ~s0[s].late
                                                      /\ s0[s].there => s0[s].refs = RefsOf[s]
    BY <2>1, <2>2
  <2> QED BY <1>1, <1>2, <1>3, <1>9, <2>3
          DEF SeenIsSound, ProposalIsSound, SignalIsSound, Fresh, Since, Kept
<1>14. UndecidedIsFresh'
  BY <1>12 DEF UndecidedIsFresh
<1>15. DecidedIsPruned'
  BY <1>1, <1>9 DEF DecidedIsPruned
<1>16. ErasedIsEmpty'
  BY <1>1, <1>9 DEF EvidenceInv, ErasedIsEmpty, Live
<1> QED BY <1>1, <1>10, <1>11, <1>13, <1>14, <1>15, <1>16 DEF EvidenceInv

\* A row is written by the batch that decides: with what it has seen of it.
LEMMA SeenFacts ==
  ASSUME EvidenceInv, op.step = "classified", NEW p \in Proposals
  PROVE  /\ op.seen[p] \in ProposalRows /\ ProposalIsSound(p, op.seen[p])
         /\ Fresh(p, op.seen[p]) /\ Since(proposal[p], op.seen[p])
         /\ proposal[p].status # "absent" => proposal[p].refs = RefsOf[p]
BY DEF EvidenceInv, SeenIsSound, ProposalIsSound

LEMMA TombstoneIsEmpty ==
  ASSUME NEW p \in Proposals, NEW r, ProposalIsSound(p, r), NEW seen, ProposalIsSound(p, seen),
         Fresh(p, seen), Since(r, seen), seen.status # "absent",
         NEW x, x = Minimised(r, seen)
  PROVE  /\ ProposalIsSound(p, x) /\ "old" \notin Kept(x) /\ x.refs = {}
         /\ x.status = r.status /\ x.outcome = r.outcome
<1>1. r \in ProposalRows /\ seen \in ProposalRows /\ RefsOf[p] # {}
  BY EvidenceIsGiven DEF ProposalIsSound
<1>2. /\ x \in ProposalRows /\ x.status = r.status /\ x.approved = r.approved
      /\ x.outcome = r.outcome
      /\ x.payload = Assigned(seen.payload, "none", r.payload)
      /\ x.snapshot = Assigned(seen.snapshot, "none", r.snapshot)
      /\ x.refs = Assigned(seen.refs, {}, r.refs)
      /\ x.executed = Assigned(seen.executed, "none", r.executed)
      /\ x.result = Assigned(seen.result, "none", r.result)
  BY <1>1, MinimisedFields
<1>3. x.refs = {}
  BY <1>1, <1>2 DEF Fresh, Assigned
<1>4. x.payload # "old" /\ x.snapshot # "old" /\ x.executed # "old" /\ x.result # "old"
  BY <1>2 DEF Since, Assigned
<1>5. ProposalIsSound(p, x)
  BY <1>2, <1>3 DEF ProposalIsSound, Since
<1> QED BY <1>2, <1>3, <1>4, <1>5 DEF Kept

LEMMA DerivedRow ==
  ASSUME EvidenceInv, AppliesDerived, NEW p \in Proposals
  PROVE  /\ ProposalIsSound(p, proposal'[p]) /\ PrunedProposal(proposal'[p], op.removed)
         /\ proposal[p].status # "absent" /\ proposal'[p].status = "absent" =>
              op.seen[p].outcome = "none" /\ ~op.seen[p].approved
<1>1. op.step = "classified" /\ op.phase = "derived" /\ op.removed \cap op.surviving = {}
  BY DEF AppliesDerived, EvidenceInv, CursorIsSound
<1>2. PICK r : r = proposal[p] /\ ProposalIsSound(p, r)
  BY RowFacts
<1>3. PICK seen \in ProposalRows : seen = op.seen[p]
  BY <1>1, SeenFacts
<1>4. /\ ProposalIsSound(p, seen) /\ Fresh(p, seen) /\ Since(r, seen)
      /\ r.status # "absent" => r.refs = RefsOf[p]
  BY <1>1, <1>2, <1>3, SeenFacts
<1>5. PICK fate : fate = ProposalFate(seen, op.removed, op.surviving)
  OBVIOUS
<1>6. PICK n : n = proposal'[p]
  OBVIOUS
<1>7. RefsOf[p] # {}
  BY EvidenceIsGiven
<1>8. seen.refs \cap op.removed # {} => seen.status # "absent"
  BY <1>4, NothingFields DEF ProposalIsSound
<1>9. CASE fate = "deleted" \/ Expired(seen)
  <2>1. n = NoProposal
    BY <1>3, <1>5, <1>6, <1>9 DEF AppliesDerived
  <2>2. ProposalIsSound(p, n)
    BY <2>1, NothingFields DEF ProposalIsSound
  <2>3. PrunedProposal(n, op.removed)
    BY <2>1, NothingFields DEF PrunedProposal, Kept
  <2>4. seen.outcome = "none" /\ ~seen.approved
    <3>1. CASE fate = "deleted"
      BY <1>5, <3>1 DEF ProposalFate, Unresolved
    <3>2. CASE Expired(seen)
      <4>1. seen.status \in Unapproved /\ ~seen.approved
        BY <3>2 DEF Expired
      <4>2. seen.outcome = "none"
        BY <1>4, <4>1 DEF Unapproved, ProposalIsSound
      <4> QED BY <4>1, <4>2
    <3> QED BY <1>9, <3>1, <3>2
  <2> QED BY <1>2, <1>3, <1>6, <2>2, <2>3, <2>4
<1>10. CASE ~(fate = "deleted" \/ Expired(seen)) /\ fate \in {"minimised", "preserved"}
  <2>1. n = Minimised(r, seen)
    BY <1>2, <1>3, <1>5, <1>6, <1>10 DEF AppliesDerived
  <2>2. seen.status # "absent"
    BY <1>5, <1>8, <1>10 DEF ProposalFate
  <2>3. /\ ProposalIsSound(p, n) /\ "old" \notin Kept(n) /\ n.refs = {}
        /\ n.status = r.status
    BY <1>2, <1>4, <2>1, <2>2, TombstoneIsEmpty
  <2>4. PrunedProposal(n, op.removed)
    BY <2>3 DEF PrunedProposal
  <2> QED BY <1>2, <1>3, <1>6, <2>3, <2>4
<1>11. CASE ~(fate = "deleted" \/ Expired(seen)) /\ fate = "pruned"
  <2>1. n = [r EXCEPT !.refs = seen.refs \cap op.surviving]
    BY <1>2, <1>3, <1>5, <1>6, <1>11 DEF AppliesDerived
  <2>2. /\ seen.refs \cap op.removed # {} /\ seen.outcome = "none" /\ ~seen.approved
        /\ ~(seen.status \in Unapproved /\ seen.refs \cap op.surviving = {})
    BY <1>5, <1>11 DEF ProposalFate, Unresolved
  <2>3. seen.status \in Unapproved
    BY <1>4, <1>8, <2>2 DEF ProposalIsSound, ProposalRows, Statuses, Unapproved
  <2>4. PICK refs \in SUBSET Items : refs = seen.refs \cap op.surviving
    BY <1>4 DEF ProposalIsSound, ProposalRows
  <2>5. refs # {} /\ refs \subseteq RefsOf[p] /\ refs \cap op.removed = {}
    BY <1>1, <1>4, <2>2, <2>3, <2>4 DEF ProposalIsSound
  <2>6. r \in ProposalRows /\ r.status # "absent"
    BY <1>2, <1>4, <1>8, <2>2 DEF ProposalIsSound, Since
  <2>7. /\ n \in ProposalRows /\ n.status = r.status /\ n.approved = r.approved
        /\ n.refs = refs /\ n.outcome = r.outcome
    <3>1. n = [r EXCEPT !.refs = refs]
      BY <2>1, <2>4
    <3> QED BY <2>6, <3>1, OneColumn
  <2>8. ProposalIsSound(p, n)
    BY <1>2, <2>5, <2>6, <2>7 DEF ProposalIsSound
  <2>9. PrunedProposal(n, op.removed)
    BY <2>5, <2>7 DEF PrunedProposal
  <2> QED BY <1>2, <1>3, <1>6, <2>6, <2>7, <2>8, <2>9
<1>12. CASE ~(fate = "deleted" \/ Expired(seen)) /\ fate = "untouched"
  <2>1. n = r
    BY <1>2, <1>3, <1>5, <1>6, <1>12 DEF AppliesDerived
  <2>2. seen.refs \cap op.removed = {}
    BY <1>5, <1>12 DEF ProposalFate, Unresolved
  <2>3. r.payload # "late" => r.refs \cap op.removed = {}
    BY <1>4, <2>2 DEF Since
  <2>4. r.refs = {} => "old" \notin Kept(r)
    BY <1>2, <1>4, <1>7, NothingFields DEF ProposalIsSound, Kept
  <2> QED BY <1>2, <1>3, <1>6, <2>1, <2>3, <2>4 DEF PrunedProposal
<1>13. fate \in {"deleted", "minimised", "preserved", "pruned", "untouched"}
  BY <1>5 DEF ProposalFate
<1> QED BY <1>9, <1>10, <1>11, <1>12, <1>13

LEMMA DerivedSignal ==
  ASSUME EvidenceInv, AppliesDerived, NEW s \in Signals
  PROVE  SignalIsSound(s, signal'[s]) /\ PrunedSignal(signal'[s], op.removed)
<1>1. op.step = "classified" /\ op.phase = "derived" /\ op.removed \cap op.surviving = {}
  BY DEF AppliesDerived, EvidenceInv, CursorIsSound
<1>2. PICK r : r = signal[s] /\ SignalIsSound(s, r)
  BY DEF EvidenceInv, RowsAreSound
<1>3. PICK seen : seen = op.signals[s]
  OBVIOUS
<1>4. /\ SignalIsSound(s, seen) /\ ~seen.late
      /\ ~r.late => r = seen
      /\ seen.there => r = seen
  BY <1>1, <1>2, <1>3 DEF EvidenceInv, SeenIsSound
<1>5. PICK fate : fate = SignalFate(seen.refs, op.removed, op.surviving)
  OBVIOUS
<1>6. PICK n : n = signal'[s]
  OBVIOUS
<1>7. CASE fate = "deleted"
  <2>1. n = NoSignal
    BY <1>3, <1>5, <1>6, <1>7 DEF AppliesDerived
  <2> QED BY <1>6, <2>1, NothingFields DEF SignalIsSound, PrunedSignal
<1>8. CASE fate = "pruned"
  <2>1. n = [r EXCEPT !.refs = seen.refs \cap op.surviving]
    BY <1>2, <1>3, <1>5, <1>6, <1>8 DEF AppliesDerived
  <2>2. seen.refs \cap op.removed # {} /\ seen.refs \cap op.surviving # {}
    BY <1>5, <1>8 DEF SignalFate
  <2>3. seen.there /\ r = seen
    BY <1>4, <2>2, NothingFields DEF SignalIsSound
  <2>4. /\ n \in SignalRows /\ n.there = r.there /\ n.refs = seen.refs \cap op.surviving
    BY <1>2, <1>4, <2>1, <2>3 DEF SignalIsSound, SignalRows
  <2> QED BY <1>1, <1>2, <1>4, <1>6, <2>2, <2>3, <2>4 DEF SignalIsSound, PrunedSignal
<1>9. CASE fate = "untouched"
  <2>1. n = r
    BY <1>2, <1>3, <1>5, <1>6, <1>9 DEF AppliesDerived
  <2>2. seen.refs \cap op.removed = {}
    BY <1>5, <1>9 DEF SignalFate
  <2> QED BY <1>2, <1>4, <1>6, <2>1, <2>2 DEF PrunedSignal
<1>10. fate \in {"deleted", "pruned", "untouched"}
  BY <1>5 DEF SignalFate
<1> QED BY <1>7, <1>8, <1>9, <1>10
LEMMA DerivedKeeps ==
  ASSUME EvidenceInv, AppliesDerived
  PROVE  EvidenceInv'
<1>1. /\ UNCHANGED <<type, pool, now, stored, connected>>
      /\ op.step = "classified" /\ op.phase = "derived"
      /\ op' = [Between("sources") EXCEPT !.removed = op.removed]
  BY DEF AppliesDerived, Others
<1>2. type # "account"
  BY <1>1 DEF EvidenceInv, CursorIsSound
<1>3. PICK removed \in SUBSET Items : removed = op.removed
  BY CursorFacts DEF Cursors
<1>4. PICK x : x = Between("sources")
  OBVIOUS
<1>5. x \in Cursors /\ x.phase = "sources" /\ x.step = "ready"
  BY <1>4, CursorFacts, BetweenFields DEF Phases
<1>6. op' = [x EXCEPT !.removed = removed]
  BY <1>1, <1>3, <1>4
<1>7. op' \in Cursors /\ op'.phase = "sources" /\ op'.step = "ready" /\ op'.removed = op.removed
  BY <1>3, <1>5, <1>6, OneField
<1>8. CursorIsSound'
  BY <1>1, <1>2, <1>7 DEF EvidenceInv, CursorIsSound
<1>9. /\ \A p \in Proposals : ProposalIsSound(p, proposal'[p])
      /\ \A s \in Signals : SignalIsSound(s, signal'[s])
  BY DerivedRow, DerivedSignal
<1>10. proposal' \in [Proposals -> ProposalRows] /\ signal' \in [Signals -> SignalRows]
  <2>1. /\ proposal' = [p \in Proposals |-> proposal'[p]]
        /\ signal' = [s \in Signals |-> signal'[s]]
    BY DEF AppliesDerived
  <2> QED BY <1>9, <2>1 DEF ProposalIsSound, SignalIsSound
<1>11. RowsAreSound'
  BY <1>1, <1>9 DEF RowsAreSound, ProposalIsSound, SignalIsSound
<1>12. SeenIsSound'
  BY <1>7 DEF SeenIsSound
<1>13. UndecidedIsFresh'
  BY <1>7 DEF UndecidedIsFresh, Decided, DecidedSignals
<1>14. DecidedIsPruned'
  <2>1. /\ \A s \in Signals : PrunedSignal(signal'[s], op'.removed)
        /\ \A p \in Proposals : PrunedProposal(proposal'[p], op'.removed)
    BY <1>7, DerivedRow, DerivedSignal
  <2> QED BY <2>1 DEF DecidedIsPruned, PrunedSignal, PrunedProposal, Kept
<1>15. ErasedIsEmpty'
  BY <1>1, <1>2 DEF ErasedIsEmpty
<1> QED BY <1>1, <1>8, <1>10, <1>11, <1>12, <1>13, <1>14, <1>15 DEF EvidenceInv

LEMMA MinimiseRow ==
  ASSUME EvidenceInv, AppliesMinimise, NEW p \in Proposals
  PROVE  /\ ProposalIsSound(p, proposal'[p]) /\ ErasedProposal(proposal'[p])
         /\ proposal[p].status # "absent" /\ proposal'[p].status = "absent" =>
              op.seen[p].outcome = "none"
<1>1. op.step = "classified"
  BY DEF AppliesMinimise
<1>2. PICK r : r = proposal[p] /\ ProposalIsSound(p, r)
  BY RowFacts
<1>3. PICK seen \in ProposalRows : seen = op.seen[p]
  BY <1>1, SeenFacts
<1>4. ProposalIsSound(p, seen) /\ Fresh(p, seen) /\ Since(r, seen)
  BY <1>1, <1>2, <1>3, SeenFacts
<1>5. PICK n : n = proposal'[p]
  OBVIOUS
<1>6. CASE seen.outcome # "none"
  <2>1. n = Minimised(r, seen)
    BY <1>2, <1>3, <1>5, <1>6 DEF AppliesMinimise, Retained
  <2>2. seen.status # "absent"
    BY <1>4, <1>6, NothingFields DEF ProposalIsSound
  <2>3. /\ ProposalIsSound(p, n) /\ "old" \notin Kept(n)
        /\ n.status = r.status /\ n.outcome = r.outcome
    BY <1>2, <1>4, <2>1, <2>2, TombstoneIsEmpty
  <2>4. ErasedProposal(n)
    BY <1>4, <1>6, <2>3 DEF ErasedProposal, Since
  <2> QED BY <1>2, <1>5, <2>3, <2>4
<1>7. CASE seen.outcome = "none" /\ seen.status # "absent"
  <2>1. n = NoProposal
    BY <1>3, <1>5, <1>7 DEF AppliesMinimise, Retained
  <2>2. ProposalIsSound(p, n) /\ ErasedProposal(n)
    BY <2>1, NothingFields DEF ProposalIsSound, ErasedProposal, Kept
  <2> QED BY <1>3, <1>5, <1>7, <2>2
<1>8. CASE seen.outcome = "none" /\ seen.status = "absent"
  <2>1. n = r
    BY <1>2, <1>3, <1>5, <1>8 DEF AppliesMinimise, Retained
  <2>2. seen = NoProposal
    BY <1>4, <1>8 DEF ProposalIsSound
  <2>3. ErasedProposal(r)
    <3>1. CASE r.status = "absent"
      BY <1>2, <3>1, NothingFields DEF ProposalIsSound, ErasedProposal, Kept
    <3>2. CASE r.payload = "late"
      BY <1>4, <2>2, <3>2, NothingFields DEF Since, ErasedProposal, Kept
    <3> QED BY <1>4, <1>8, <3>1, <3>2 DEF Since
  <2> QED BY <1>2, <1>5, <2>1, <2>3
<1> QED BY <1>6, <1>7, <1>8

LEMMA MinimiseKeeps ==
  ASSUME EvidenceInv, AppliesMinimise
  PROVE  EvidenceInv'
<1>1. /\ UNCHANGED <<type, pool, now, stored, connected, signal>>
      /\ op.step = "classified" /\ op.phase = "minimise" /\ op' = Between("finalise")
  BY DEF AppliesMinimise, Others
<1>2. type = "account"
  BY <1>1 DEF EvidenceInv, CursorIsSound
<1>3. op' \in Cursors /\ op'.phase = "finalise" /\ op'.step = "ready"
  BY <1>1, CursorFacts, BetweenFields DEF Phases
<1>4. CursorIsSound'
  BY <1>1, <1>2, <1>3 DEF CursorIsSound
<1>5. \A p \in Proposals : ProposalIsSound(p, proposal'[p]) /\ ErasedProposal(proposal'[p])
  BY MinimiseRow
<1>6. proposal' \in [Proposals -> ProposalRows]
  <2>1. proposal' = [p \in Proposals |-> proposal'[p]]
    BY DEF AppliesMinimise
  <2> QED BY <1>5, <2>1 DEF ProposalIsSound
<1>7. RowsAreSound'
  BY <1>1, <1>5 DEF EvidenceInv, RowsAreSound, ProposalIsSound, SignalIsSound
<1>8. SeenIsSound'
  BY <1>3 DEF SeenIsSound
<1>9. UndecidedIsFresh'
  BY <1>3 DEF UndecidedIsFresh, Decided, DecidedSignals
<1>10. DecidedIsPruned'
  BY <1>1, <1>2 DEF DecidedIsPruned
<1>11. ErasedIsEmpty'
  <2>1. ErasedIsEmpty
    BY DEF EvidenceInv
  <2> QED BY <1>1, <1>2, <1>3, <1>5, <2>1 DEF ErasedIsEmpty, ErasedProposal, Kept, Live
<1> QED BY <1>1, <1>4, <1>6, <1>7, <1>8, <1>9, <1>10, <1>11 DEF EvidenceInv

\* A batch that is rolled back leaves the rows to be decided about again.
LEMMA UndecidedRow ==
  ASSUME NEW p \in Proposals, NEW r, ProposalIsSound(p, r),
         r.status # "absent" => r.refs = RefsOf[p],
         NEW x, x = Undecided(r)
  PROVE  ProposalIsSound(p, x) /\ Fresh(p, x) /\ x.status = r.status
<1>1. r \in ProposalRows
  BY DEF ProposalIsSound
<1>2. /\ x \in ProposalRows /\ x.status = r.status /\ x.approved = r.approved
      /\ x.outcome = r.outcome /\ x.refs = r.refs
      /\ x.payload = Again(r.payload) /\ x.snapshot = Again(r.snapshot)
      /\ x.executed = Again(r.executed) /\ x.result = Again(r.result)
  BY <1>1, UndecidedFields
<1>3. x.status = "absent" => x = NoProposal
  <2>1. r.status = "absent" => r = NoProposal
    BY DEF ProposalIsSound
  <2>2. Undecided(NoProposal) = NoProposal
    BY DEF Undecided, NoProposal, Again
  <2> QED BY <1>2, <2>1, <2>2
<1>4. ProposalIsSound(p, x)
  BY <1>2, <1>3 DEF ProposalIsSound
<1>5. Fresh(p, x)
  BY <1>2 DEF Fresh, Kept, Again
<1> QED BY <1>2, <1>4, <1>5

LEMMA DiesKeeps ==
  ASSUME EvidenceInv, Dies
  PROVE  EvidenceInv'
<1>1. UNCHANGED <<type, pool, now, stored, connected>> /\ op.step # "idle"
  BY DEF Dies, Others
<1>2. PICK removed \in SUBSET Items : removed = IF op.phase = "sources" THEN op.removed ELSE {}
  BY CursorFacts DEF Cursors
<1>3. PICK x : x = Between(op.phase)
  OBVIOUS
<1>4. x \in Cursors /\ x.phase = op.phase /\ x.crashes = op.crashes /\ op.crashes \in Int
  BY <1>3, CursorFacts, BetweenFields DEF Cursors
<1>5. PICK y1 : y1 = [x EXCEPT !.step = "idle"]
  OBVIOUS
<1>6. PICK y2 : y2 = [y1 EXCEPT !.at = Confirmed]
  OBVIOUS
<1>7. PICK crashes \in Int : crashes = op.crashes + 1
  BY <1>4
<1>8. PICK y3 : y3 = [y2 EXCEPT !.crashes = crashes]
  OBVIOUS
<1>9. y1 \in Cursors /\ y1.step = "idle" /\ y1.phase = op.phase
  BY <1>4, <1>5, OneField
<1>10. y2 \in Cursors /\ y2.step = "idle" /\ y2.phase = op.phase
  BY <1>6, <1>9, CursorFacts, OneField
<1>11. y3 \in Cursors /\ y3.step = "idle" /\ y3.phase = op.phase
  BY <1>7, <1>8, <1>10, OneField
<1>12. op' = [y3 EXCEPT !.removed = removed]
  <2>1. op' = [x EXCEPT !.step = "idle", !.at = Confirmed, !.crashes = crashes,
                        !.removed = removed]
    BY <1>2, <1>3, <1>4, <1>7 DEF Dies, Cursors
  <2> QED BY <1>4, <1>5, <1>6, <1>8, <2>1 DEF Cursors
<1>13. /\ op' \in Cursors /\ op'.step = "idle" /\ op'.phase = op.phase
       /\ op'.removed = IF op.phase = "sources" THEN op.removed ELSE {}
  BY <1>2, <1>11, <1>12, OneField
<1>14. CursorIsSound' /\ op.phase # "done"
  BY <1>1, <1>13 DEF EvidenceInv, CursorIsSound
<1>15. CASE op.step # "classified"
  <2>1. UNCHANGED <<signal, proposal>>
    BY <1>15 DEF Dies
  <2> QED BY <1>1, <1>13, <1>14, <1>15, <2>1, CursorMoves
          DEF EvidenceInv, ErasedIsEmpty, Decided, DecidedSignals
<1>16. CASE op.step = "classified"
  <2>1. op.phase \in {"derived", "minimise"}
    BY <1>16 DEF EvidenceInv, CursorIsSound
  <2>2. /\ proposal' = [p \in Proposals |-> Undecided(proposal[p])]
        /\ signal' = IF op.phase = "derived"
                       THEN [s \in Signals |-> [signal[s] EXCEPT !.late = FALSE]] ELSE signal
    BY <1>16 DEF Dies
  <2>3. ASSUME NEW p \in Proposals
        PROVE  ProposalIsSound(p, proposal'[p]) /\ Fresh(p, proposal'[p])
    <3>1. PICK r : r = proposal[p]
      OBVIOUS
    <3>2. ProposalIsSound(p, r) /\ (r.status # "absent" => r.refs = RefsOf[p])
      BY <1>16, <3>1, RowFacts, SeenFacts
    <3>3. proposal'[p] = Undecided(r)
      BY <2>2, <3>1
    <3> QED BY <3>2, <3>3, UndecidedRow
  <2>4. ASSUME NEW s \in Signals
        PROVE  /\ SignalIsSound(s, signal'[s])
               /\ op.phase = "derived" => FreshSignal(s, signal'[s])
    <3>1. PICK r : r = signal[s] /\ SignalIsSound(s, r)
      BY DEF EvidenceInv, RowsAreSound
    <3>2. CASE op.phase = "derived"
      <4>1. PICK n : n = [r EXCEPT !.late = FALSE]
        OBVIOUS
      <4>2. n \in SignalRows /\ n.there = r.there /\ n.refs = r.refs /\ ~n.late
        BY <3>1, <4>1 DEF SignalIsSound, SignalRows
      <4>3. r.there => r.refs = RefsOf[s]
        BY <1>16, <3>1, <3>2 DEF EvidenceInv, SeenIsSound
      <4>4. ~r.there => n = NoSignal
        <5> SUFFICES ASSUME ~r.there PROVE n = NoSignal
          OBVIOUS
        <5>1. r.refs = {}
          BY <3>1, NothingFields DEF SignalIsSound
        <5>2. n.there = FALSE /\ n.refs = {} /\ n.late = FALSE
          BY <3>1, <4>2, <5>1 DEF SignalIsSound, SignalRows
        <5> QED BY <4>2, <5>2 DEF SignalRows, NoSignal
      <4>5. signal'[s] = n
        BY <2>2, <3>1, <3>2, <4>1
      <4> QED BY <3>1, <4>2, <4>3, <4>4, <4>5 DEF SignalIsSound, FreshSignal
    <3>3. CASE op.phase # "derived"
      BY <2>2, <3>1, <3>3
    <3> QED BY <3>2, <3>3
  <2>5. proposal' \in [Proposals -> ProposalRows] /\ signal' \in [Signals -> SignalRows]
    <3>1. signal' = [s \in Signals |-> signal'[s]] /\ proposal' = [p \in Proposals |-> proposal'[p]]
      BY <2>2 DEF EvidenceInv
    <3> QED BY <2>3, <2>4, <3>1 DEF ProposalIsSound, SignalIsSound
  <2>6. RowsAreSound'
    BY <1>1, <2>3, <2>4 DEF RowsAreSound, ProposalIsSound, SignalIsSound
  <2>7. SeenIsSound'
    BY <1>13 DEF SeenIsSound
  <2>8. UndecidedIsFresh'
    <3>1. ~DecidedSignals' => op.phase = "derived"
      BY <1>13, <2>1 DEF DecidedSignals
    <3> QED BY <2>3, <2>4, <3>1 DEF UndecidedIsFresh, Fresh, FreshSignal, Kept
  <2>9. DecidedIsPruned'
    BY <1>13, <2>1 DEF DecidedIsPruned
  <2>10. ErasedIsEmpty'
    <3>1. type = "account" => op.phase = "minimise"
      BY <2>1 DEF EvidenceInv, CursorIsSound
    <3>2. ErasedIsEmpty
      BY DEF EvidenceInv
    <3> QED BY <1>1, <1>13, <2>2, <3>1, <3>2 DEF ErasedIsEmpty, Live
  <2> QED BY <1>1, <1>14, <2>5, <2>6, <2>7, <2>8, <2>9, <2>10 DEF EvidenceInv
<1> QED BY <1>15, <1>16
-----------------------------------------------------------------------------
(* The specification.                                                      *)

LEMMA InitialRowsAreFresh ==
  ASSUME NEW p \in Proposals, NEW row \in InitialRows(p)
  PROVE  ProposalIsSound(p, row) /\ Fresh(p, row)
<1>1. "old" \in Contents /\ "closed" \in Statuses
  BY DEF Contents, Statuses
<1>2. PICK offered : offered = Offered(p, 0, "old")
  OBVIOUS
<1>3. PICK approved : approved = ApprovedRow(offered, "old")
  OBVIOUS
<1>4. PICK attempted : attempted = Attempted(approved, "old")
  OBVIOUS
<1>5. /\ offered \in ProposalRows /\ offered.status = "proposed" /\ ~offered.approved
      /\ offered.payload = "old" /\ offered.snapshot = "none" /\ offered.refs = RefsOf[p]
      /\ offered.outcome = "none" /\ offered.executed = "none" /\ offered.result = "none"
  BY <1>1, <1>2, OfferedFields
<1>6. /\ approved \in ProposalRows /\ approved.status = "approved" /\ approved.approved
      /\ approved.payload = "old" /\ approved.snapshot = "old" /\ approved.refs = RefsOf[p]
      /\ approved.outcome = "none" /\ approved.executed = "none" /\ approved.result = "none"
  BY <1>1, <1>3, <1>5, ApprovedFields
<1>7. /\ attempted \in ProposalRows /\ attempted.status = "executing" /\ attempted.approved
      /\ attempted.payload = "old" /\ attempted.snapshot = "old" /\ attempted.refs = RefsOf[p]
      /\ attempted.outcome = "pending" /\ attempted.executed = "old" /\ attempted.result = "none"
  BY <1>1, <1>4, <1>6, AttemptedFields
<1>8. \/ row = NoProposal \/ row = offered \/ row = approved \/ row = attempted
      \/ row = [offered EXCEPT !.status = "closed"]
      \/ row = [approved EXCEPT !.status = "closed"]
      \/ \E o \in {"terminal", "uncertain"} : row = Finished(attempted, o, "old")
  <2>1. [attempted EXCEPT !.outcome = "uncertain", !.result = "old"]
          = Finished(attempted, "uncertain", "old")
    BY <1>7 DEF Finished, ProposalRows
  <2>2. [attempted EXCEPT !.outcome = "terminal", !.result = "old", !.status = "ended"]
          = Finished(attempted, "terminal", "old")
    BY DEF Finished
  <2> QED BY <1>2, <1>3, <1>4, <2>1, <2>2 DEF InitialRows
<1>9. RefsOf[p] \subseteq RefsOf[p]
  OBVIOUS
<1>10. CASE row = NoProposal
  BY <1>10, NothingFields DEF ProposalIsSound, Fresh, Kept
<1>11. CASE row = offered \/ row = approved \/ row = attempted
  BY <1>5, <1>6, <1>7, <1>11 DEF ProposalIsSound, Fresh, Kept
<1>12. CASE row = [offered EXCEPT !.status = "closed"] \/ row = [approved EXCEPT !.status = "closed"]
  <2>1. /\ row \in ProposalRows /\ row.status = "closed" /\ row.payload = "old"
        /\ row.snapshot \in {"none", "old"} /\ row.refs = RefsOf[p] /\ row.outcome = "none"
        /\ row.executed = "none" /\ row.result = "none"
    BY <1>1, <1>5, <1>6, <1>12, OneColumn
  <2> QED BY <2>1 DEF ProposalIsSound, Fresh, Kept
<1>13. ASSUME NEW o \in {"terminal", "uncertain"}, row = Finished(attempted, o, "old")
       PROVE  ProposalIsSound(p, row) /\ Fresh(p, row)
  <2>1. /\ row \in ProposalRows /\ row.status \in {"executing", "ended"} /\ row.payload = "old"
        /\ row.snapshot = "old" /\ row.refs = RefsOf[p] /\ row.outcome = o
        /\ row.executed = "old" /\ row.result = "old"
    BY <1>1, <1>7, <1>13, FinishedFields
  <2> QED BY <2>1 DEF ProposalIsSound, Fresh, Kept
<1> QED BY <1>8, <1>10, <1>11, <1>12, <1>13

LEMMA InitEvidence ==
  ASSUME Init
  PROVE  EvidenceInv
<1>1. /\ type \in {"imported", "retention", "account"} /\ connected = TRUE /\ op = Idle
      /\ DOMAIN stored = Items
  BY DEF Init
<1>2. now \in Int /\ Confirmed \in Int
  BY DaysAreNumbers DEF Init
<1>3. ASSUME NEW p \in Proposals
      PROVE  ProposalIsSound(p, proposal[p]) /\ Fresh(p, proposal[p])
  <2>1. proposal[p] \in InitialRows(p) \/ proposal[p] = NoProposal
    BY DEF Init
  <2>2. NoProposal \in InitialRows(p)
    BY DEF InitialRows
  <2> QED BY <2>1, <2>2, InitialRowsAreFresh
<1>4. ASSUME NEW s \in Signals
      PROVE  SignalIsSound(s, signal[s]) /\ FreshSignal(s, signal[s])
  <2>1. signal[s] = NoSignal \/ (s \in pool /\ signal[s] = Row(s, FALSE))
    BY DEF Init
  <2> QED BY <2>1, NothingFields, RowOfSignal, EvidenceIsGiven DEF SignalIsSound, FreshSignal
<1>5. proposal \in [Proposals -> ProposalRows] /\ signal \in [Signals -> SignalRows]
  <2>1. proposal = [p \in Proposals |-> proposal[p]] /\ signal = [s \in Signals |-> signal[s]]
    BY DEF Init
  <2> QED BY <1>3, <1>4, <2>1 DEF ProposalIsSound, SignalIsSound
<1>6. /\ op \in Cursors /\ op.step = "idle" /\ op.phase = FirstPhase
  BY <1>1, <1>2 DEF Idle, Cursors, Phases, FirstPhase
<1>7. CursorIsSound
  BY <1>1, <1>6 DEF CursorIsSound, FirstPhase
<1>8. RowsAreSound /\ UndecidedIsFresh /\ SeenIsSound
  BY <1>3, <1>4, <1>6 DEF RowsAreSound, UndecidedIsFresh, SeenIsSound
<1>9. DecidedIsPruned /\ ErasedIsEmpty
  BY <1>6 DEF DecidedIsPruned, ErasedIsEmpty, FirstPhase
<1> QED BY <1>1, <1>2, <1>5, <1>7, <1>8, <1>9 DEF EvidenceInv

LEMMA EvidenceStep ==
  ASSUME EvidenceInv, [Next]_vars
  PROVE  EvidenceInv'
<1>1. CASE UNCHANGED vars
  BY <1>1 DEF vars, data, EvidenceInv, RowsAreSound, CursorIsSound, SeenIsSound, UndecidedIsFresh,
              DecidedIsPruned, ErasedIsEmpty, ProposalIsSound, SignalIsSound, Fresh, FreshSignal,
              Since, PrunedSignal, PrunedProposal, ErasedProposal, Kept, Live, Decided,
              DecidedSignals
<1>2. CASE Works
  BY <1>2, ClaimsKeeps, ReadsKeeps, ClassifiesKeeps, DerivedKeeps, DeletesKeeps, CredentialsKeeps,
     ProductKeeps, MinimiseKeeps, FinalisesKeeps DEF Works
<1>3. CASE Dies
  BY <1>3, DiesKeeps
<1>4. CASE RequestsMove
  BY <1>4, RequestsKeep
<1> QED BY <1>1, <1>2, <1>3, <1>4, RequestsAreMoves

LEMMA EvidenceIsSound == Spec => []EvidenceInv
<1>1. Init => EvidenceInv
  BY InitEvidence
<1>2. EvidenceInv /\ [Next]_vars => EvidenceInv'
  BY EvidenceStep
<1> QED BY <1>1, <1>2, PTL DEF Spec

-----------------------------------------------------------------------------
(* The theorems.                                                           *)

\* Whatever requests commit between the two reads of a deletion and its
\* writes, and however often its worker dies: once the decisions are applied,
\* no signal or proposal older than them cites what is deleted, and a
\* tombstone has no content older than them (deletion_planner.py:13 and :20);
\* an erased account holds no imported item, and nothing else but tombstones
\* and what an admitted request wrote afterwards (account_deletion.py:190).
THEOREM OnlyLateLeftovers == Spec => []LeftoversAreLate
<1>1. EvidenceInv => EvidenceTypeOK
  <2> SUFFICES ASSUME EvidenceInv PROVE EvidenceTypeOK
    OBVIOUS
  <2>1. op \in Cursors
    BY CursorFacts
  <2>2. \A s \in Signals : SignalIsSound(s, signal[s])
    BY DEF EvidenceInv, RowsAreSound
  <2>3. ASSUME NEW p \in Proposals
        PROVE  LET row == proposal[p]
               IN /\ row.status \in Statuses /\ row.refs \subseteq RefsOf[p]
                  /\ {row.payload, row.snapshot, row.executed, row.result} \subseteq Contents
                  /\ row.status \in {"proposed", "edited"} => ~row.approved
                  /\ row.outcome # "none" <=> row.status \in {"executing", "ended"}
    <3>1. PICK r : r = proposal[p] /\ ProposalIsSound(p, r)
      BY RowFacts
    <3> QED BY <3>1 DEF ProposalIsSound, ProposalRows
  <2> QED BY <2>1, <2>2, <2>3 DEF EvidenceTypeOK, Cursors, Phases, SignalIsSound
<1>2. EvidenceInv => OldCitationsArePruned
  BY DEF EvidenceInv, DecidedIsPruned, OldCitationsArePruned, PrunedSignal, PrunedProposal, Kept
<1>3. EvidenceInv => ErasedHoldsOnlyLateWrites
  BY DEF EvidenceInv, ErasedIsEmpty, ErasedHoldsOnlyLateWrites, ErasedProposal, Kept
<1>4. EvidenceInv => LeftoversAreLate
  BY <1>1, <1>2, <1>3 DEF LeftoversAreLate
<1> QED BY <1>4, EvidenceIsSound, PTL

\* The history that a deletion has seen is never deleted: no proposal with an
\* attempt, and, unless the account goes, none that was approved, although
\* executions begin and end while it decides (deletion_planner.py:18).
THEOREM HistoriesAreKept == Spec => SeenHistoryIsKept
<1> DEFINE Missed(p) == proposal[p].status # "absent" /\ proposal'[p].status = "absent"
           Unseen(p) == op.seen[p].outcome = "none" /\ (type # "account" => ~op.seen[p].approved)
<1>1. ASSUME EvidenceInv, [Next]_vars, NEW p \in Proposals, Missed(p)
      PROVE  Unseen(p)
  <2>1. proposal' # proposal
    BY <1>1
  <2>2. CASE RequestsMove
    <3>1. proposal'[p] = proposal[p] \/ Requested(p, proposal[p], proposal'[p], Content)
      BY <2>2 DEF RequestsMove
    <3> QED BY <1>1, <3>1 DEF Requested
  <2>3. CASE Works
    <3>1. CASE AppliesDerived
      BY <1>1, <3>1, DerivedRow
    <3>2. CASE AppliesMinimise
      <4>1. type = "account"
        BY <1>1, <3>2 DEF AppliesMinimise, EvidenceInv, CursorIsSound
      <4> QED BY <1>1, <3>2, <4>1, MinimiseRow
    <3> QED BY <2>1, <2>3, <3>1, <3>2
            DEF Works, Claims, ReadsEvidence, Classifies, DeletesSources, ErasesCredentials,
                ErasesProduct, Finalises, data
  <2>4. CASE Dies
    <3>1. op.step = "classified" /\ proposal' = [q \in Proposals |-> Undecided(proposal[q])]
      BY <2>1, <2>4 DEF Dies
    <3>2. PICK r : r = proposal[p] /\ ProposalIsSound(p, r)
      BY <1>1, RowFacts
    <3>3. proposal'[p].status = r.status
      BY <3>1, <3>2, UndecidedFields DEF ProposalIsSound
    <3> QED BY <1>1, <3>2, <3>3
  <2> QED BY <1>1, <2>1, <2>2, <2>3, <2>4, RequestsAreMoves DEF vars, data
<1>2. EvidenceInv /\ [Next]_vars =>
        [\A p \in Proposals :
           proposal[p].status # "absent" /\ proposal'[p].status = "absent" =>
             /\ op.seen[p].outcome = "none"
             /\ type # "account" => ~op.seen[p].approved]_vars
  BY <1>1
<1> QED BY <1>2, EvidenceIsSound, PTL DEF Spec, SeenHistoryIsKept

-----------------------------------------------------------------------------
(* What is counted.                                                        *)

\* What is counted of signals and proposals.
There == {s \in Signals : signal[s].there}
Attempts == {p \in Proposals : proposal[p].outcome # "none"}
Unattempted == {p \in Proposals : proposal[p].status # "absent"} \ Attempts

CountTypes == [items : Nat, signals : Nat, proposals : Nat,
               minimised : Nat, preserved : Nat, recomputed : Nat, pruned : Nat]

\* What is counted and what is still there make up the plan.
ImportedCounts ==
  /\ op.phase # "done" => counts.items + Cardinality(Removed) = plan.items
  /\ op.phase = "derived" =>
       /\ counts = NoCounts /\ plan = Plan
       /\ op.step \in {"read", "classified"} =>
            op.removed = Removed /\ op.surviving = Live \ Removed
       /\ op.step = "classified" => op.seen = proposal /\ op.signals = signal
  /\ op.phase # "derived" =>
       /\ counts.signals = plan.signals /\ counts.proposals = plan.proposals
       /\ counts.minimised = plan.minimised /\ counts.preserved = plan.preserved
       /\ counts.pruned = plan.recomputed + plan.pruned
  /\ op.phase = "done" => counts.items = plan.items
AccountCounts ==
  /\ op.phase \in {"credentials", "product", "minimise"} =>
       /\ counts.items + Cardinality(Live) = plan.items
       /\ counts.signals + Cardinality(There) = plan.signals
       /\ counts.proposals = 0 /\ plan.proposals = Cardinality(Unattempted)
       /\ counts.minimised = 0 /\ plan.minimised = Cardinality(Attempts)
  /\ op.phase = "minimise" => Live = {} /\ There = {}
  /\ op.step = "classified" => op.seen = proposal
  /\ op.phase \in {"finalise", "done"} =>
       /\ counts.items = plan.items /\ counts.signals = plan.signals
       /\ counts.proposals = plan.proposals /\ counts.minimised = plan.minimised
  /\ counts.preserved = plan.preserved
  /\ counts.pruned = 0 /\ plan.recomputed = 0 /\ plan.pruned = 0

CountsInv ==
  plan # Null /\ type # "retention" =>
    /\ counts \in CountTypes /\ plan \in CountTypes /\ plan.items <= CountBound
    /\ type = "imported" => ImportedCounts
    /\ type = "account" => AccountCounts

\* A user's rows are finitely many, and the bound on what is counted lets
\* each item be counted.
CountsFit ==
  /\ IsFiniteSet(Items) /\ IsFiniteSet(Signals) /\ IsFiniteSet(Proposals)
  /\ CountBound \in Nat /\ Cardinality(Items) <= CountBound

LEMMA CountsAreNumbers ==
  ASSUME CountsFit
  PROVE  /\ \A S \in SUBSET Items : IsFiniteSet(S) /\ Cardinality(S) \in 0..CountBound
         /\ \A S \in SUBSET Signals : Cardinality(S) \in Nat
         /\ \A S \in SUBSET Proposals : Cardinality(S) \in Nat
         /\ \A f, x : Fated(f, Signals, x) \in Nat /\ Fated(f, Proposals, x) \in Nat
<1>1. ASSUME NEW T, IsFiniteSet(T), NEW S \in SUBSET T
      PROVE  IsFiniteSet(S) /\ Cardinality(S) \in Nat /\ Cardinality(S) <= Cardinality(T)
             /\ Cardinality(T) \in Nat
  BY <1>1, FS_Subset, FS_CardinalityType
<1>2. \A S \in SUBSET Items : IsFiniteSet(S) /\ Cardinality(S) \in 0..CountBound
  BY <1>1 DEF CountsFit
<1>3. /\ \A S \in SUBSET Signals : Cardinality(S) \in Nat
      /\ \A S \in SUBSET Proposals : Cardinality(S) \in Nat
  BY <1>1 DEF CountsFit
<1>4. ASSUME NEW f, NEW x
      PROVE  Fated(f, Signals, x) \in Nat /\ Fated(f, Proposals, x) \in Nat
  <2>1. /\ {n \in Signals : f[n] = x} \in SUBSET Signals
        /\ {n \in Proposals : f[n] = x} \in SUBSET Proposals
    OBVIOUS
  <2> QED BY <1>3, <2>1 DEF Fated
<1> QED BY <1>2, <1>3, <1>4

\* Taking a batch out of what is left.
LEMMA BatchIsCounted ==
  ASSUME CountsFit, NEW S \in SUBSET Items, NEW batch \in Batches(S)
  PROVE  /\ batch \in SUBSET S /\ Cardinality(batch) \in Nat
         /\ Cardinality(S \ batch) = Cardinality(S) - Cardinality(batch)
<1>1. IsFiniteSet(S)
  BY CountsAreNumbers
<1>2. batch \in SUBSET S
  BY DEF Batches, kSubset
<1>3. IsFiniteSet(batch) /\ Cardinality(batch) \in Nat
  BY <1>1, <1>2, FS_Subset, FS_CardinalityType
<1>4. S \cap batch = batch
  BY <1>2
<1> QED BY <1>1, <1>2, <1>3, <1>4, FS_Difference

LEMMA MinOfTwo ==
  ASSUME NEW a \in Nat, NEW b \in Nat, a <= b
  PROVE  Min({a, b}) = a
BY DEF Min

LEMMA CountColumns ==
  ASSUME NEW c \in CountTypes, NEW n \in Nat
  PROVE  /\ \A x : x = [c EXCEPT !.items = n] =>
              /\ x \in CountTypes /\ x.items = n /\ x.signals = c.signals
              /\ x.proposals = c.proposals /\ x.minimised = c.minimised
              /\ x.preserved = c.preserved /\ x.recomputed = c.recomputed /\ x.pruned = c.pruned
         /\ \A x : x = [c EXCEPT !.signals = n] =>
              /\ x \in CountTypes /\ x.items = c.items /\ x.signals = n
              /\ x.proposals = c.proposals /\ x.minimised = c.minimised
              /\ x.preserved = c.preserved /\ x.recomputed = c.recomputed /\ x.pruned = c.pruned
BY DEF CountTypes

LEMMA NoCountsFields ==
  /\ NoCounts \in CountTypes /\ NoCounts.items = 0 /\ NoCounts.signals = 0
  /\ NoCounts.proposals = 0 /\ NoCounts.minimised = 0
  /\ NoCounts.preserved = 0 /\ NoCounts.recomputed = 0 /\ NoCounts.pruned = 0
BY DEF NoCounts, CountTypes

LEMMA AccountPlanFields ==
  ASSUME CountsFit, EvidenceInv
  PROVE  /\ AccountPlan \in CountTypes /\ AccountPlan.items = Cardinality(Live)
         /\ AccountPlan.signals = Cardinality(There)
         /\ AccountPlan.proposals = Cardinality(Unattempted)
         /\ AccountPlan.minimised = Cardinality(Attempts)
         /\ AccountPlan.preserved = 0 /\ AccountPlan.recomputed = 0 /\ AccountPlan.pruned = 0
<1> DEFINE there == {p \in Proposals : proposal[p].status # "absent"}
           attempted == {p \in there : proposal[p].outcome # "none"}
<1>1. attempted = Attempts /\ there \ attempted = Unattempted
  <2>1. \A p \in Proposals : proposal[p].outcome # "none" => proposal[p].status # "absent"
    BY DEF EvidenceInv, RowsAreSound, ProposalIsSound
  <2> QED BY <2>1 DEF Attempts, Unattempted
<1>2. AccountPlan =
        [items |-> Cardinality(Live), signals |-> Cardinality(There),
         proposals |-> Cardinality(Unattempted), minimised |-> Cardinality(Attempts),
         preserved |-> 0, recomputed |-> 0, pruned |-> 0]
  <2>1. AccountPlan =
        [NoCounts EXCEPT !.items = Cardinality(Live),
                         !.signals = Cardinality({s \in Signals : signal[s].there}),
                         !.proposals = Cardinality(there \ attempted),
                         !.minimised = Cardinality(attempted)]
    BY DEF AccountPlan
  <2> HIDE DEF there, attempted
  <2> QED BY <1>1, <2>1 DEF NoCounts, There
<1>3. /\ Cardinality(Live) \in Nat /\ Cardinality(There) \in Nat
      /\ Cardinality(Unattempted) \in Nat /\ Cardinality(Attempts) \in Nat
  BY CountsAreNumbers DEF Live, There, Unattempted, Attempts
<1> QED BY <1>2, <1>3 DEF CountTypes

LEMMA ImportedPlanFields ==
  ASSUME CountsFit
  PROVE  /\ ImportedPlan(Removed, Live \ Removed) \in CountTypes
         /\ ImportedPlan(Removed, Live \ Removed).items = Cardinality(Removed)
<1>1. Cardinality(Removed) \in Nat
  BY CountsAreNumbers DEF Removed
<1> QED BY <1>1, CountsAreNumbers DEF ImportedPlan, CountTypes

\* What the plan is now stands on these.
LEMMA PlanStands ==
  ASSUME UNCHANGED <<type, stored, signal, proposal>>
  PROVE  /\ Live' = Live /\ There' = There /\ Attempts' = Attempts
         /\ Unattempted' = Unattempted
         /\ type = "imported" => Removed' = Removed /\ Plan' = Plan
<1>1. /\ Live' = Live /\ There' = There /\ Attempts' = Attempts
      /\ Unattempted' = Unattempted
  BY DEF Live, There, Attempts, Unattempted
<1>2. ASSUME type = "imported" PROVE Removed' = Removed /\ Plan' = Plan
  <2>1. Removed' = Removed
    BY <1>2 DEF Removed, InScope, Cutoff
  <2>2. PICK removed : removed = Removed
    OBVIOUS
  <2>3. PICK surviving : surviving = Live \ Removed
    OBVIOUS
  <2>4. ImportedPlan(removed, surviving)' = ImportedPlan(removed, surviving)
    BY DEF ImportedPlan
  <2> QED BY <1>1, <1>2, <2>1, <2>2, <2>3, <2>4 DEF Plan
<1> QED BY <1>1, <1>2

\* Nothing else has moved, and somebody confirmed the plan.
Confirms == CountsFit /\ EvidenceInv /\ CountsInv /\ plan # Null /\ type # "retention"

LEMMA ConfirmsFacts ==
  ASSUME Confirms
  PROVE  /\ counts \in CountTypes /\ plan \in CountTypes /\ plan.items <= CountBound
         /\ \/ type = "imported" /\ ImportedCounts
            \/ type = "account" /\ AccountCounts
         /\ op \in Cursors
<1>1. EvidenceInv /\ CountsInv /\ plan # Null /\ type # "retention"
  BY DEF Confirms
<1>2. op \in Cursors /\ type \in {"imported", "account"}
  BY <1>1, CursorFacts
<1>3. /\ counts \in CountTypes /\ plan \in CountTypes /\ plan.items <= CountBound
      /\ type = "imported" => ImportedCounts
      /\ type = "account" => AccountCounts
  BY <1>1 DEF CountsInv
<1> QED BY <1>2, <1>3

LEMMA ClaimsCounts ==
  ASSUME Confirms, Claims
  PROVE  CountsInv'
<1>1. /\ UNCHANGED <<type, stored, signal, proposal, counts, plan>>
      /\ op.step = "idle" /\ op.phase # "done"
      /\ op' = [op EXCEPT !.step = "ready", !.at = IF type = "retention" THEN now ELSE @]
  BY DEF Claims, Claimable, Others, data
<1>2. op'.phase = op.phase /\ op'.step = "ready"
  BY <1>1, ConfirmsFacts DEF Cursors
<1> QED BY <1>1, <1>2, ConfirmsFacts, PlanStands DEF CountsInv, ImportedCounts, AccountCounts

LEMMA ReadsCounts ==
  ASSUME Confirms, ReadsEvidence
  PROVE  CountsInv'
<1>1. /\ UNCHANGED <<type, stored, signal, proposal, counts, plan>> /\ op.phase = "derived"
      /\ op' = [op EXCEPT !.step = "read", !.removed = Removed, !.surviving = Live \ Removed]
  BY DEF ReadsEvidence, Others, data
<1>2. /\ op'.phase = "derived" /\ op'.step = "read"
      /\ op'.removed = Removed /\ op'.surviving = Live \ Removed
  BY <1>1, ConfirmsFacts DEF Cursors
<1>3. type = "imported"
  BY <1>1, ConfirmsFacts DEF Confirms, EvidenceInv, CursorIsSound
<1> QED BY <1>1, <1>2, <1>3, ConfirmsFacts, PlanStands DEF CountsInv, ImportedCounts

LEMMA ClassifiesCounts ==
  ASSUME Confirms, Classifies
  PROVE  CountsInv'
<1>1. /\ UNCHANGED <<type, stored, signal, proposal, counts, plan>>
      /\ (op.phase = "derived" /\ op.step = "read") \/ op.phase = "minimise"
      /\ op' = [op EXCEPT !.step = "classified", !.seen = proposal, !.signals = signal]
  BY DEF Classifies, Others, data
<1>2. /\ op'.phase = op.phase /\ op'.step = "classified" /\ op'.seen = proposal
      /\ op'.signals = signal /\ op'.removed = op.removed /\ op'.surviving = op.surviving
  BY <1>1, ConfirmsFacts DEF Cursors
<1>3. type = "imported" => op.phase # "minimise"
  BY DEF Confirms, EvidenceInv, CursorIsSound
<1> QED BY <1>1, <1>2, <1>3, ConfirmsFacts, PlanStands DEF CountsInv, ImportedCounts, AccountCounts

\* The decisions are those the plan counted.
LEMMA DerivedCounts ==
  ASSUME Confirms, AppliesDerived
  PROVE  CountsInv'
<1>1. /\ UNCHANGED <<type, stored, plan>> /\ op.phase = "derived" /\ op.step = "classified"
      /\ op' = [Between("sources") EXCEPT !.removed = op.removed]
  BY DEF AppliesDerived, Others
<1>2. type = "imported"
  BY <1>1, ConfirmsFacts DEF Confirms, EvidenceInv, CursorIsSound
<1>3. /\ op.removed = Removed /\ op.surviving = Live \ Removed
      /\ op.seen = proposal /\ op.signals = signal
      /\ counts = NoCounts /\ plan = ImportedPlan(Removed, Live \ Removed)
  BY <1>1, <1>2, ConfirmsFacts DEF ImportedCounts, Plan
<1>4. PICK removed : removed = Removed
  OBVIOUS
<1>5. PICK surviving : surviving = Live \ Removed
  OBVIOUS
<1>6. PICK signalFate : signalFate = [s \in Signals |-> SignalFate(signal[s].refs, removed, surviving)]
  OBVIOUS
<1>7. PICK fate : fate = [p \in Proposals |-> ProposalFate(proposal[p], removed, surviving)]
  OBVIOUS
<1>8. plan = [items |-> Cardinality(removed),
              signals |-> Fated(signalFate, Signals, "deleted"),
              proposals |-> Fated(fate, Proposals, "deleted"),
              minimised |-> Fated(fate, Proposals, "minimised"),
              preserved |-> Fated(fate, Proposals, "preserved"),
              recomputed |-> Fated(signalFate, Signals, "pruned"),
              pruned |-> Fated(fate, Proposals, "pruned")]
  BY <1>3, <1>4, <1>5, <1>6, <1>7 DEF ImportedPlan
<1>9. PICK gone : gone = {p \in Proposals : fate[p] = "deleted" \/ Expired(proposal[p])}
  OBVIOUS
<1>10. Cardinality(gone) = Fated(fate, Proposals, "deleted")
  <2>1. gone = {p \in Proposals : fate[p] = "deleted"}
    BY <1>2, <1>9 DEF Expired
  <2> QED BY <2>1 DEF Fated
<1>11. counts' = [counts EXCEPT
          !.signals = @ + Fated(signalFate, Signals, "deleted"),
          !.proposals = @ + Cardinality(gone),
          !.minimised = @ + Fated(fate, Proposals, "minimised"),
          !.preserved = @ + Fated(fate, Proposals, "preserved"),
          !.pruned = @ + Fated(signalFate, Signals, "pruned") + Fated(fate, Proposals, "pruned")]
  BY <1>3, <1>4, <1>5, <1>6, <1>7, <1>9 DEF AppliesDerived
<1>12. /\ Fated(signalFate, Signals, "deleted") \in Nat /\ Cardinality(gone) \in Nat
       /\ Fated(fate, Proposals, "minimised") \in Nat /\ Fated(fate, Proposals, "preserved") \in Nat
       /\ Fated(signalFate, Signals, "pruned") \in Nat /\ Fated(fate, Proposals, "pruned") \in Nat
  BY <1>9, CountsAreNumbers DEF Confirms
<1>13. counts' = [items |-> 0, signals |-> plan.signals, proposals |-> plan.proposals,
                  minimised |-> plan.minimised, preserved |-> plan.preserved,
                  recomputed |-> 0, pruned |-> plan.recomputed + plan.pruned]
  <2>1. PICK c : c = counts
    OBVIOUS
  <2>2. c = [items |-> 0, signals |-> 0, proposals |-> 0, minimised |-> 0, preserved |-> 0,
             recomputed |-> 0, pruned |-> 0]
    BY <1>3, <2>1 DEF NoCounts
  <2>3. counts' = [items |-> 0, signals |-> Fated(signalFate, Signals, "deleted"),
                   proposals |-> Cardinality(gone),
                   minimised |-> Fated(fate, Proposals, "minimised"),
                   preserved |-> Fated(fate, Proposals, "preserved"), recomputed |-> 0,
                   pruned |-> Fated(signalFate, Signals, "pruned") + Fated(fate, Proposals, "pruned")]
    <3>1. /\ c.signals = 0 /\ c.proposals = 0 /\ c.minimised = 0
          /\ c.preserved = 0 /\ c.pruned = 0
      BY <2>2
    <3>2. \A n \in Nat : 0 + n = n
      OBVIOUS
    <3>3. counts' = [c EXCEPT
            !.signals = Fated(signalFate, Signals, "deleted"),
            !.proposals = Cardinality(gone),
            !.minimised = Fated(fate, Proposals, "minimised"),
            !.preserved = Fated(fate, Proposals, "preserved"),
            !.pruned = Fated(signalFate, Signals, "pruned") + Fated(fate, Proposals, "pruned")]
      BY <1>11, <1>12, <2>1, <3>1, <3>2
    <3> QED BY <2>2, <3>3
  <2> QED BY <1>8, <1>10, <2>3
<1>14. Cardinality(Removed) \in Nat /\ plan.items = Cardinality(Removed) /\ Removed' = Removed
  BY <1>1, <1>2, <1>4, <1>8, CountsAreNumbers DEF Confirms, Removed, InScope, Cutoff
<1>15. counts' \in CountTypes /\ counts'.items = 0
  <2>1. plan.recomputed \in Nat /\ plan.pruned \in Nat
    BY ConfirmsFacts DEF CountTypes
  <2>2. plan.recomputed + plan.pruned \in Nat
    BY <2>1
  <2> QED BY <1>13, <2>2, ConfirmsFacts DEF CountTypes
<1>16. op'.phase = "sources" /\ op'.step = "ready"
  BY <1>1, ConfirmsFacts, BetweenFields DEF Cursors, Phases
<1>17. ImportedCounts'
  BY <1>1, <1>13, <1>14, <1>15, <1>16 DEF ImportedCounts
<1> QED BY <1>1, <1>2, <1>15, <1>17, ConfirmsFacts DEF CountsInv

LEMMA EraseIsCounted ==
  ASSUME Confirms, NEW S \in SUBSET Items, NEW batch \in Batches(S), Erases(batch),
         counts.items + Cardinality(S) = plan.items
  PROVE  /\ counts' \in CountTypes /\ counts'.items + Cardinality(S \ batch) = plan.items
         /\ counts'.signals = counts.signals /\ counts'.proposals = counts.proposals
         /\ counts'.minimised = counts.minimised /\ counts'.preserved = counts.preserved
         /\ counts'.pruned = counts.pruned
<1>1. /\ Cardinality(batch) \in Nat /\ Cardinality(S) \in Nat /\ Cardinality(S \ batch) \in Nat
      /\ Cardinality(S \ batch) = Cardinality(S) - Cardinality(batch)
  BY BatchIsCounted, CountsAreNumbers DEF Confirms
<1>2. counts.items \in Nat /\ plan.items <= CountBound /\ CountBound \in Nat
  BY ConfirmsFacts DEF Confirms, CountsFit, CountTypes
<1>3. PICK n \in Nat : n = counts.items + Cardinality(batch)
  BY <1>1, <1>2
<1>4. n <= CountBound /\ n + Cardinality(S \ batch) = plan.items
  BY <1>1, <1>2, <1>3
<1>5. Min({n, CountBound}) = n
  BY <1>2, <1>4, MinOfTwo
<1>6. PICK c \in CountTypes : c = counts
  BY ConfirmsFacts
<1>7. counts' = [c EXCEPT !.items = n]
  BY <1>3, <1>5, <1>6 DEF Erases
<1> QED BY <1>4, <1>6, <1>7, CountColumns

LEMMA DeletesCounts ==
  ASSUME Confirms, DeletesSources
  PROVE  CountsInv'
<1>1. /\ UNCHANGED <<type, plan, signal, proposal>> /\ op.phase = "sources"
      /\ op.step = "ready"
  BY DEF DeletesSources, Others
<1>2. type = "imported" /\ Removed \in SUBSET Items
  BY <1>1, ConfirmsFacts DEF Confirms, EvidenceInv, CursorIsSound, Removed
<1>3. ImportedCounts /\ counts \in CountTypes /\ counts.items + Cardinality(Removed) = plan.items
  BY <1>1, <1>2, ConfirmsFacts DEF ImportedCounts
<1>4. CASE Removed = {}
  <2>1. /\ UNCHANGED counts
        /\ op' = [Between("done") EXCEPT !.step = "idle", !.at = Confirmed, !.removed = op.removed]
    BY <1>4 DEF DeletesSources
  <2>2. op'.phase = "done"
    BY <2>1, ConfirmsFacts, BetweenFields DEF Cursors, Phases
  <2>3. counts.items = plan.items
    <3>1. Cardinality(Removed) = 0
      BY <1>4, FS_EmptySet
    <3> QED BY <1>3, <3>1 DEF CountTypes
  <2> QED BY <1>1, <1>2, <1>3, <2>1, <2>2, <2>3, ConfirmsFacts DEF CountsInv, ImportedCounts
<1>5. CASE Removed # {}
  <2>1. PICK batch \in Batches(Removed) : Erases(batch)
    BY <1>5 DEF DeletesSources
  <2>2. op' = op
    BY <1>5 DEF DeletesSources
  <2>3. Removed' = Removed \ batch
    <3>1. \A i \in Items : stored'[i] = IF i \in batch THEN Null ELSE stored[i]
      BY <2>1 DEF Erases
    <3> QED BY <1>1, <1>2, <3>1 DEF Removed, InScope, Cutoff
  <2>4. /\ counts' \in CountTypes /\ counts'.items + Cardinality(Removed \ batch) = plan.items
        /\ counts'.signals = counts.signals /\ counts'.proposals = counts.proposals
        /\ counts'.minimised = counts.minimised /\ counts'.preserved = counts.preserved
        /\ counts'.pruned = counts.pruned
    BY <1>2, <1>3, <2>1, EraseIsCounted
  <2>5. ImportedCounts'
    BY <1>1, <1>3, <2>2, <2>3, <2>4 DEF ImportedCounts
  <2> QED BY <1>1, <1>2, <2>4, <2>5, ConfirmsFacts DEF CountsInv
<1> QED BY <1>4, <1>5

LEMMA CredentialsCounts ==
  ASSUME Confirms, ErasesCredentials
  PROVE  CountsInv'
<1>1. /\ UNCHANGED <<type, stored, signal, proposal, counts, plan>>
      /\ op.phase = "credentials" /\ op' = Between("product")
  BY DEF ErasesCredentials, Others
<1>2. op'.phase = "product" /\ op'.step = "ready"
  BY <1>1, ConfirmsFacts, BetweenFields DEF Phases
<1>3. type = "account"
  BY <1>1, ConfirmsFacts DEF Confirms, EvidenceInv, CursorIsSound
<1> QED BY <1>1, <1>2, <1>3, ConfirmsFacts, PlanStands DEF CountsInv, AccountCounts

LEMMA ProductCounts ==
  ASSUME Confirms, ErasesProduct
  PROVE  CountsInv'
<1>1. /\ UNCHANGED <<type, plan, proposal>> /\ op.phase = "product" /\ op.step = "ready"
  BY DEF ErasesProduct, Others
<1>2. type = "account" /\ Live \in SUBSET Items
  BY <1>1, ConfirmsFacts DEF Confirms, EvidenceInv, CursorIsSound, Live
<1>3. AccountCounts /\ counts \in CountTypes
  BY <1>2, ConfirmsFacts
<1>4. Attempts' = Attempts /\ Unattempted' = Unattempted
  BY <1>1 DEF Attempts, Unattempted
<1>5. CASE Live # {}
  <2>1. PICK batch \in Batches(Live) : Erases(batch)
    BY <1>5 DEF ErasesProduct
  <2>2. UNCHANGED <<op, signal>>
    BY <1>5 DEF ErasesProduct
  <2>3. Live' = Live \ batch
    BY <2>1 DEF Erases, Live
  <2>4. There' = There
    BY <2>2 DEF There
  <2>5. /\ counts' \in CountTypes /\ counts'.items + Cardinality(Live \ batch) = plan.items
        /\ counts'.signals = counts.signals /\ counts'.proposals = counts.proposals
        /\ counts'.minimised = counts.minimised /\ counts'.preserved = counts.preserved
        /\ counts'.pruned = counts.pruned
    BY <1>1, <1>2, <1>3, <2>1, EraseIsCounted DEF AccountCounts
  <2>6. AccountCounts'
    BY <1>1, <1>3, <1>4, <2>2, <2>3, <2>4, <2>5 DEF AccountCounts
  <2> QED BY <1>1, <1>2, <2>5, <2>6, ConfirmsFacts DEF CountsInv
<1>6. CASE Live = {}
  <2>1. /\ op' = Between("minimise") /\ UNCHANGED stored
        /\ signal' = [s \in Signals |-> NoSignal]
        /\ counts' = [counts EXCEPT !.signals = @ + Cardinality({s \in Signals : signal[s].there})]
    BY <1>6 DEF ErasesProduct
  <2>2. op'.phase = "minimise" /\ op'.step = "ready"
    BY <2>1, ConfirmsFacts, BetweenFields DEF Phases
  <2>3. There' = {}
    BY <2>1, NothingFields DEF There
  <2>4. Live' = Live
    BY <2>1 DEF Live
  <2>5. PICK n \in Nat : n = counts.signals + Cardinality(There)
    <3>1. There \in SUBSET Signals
      BY DEF There
    <3>2. Cardinality(There) \in Nat
      BY <3>1, CountsAreNumbers DEF Confirms
    <3>3. counts.signals \in Nat
      BY <1>3 DEF CountTypes
    <3> QED BY <3>2, <3>3
  <2>6. PICK c \in CountTypes : c = counts
    BY <1>3
  <2>7. counts' = [c EXCEPT !.signals = n]
    BY <2>1, <2>5, <2>6 DEF There
  <2>8. /\ counts' \in CountTypes /\ counts'.signals = n /\ counts'.items = counts.items
        /\ counts'.proposals = counts.proposals /\ counts'.minimised = counts.minimised
        /\ counts'.preserved = counts.preserved /\ counts'.pruned = counts.pruned
    BY <2>6, <2>7, CountColumns
  <2>9. Cardinality(There') = 0
    BY <2>3, FS_EmptySet
  <2>10. AccountCounts'
    BY <1>1, <1>3, <1>4, <1>6, <2>2, <2>3, <2>4, <2>5, <2>8, <2>9 DEF AccountCounts
  <2> QED BY <1>1, <1>2, <2>8, <2>10, ConfirmsFacts DEF CountsInv
<1> QED BY <1>5, <1>6

LEMMA MinimiseCounts ==
  ASSUME Confirms, AppliesMinimise
  PROVE  CountsInv'
<1>1. /\ UNCHANGED <<type, plan, stored, signal>> /\ op.phase = "minimise"
      /\ op.step = "classified" /\ op' = Between("finalise")
  BY DEF AppliesMinimise, Others
<1>2. type = "account"
  BY <1>1, ConfirmsFacts DEF Confirms, EvidenceInv, CursorIsSound
<1>3. AccountCounts /\ counts \in CountTypes /\ plan \in CountTypes /\ op.seen = proposal
  BY <1>1, <1>2, ConfirmsFacts DEF AccountCounts
<1>4. PICK retained : retained = Retained(op.seen)
  OBVIOUS
<1>5. PICK gone : gone = {p \in Proposals \ retained : op.seen[p].status # "absent"}
  OBVIOUS
<1>6. retained = Attempts /\ gone = Unattempted
  BY <1>3, <1>4, <1>5 DEF Retained, Attempts, Unattempted
<1>7. counts' = [counts EXCEPT !.proposals = @ + Cardinality(gone),
                               !.minimised = @ + Cardinality(retained)]
  BY <1>4, <1>5 DEF AppliesMinimise
<1>8. /\ counts.proposals = 0 /\ counts.minimised = 0
      /\ plan.proposals = Cardinality(Unattempted) /\ plan.minimised = Cardinality(Attempts)
      /\ plan.proposals \in Nat /\ plan.minimised \in Nat
  BY <1>1, <1>3 DEF AccountCounts, CountTypes
<1>9. PICK c \in CountTypes : c = counts
  BY <1>3
<1>10. counts' = [c EXCEPT !.proposals = plan.proposals, !.minimised = plan.minimised]
  <2>1. c.proposals = 0 /\ c.minimised = 0
    BY <1>8, <1>9
  <2>2. \A n \in Nat : 0 + n = n
    OBVIOUS
  <2>3. /\ 0 + Cardinality(Unattempted) = plan.proposals
        /\ 0 + Cardinality(Attempts) = plan.minimised
    BY <1>8, <2>2
  <2>4. counts' = [c EXCEPT !.proposals = c.proposals + Cardinality(Unattempted),
                            !.minimised = c.minimised + Cardinality(Attempts)]
    BY <1>6, <1>7, <1>9
  <2> QED BY <2>1, <2>3, <2>4
<1>11. /\ counts' \in CountTypes /\ counts'.proposals = plan.proposals
       /\ counts'.minimised = plan.minimised /\ counts'.items = c.items
       /\ counts'.signals = c.signals /\ counts'.preserved = c.preserved
       /\ counts'.pruned = c.pruned
  BY <1>8, <1>10 DEF CountTypes
<1>12. counts.items = plan.items /\ counts.signals = plan.signals
  <2>1. Cardinality(Live) = 0 /\ Cardinality(There) = 0
    BY <1>1, <1>3, FS_EmptySet DEF AccountCounts
  <2> QED BY <1>1, <1>3, <2>1 DEF AccountCounts, CountTypes
<1>13. op'.phase = "finalise" /\ op'.step = "ready"
  BY <1>1, ConfirmsFacts, BetweenFields DEF Phases
<1>14. AccountCounts'
  BY <1>1, <1>3, <1>9, <1>11, <1>12, <1>13 DEF AccountCounts
<1> QED BY <1>1, <1>2, <1>11, <1>14, ConfirmsFacts DEF CountsInv

LEMMA FinalisesCounts ==
  ASSUME Confirms, Finalises
  PROVE  CountsInv'
<1>1. /\ UNCHANGED <<type, stored, signal, proposal, counts, plan>> /\ op.phase = "finalise"
      /\ op' = [Between("done") EXCEPT !.step = "idle"]
  BY DEF Finalises, Others, data
<1>2. op'.phase = "done" /\ op'.step = "idle"
  BY <1>1, ConfirmsFacts, BetweenFields DEF Cursors, Phases
<1>3. type = "account"
  BY <1>1, ConfirmsFacts DEF Confirms, EvidenceInv, CursorIsSound
<1> QED BY <1>1, <1>2, <1>3, ConfirmsFacts DEF CountsInv, AccountCounts

\* What a death rolls back has not been overtaken: nothing was late.
LEMMA DiesCounts ==
  ASSUME Confirms, Dies
  PROVE  CountsInv'
<1>1. /\ UNCHANGED <<type, stored, counts, plan>> /\ op.step # "idle"
  BY DEF Dies, Others
<1>2. op'.phase = op.phase /\ op'.step = "idle" /\ op.phase # "done"
  <2>1. op.phase \in Phases
    BY ConfirmsFacts DEF Cursors
  <2>2. PICK x \in Cursors : x = Between(op.phase) /\ x.phase = op.phase
    BY <2>1, ConfirmsFacts, BetweenFields
  <2> QED BY <1>1, <2>2 DEF Dies, Cursors, Confirms, EvidenceInv, CursorIsSound
<1>3. proposal' = proposal
  <2>1. CASE op.step # "classified"
    BY <2>1 DEF Dies
  <2>2. CASE op.step = "classified"
    <3>1. op.seen = proposal
      BY <1>2, <2>2, ConfirmsFacts DEF ImportedCounts, AccountCounts, Confirms, EvidenceInv, CursorIsSound
    <3>2. ASSUME NEW p \in Proposals PROVE Undecided(proposal[p]) = proposal[p]
      <4>1. PICK r \in ProposalRows : r = proposal[p]
        BY RowFacts DEF Confirms
      <4>2. Fresh(p, r)
        BY <2>2, <3>1, <4>1, SeenFacts DEF Confirms
      <4>3. /\ Again(r.payload) = r.payload /\ Again(r.snapshot) = r.snapshot
            /\ Again(r.executed) = r.executed /\ Again(r.result) = r.result
        BY <4>2 DEF Fresh, Kept, Again
      <4>4. Undecided(r) = r
        BY <4>1, <4>3 DEF Undecided, ProposalRows
      <4> QED BY <4>1, <4>4
    <3>3. proposal' = [p \in Proposals |-> Undecided(proposal[p])]
      BY <2>2 DEF Dies
    <3>4. proposal = [p \in Proposals |-> proposal[p]]
      BY DEF Confirms, EvidenceInv
    <3> QED BY <3>2, <3>3, <3>4
  <2> QED BY <2>1, <2>2
<1>4. signal' = signal
  <2>1. CASE ~(op.step = "classified" /\ op.phase = "derived")
    BY <2>1 DEF Dies
  <2>2. CASE op.step = "classified" /\ op.phase = "derived"
    <3>1. op.signals = signal
      BY <2>2, ConfirmsFacts DEF ImportedCounts, Confirms, EvidenceInv, CursorIsSound
    <3>2. ASSUME NEW s \in Signals PROVE [signal[s] EXCEPT !.late = FALSE] = signal[s]
      <4>1. PICK r \in SignalRows : r = signal[s]
        BY DEF Confirms, EvidenceInv
      <4>2. r.late = FALSE
        <5>1. ~r.late
          BY <2>2, <3>1, <4>1 DEF Confirms, EvidenceInv, SeenIsSound
        <5> QED BY <4>1, <5>1 DEF SignalRows
      <4>3. [r EXCEPT !.late = FALSE] = r
        BY <4>1, <4>2 DEF SignalRows
      <4> QED BY <4>1, <4>3
    <3>3. signal' = [s \in Signals |-> [signal[s] EXCEPT !.late = FALSE]]
      BY <2>2 DEF Dies
    <3>4. signal = [s \in Signals |-> signal[s]]
      BY DEF Confirms, EvidenceInv
    <3> QED BY <3>2, <3>3, <3>4
  <2> QED BY <2>1, <2>2
<1> QED BY <1>1, <1>2, <1>3, <1>4, ConfirmsFacts, PlanStands
        DEF CountsInv, ImportedCounts, AccountCounts

LEMMA WorkCounts ==
  ASSUME Confirms, Works \/ Dies
  PROVE  CountsInv'
BY ClaimsCounts, ReadsCounts, ClassifiesCounts, DerivedCounts, DeletesCounts, CredentialsCounts,
   ProductCounts, MinimiseCounts, FinalisesCounts, DiesCounts DEF Works

\* A request that proceeds moves something else.
LEMMA RequestsVoidThePlan == Next => Works \/ Dies \/ plan' = Null
<1>1. (SignedIn => plan' = Null) /\ (Proceeds => plan' = Null)
  BY DEF SignedIn, Proceeds
<1>2. ASSUME NEW p \in Proposals,
             Edits(p) \/ Approves(p) \/ Rejects(p) \/ Lapses(p) \/ Executes(p) \/ Finishes(p)
      PROVE  plan' = Null
  BY <1>1, <1>2 DEF Edits, Approves, Rejects, Lapses, Executes, Finishes, Admitted
<1>3. ASSUME NEW i \in Items, SyncBegins(i)
      PROVE  plan' = Null
  BY <1>3 DEF SyncBegins, Admitted
<1>4. SyncEnds \/ GenerationBegins \/ GenerationCommits \/ GenerationFails \/ TimePasses
        => plan' = Null
  BY <1>1 DEF SyncEnds, GenerationBegins, GenerationCommits, GenerationFails, TimePasses, Admitted
<1> QED BY <1>2, <1>3, <1>4 DEF Next

LEMMA WorkKeepsThePlan ==
  ASSUME Works \/ Dies
  PROVE  UNCHANGED <<type, plan>>
BY DEF Works, Claims, ReadsEvidence, Classifies, AppliesDerived, DeletesSources, ErasesCredentials,
       ErasesProduct, AppliesMinimise, Finalises, Dies, Others

LEMMA CountsStep ==
  ASSUME CountsFit, EvidenceInv, CountsInv, [Next]_vars
  PROVE  CountsInv'
<1>1. CASE plan' = Null
  BY <1>1 DEF CountsInv
<1>2. CASE Works \/ Dies
  <2>1. CASE plan = Null \/ type = "retention"
    BY <1>2, <2>1, WorkKeepsThePlan DEF CountsInv
  <2>2. CASE plan # Null /\ type # "retention"
    BY <1>2, <2>2, WorkCounts DEF Confirms
  <2> QED BY <2>1, <2>2
<1>3. CASE UNCHANGED vars
  <2>1. UNCHANGED <<type, stored, signal, proposal, counts, plan, op>>
    BY <1>3 DEF vars, data
  <2>2. CASE plan = Null \/ type = "retention"
    BY <2>1, <2>2 DEF CountsInv
  <2>3. CASE plan # Null /\ type # "retention"
    <3>1. Confirms
      BY <2>3 DEF Confirms
    <3> QED BY <2>1, <3>1, ConfirmsFacts, PlanStands
            DEF CountsInv, ImportedCounts, AccountCounts
  <2> QED BY <2>2, <2>3
<1> QED BY <1>1, <1>2, <1>3, RequestsVoidThePlan

LEMMA CountsInit ==
  ASSUME CountsFit, EvidenceInv, Init
  PROVE  CountsInv
<1>1. /\ op = Idle /\ counts = NoCounts /\ plan = Plan
      /\ type \in {"imported", "retention", "account"}
  BY DEF Init
<1>2. op.phase = FirstPhase /\ op.step = "idle"
  BY <1>1 DEF Idle
<1>3. Cardinality(Live) \in 0..CountBound /\ Cardinality(Removed) \in 0..CountBound
  BY CountsAreNumbers DEF Live, Removed
<1>4. Cardinality(There) \in Nat
  BY CountsAreNumbers DEF There
<1>5. CASE type = "imported"
  <2>1. plan = ImportedPlan(Removed, Live \ Removed) /\ op.phase = "derived"
    BY <1>1, <1>2, <1>5 DEF Plan, FirstPhase
  <2>2. /\ plan \in CountTypes /\ plan.items = Cardinality(Removed)
    BY <2>1, ImportedPlanFields
  <2>3. 0 + Cardinality(Removed) = plan.items /\ plan.items <= CountBound
    BY <1>3, <2>2 DEF CountsFit
  <2> QED BY <1>1, <1>2, <1>5, <2>1, <2>2, <2>3, NoCountsFields DEF CountsInv, ImportedCounts
<1>6. CASE type = "account"
  <2>1. plan = AccountPlan /\ op.phase = "credentials"
    BY <1>1, <1>2, <1>6 DEF Plan, FirstPhase
  <2>2. 0 + Cardinality(Live) = plan.items /\ plan.items <= CountBound
    BY <1>3, <2>1, AccountPlanFields DEF CountsFit
  <2>3. 0 + Cardinality(There) = plan.signals
    BY <1>4, <2>1, AccountPlanFields
  <2> QED BY <1>1, <1>2, <1>6, <2>1, <2>2, <2>3, NoCountsFields, AccountPlanFields
          DEF CountsInv, AccountCounts
<1>7. CASE type = "retention"
  BY <1>7 DEF CountsInv
<1> QED BY <1>1, <1>5, <1>6, <1>7

LEMMA CountsTell ==
  ASSUME CountsFit, EvidenceInv, CountsInv
  PROVE  PlanIsWhatHappens
<1> SUFFICES ASSUME plan # Null, op.phase = "done", type # "retention"
             PROVE  /\ counts.items = plan.items /\ counts.signals = plan.signals
                    /\ counts.proposals = plan.proposals /\ counts.minimised = plan.minimised
                    /\ counts.preserved = plan.preserved
                    /\ counts.pruned = plan.recomputed + plan.pruned
  BY DEF PlanIsWhatHappens
<1>1. Confirms
  BY DEF Confirms
<1> QED BY <1>1, ConfirmsFacts DEF ImportedCounts, AccountCounts

\* As much as the user confirmed is deleted, kept and pruned, over every batch
\* and death of the worker, when nothing else has moved
\* (deletion_planner.py:253), what loses a reference being planned under two
\* categories and reported under one.
THEOREM PlansAreKept ==
  ASSUME CountsFit
  PROVE  Spec => []PlanIsWhatHappens
<1>1. Init /\ EvidenceInv => CountsInv
  BY CountsInit
<1>2. EvidenceInv /\ CountsInv /\ [Next]_vars => CountsInv'
  BY CountsStep
<1>3. EvidenceInv /\ CountsInv => PlanIsWhatHappens
  BY CountsTell
<1> QED BY <1>1, <1>2, <1>3, EvidenceIsSound, PTL DEF Spec
=============================================================================
