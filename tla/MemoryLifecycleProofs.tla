------------------------- MODULE MemoryLifecycleProofs -------------------------
(***************************************************************************)
(* Theorems about MemoryLifecycle, for any number of drafts, sign-offs,    *)
(* workers and recomputes.                                                 *)
(*                                                                         *)
(* The argument: a version of the item has one value, so what the page     *)
(* shows at the item's version is the item's value, and confirming it      *)
(* confirms what was shown.  A job's observations are at most one for each *)
(* draft, whatever has become of the drafts since, so what it records is   *)
(* too.  The dominant value of finitely many observations exists, since    *)
(* its ranking is a total order.                                           *)
(***************************************************************************)
EXTENDS MemoryLifecycle, FiniteSetTheorems, WellFoundedInduction, TLAPS

-----------------------------------------------------------------------------
(* Finite sets in an order: the latest observation and the dominant value  *)
(* are the top of one.                                                     *)

\* A finite set that is totally preordered has a top: the element that the
\* fewest others are not below.
LEMMA FiniteTop ==
  ASSUME NEW V, IsFiniteSet(V), V # {}, NEW R,
         \A v, w \in V : <<v, w>> \in R \/ <<w, v>> \in R,
         \A u, v, w \in V : <<u, v>> \in R /\ <<v, w>> \in R => <<u, w>> \in R
  PROVE  \E v \in V : \A w \in V : <<v, w>> \in R
<1> DEFINE Above(v) == {w \in V : <<v, w>> \notin R}
           T == {Above(v) : v \in V}
<1>1. T \subseteq FiniteSubsetsOf(V) /\ T # {}
  <2>1. \A v \in V : Above(v) \in SUBSET V
    OBVIOUS
  <2>2. PICK v \in V : TRUE
    OBVIOUS
  <2>3. Above(v) \in T
    OBVIOUS
  <2>4. T \subseteq SUBSET V
    BY <2>1
  <2>5. FiniteSubsetsOf(V) = SUBSET V
    BY FS_FiniteSubsetsOfFinite
  <2> HIDE DEF T
  <2> QED BY <2>3, <2>4, <2>5
<1>2. PICK x \in T : \A y \in T : ~ (<<y, x>> \in StrictSubsetOrdering(V))
  BY <1>1, FS_StrictSubsetOrderingWellFounded, WFMin
<1>3. PICK v \in V : x = Above(v)
  OBVIOUS
<1>4. ASSUME NEW w \in V, <<v, w>> \notin R PROVE FALSE
  <2>1. <<w, v>> \in R /\ <<w, w>> \in R
    BY <1>4
  <2>2. Above(w) \subseteq Above(v) /\ w \in Above(v) /\ w \notin Above(w)
    BY <1>4, <2>1
  <2>3. <<Above(w), x>> \in StrictSubsetOrdering(V)
    BY <1>3, <2>2 DEF StrictSubsetOrdering
  <2> QED BY <1>2, <2>3
<1> QED BY <1>4

LEMMA FiniteMax ==
  ASSUME NEW S \in SUBSET Int, IsFiniteSet(S), S # {}
  PROVE  \E x \in S : \A y \in S : x >= y
<1> DEFINE R == {p \in S \X S : p[1] >= p[2]}
<1>1. \A x, y \in S : /\ x \in Int /\ y \in Int
                      /\ <<x, y>> \in R <=> x >= y
  OBVIOUS
<1> HIDE DEF R
<1>2. \A v, w \in S : <<v, w>> \in R \/ <<w, v>> \in R
  <2> TAKE v, w \in S
  <2>1. v >= w \/ w >= v
    BY <1>1
  <2> QED BY <1>1, <2>1
<1>3. \A u, v, w \in S : <<u, v>> \in R /\ <<v, w>> \in R => <<u, w>> \in R
  BY <1>1
<1>4. \E v \in S : \A w \in S : <<v, w>> \in R
  BY <1>2, <1>3, FiniteTop
<1> QED BY <1>1, <1>4

\* The image of a finite set under a function is finite.
LEMMA FiniteImage ==
  ASSUME NEW S, IsFiniteSet(S), NEW f, NEW T, T = {f[x] : x \in S}
  PROVE  IsFiniteSet(T)
<1> DEFINE g == [x \in S |-> f[x]]
<1>1. g \in Surjection(S, T)
  BY DEF Surjection
<1> QED BY <1>1, FS_Surjection

-----------------------------------------------------------------------------
(* The inductive invariant.                                                *)

Drafts == [state : {"edited", "approved", "closed"}, value : Signoffs \cup {NoSignoff},
           at : 0..MaxClock]
Prints == [value : Signoffs \cup {NoSignoff}, ids : SUBSET Proposals]
Items(ids) == [id : 1..ids, value : Signoffs, status : MemoryStatus, agreeing : Nat,
               total : Nat, latest : 0..MaxClock, version : Nat \ {0}, dismissed : Prints]
Jobs == [step : {"idle", "gathered"}, seen : SUBSET Observation, now : 0..MaxClock]

Approved == {p \in Proposals : draft[p].state = "approved"}
Gathered == {w \in Workers : job[w].step = "gathered"}

\* Every observation is of a draft of its own.
OneEach(obs) == IsFiniteSet(obs) /\ \A o, n \in obs : o.prop = n.prop => o = n

\* Every item id is that of a recompute that has ended.
RunsAreCounted == IsFiniteSet(Gathered) /\ drawn + Cardinality(Gathered) <= runs

\* What the page shows at the item's version is the item's value.
ViewIsCurrent ==
  item # NoItem /\ seen.id = item.id =>
    /\ seen.version <= item.version
    /\ seen.version = item.version => seen.value = item.value

LearnedInv ==
  /\ MemoryTypeOK
  /\ IsFiniteSet(Approved) /\ RunsAreCounted
  /\ \A w \in Workers : OneEach(job[w].seen)
  /\ ConfirmedHasAuthority /\ EvidenceCountsOnce
  /\ ViewIsCurrent /\ OnlyConsentedSignoffs

-----------------------------------------------------------------------------
(* Observations and what they come to.                                     *)

LEMMA MaxIsTop ==
  ASSUME NEW S \in SUBSET Int, IsFiniteSet(S), S # {}
  PROVE  Max(S) \in S /\ \A y \in S : Max(S) >= y
BY FiniteMax DEF Max

LEMMA ObservationTypes ==
  ASSUME NEW obs \in SUBSET Observation, NEW o \in obs
  PROVE  o.prop \in Proposals /\ o.value \in Signoffs /\ o.at \in 0..MaxClock
BY DEF Observation

\* The latest of some observations is one of their times.
LEMMA LatestIsOne ==
  ASSUME NEW obs \in SUBSET Observation, IsFiniteSet(obs), obs # {}
  PROVE  Latest(obs) \in 0..MaxClock
<1> DEFINE S == {o.at : o \in obs}
<1>1. S \in SUBSET Int /\ S \in SUBSET (0..MaxClock) /\ S # {}
  BY MemoryBounds DEF Observation
<1>2. IsFiniteSet(S)
  <2>1. PICK f : f = [o \in obs |-> o.at]
    OBVIOUS
  <2>2. S = {f[o] : o \in obs}
    BY <2>1
  <2> HIDE DEF S
  <2> QED BY <2>2, FiniteImage
<1> QED BY <1>1, <1>2, MaxIsTop DEF Latest

LEMMA AgreeingIsFinite ==
  ASSUME NEW obs \in SUBSET Observation, IsFiniteSet(obs), NEW v \in {o.value : o \in obs}
  PROVE  /\ Agreeing(obs, v) \in SUBSET obs /\ Agreeing(obs, v) # {}
         /\ IsFiniteSet(Agreeing(obs, v)) /\ Cardinality(Agreeing(obs, v)) \in Nat
         /\ Latest(Agreeing(obs, v)) \in 0..MaxClock
<1>1. Agreeing(obs, v) \in SUBSET obs /\ Agreeing(obs, v) # {}
  BY DEF Agreeing
<1>2. IsFiniteSet(Agreeing(obs, v)) /\ Cardinality(Agreeing(obs, v)) \in Nat
  BY <1>1, FS_Subset, FS_CardinalityType
<1>3. PICK A \in SUBSET Observation : A = Agreeing(obs, v)
  BY <1>1
<1>4. Latest(A) \in 0..MaxClock
  BY <1>1, <1>2, <1>3, LatestIsOne
<1> QED BY <1>1, <1>2, <1>3, <1>4

\* The dominant value is one that was observed, and outranks them all: the
\* reduction of memory_registry.py is a function of the observations, whatever
\* order they are read in.
LEMMA DominantValueRanksFirst ==
  ASSUME NEW obs \in SUBSET Observation, IsFiniteSet(obs), obs # {}
  PROVE  /\ DominantValue(obs) \in {o.value : o \in obs}
         /\ \A w \in {o.value : o \in obs} : Outranks(obs, DominantValue(obs), w)
         /\ DominantValue(obs) \in Signoffs
<1> DEFINE V == {o.value : o \in obs}
           n(x) == Cardinality(Agreeing(obs, x))
           l(x) == Latest(Agreeing(obs, x))
           R == {p \in V \X V : Outranks(obs, p[1], p[2])}
<1>1. V \in SUBSET Signoffs /\ V # {} /\ IsFiniteSet(V)
  <2>1. PICK f : f = [o \in obs |-> o.value]
    OBVIOUS
  <2>2. V = {f[o] : o \in obs}
    BY <2>1
  <2>3. V \in SUBSET Signoffs /\ V # {}
    BY DEF Observation
  <2> HIDE DEF V
  <2> QED BY <2>2, <2>3, FiniteImage
<1>2. \A x \in V : n(x) \in Nat /\ l(x) \in Nat /\ x \in Nat
  <2>1. \A t \in 0..MaxClock : t \in Nat
    BY MemoryBounds
  <2>2. \A x \in V : x \in Nat
    BY <1>1, MemoryIdsAreOrdered
  <2> QED BY <2>1, <2>2, AgreeingIsFinite
<1>3. \A v, w \in V : Outranks(obs, v, w) <=>
        \/ n(v) > n(w)
        \/ n(v) = n(w) /\ l(v) > l(w)
        \/ n(v) = n(w) /\ l(v) = l(w) /\ v >= w
  BY DEF Outranks
<1>4. \A v, w \in V : <<v, w>> \in R <=> Outranks(obs, v, w)
  OBVIOUS
<1> HIDE DEF R, V, n, l
<1>5. \A v, w \in V : <<v, w>> \in R \/ <<w, v>> \in R
  <2> TAKE v, w \in V
  <2>1. /\ n(v) \in Nat /\ l(v) \in Nat /\ v \in Nat
        /\ n(w) \in Nat /\ l(w) \in Nat /\ w \in Nat
    BY <1>2
  <2>2. Outranks(obs, v, w) \/ Outranks(obs, w, v)
    BY <1>3, <2>1
  <2> QED BY <1>4, <2>2
<1>6. \A u, v, w \in V : <<u, v>> \in R /\ <<v, w>> \in R => <<u, w>> \in R
  <2> SUFFICES ASSUME NEW u \in V, NEW v \in V, NEW w \in V, <<u, v>> \in R, <<v, w>> \in R
               PROVE  <<u, w>> \in R
    OBVIOUS
  <2>1. /\ n(v) \in Nat /\ l(v) \in Nat /\ v \in Nat
        /\ n(w) \in Nat /\ l(w) \in Nat /\ w \in Nat
        /\ n(u) \in Nat /\ l(u) \in Nat /\ u \in Nat
    BY <1>2
  <2>2. Outranks(obs, u, v) /\ Outranks(obs, v, w)
    BY <1>4
  <2>3. Outranks(obs, u, w)
    BY <1>3, <2>1, <2>2
  <2> QED BY <1>4, <2>3
<1>7. \E v \in V : \A w \in V : <<v, w>> \in R
  BY <1>1, <1>5, <1>6, FiniteTop
<1>8. \E v \in V : \A w \in V : Outranks(obs, v, w)
  BY <1>4, <1>7
<1>9. DominantValue(obs) = CHOOSE v \in V : \A w \in V : Outranks(obs, v, w)
  BY DEF DominantValue, V
<1>10. DominantValue(obs) \in V /\ \A w \in V : Outranks(obs, DominantValue(obs), w)
  BY <1>8, <1>9
<1> QED BY <1>1, <1>10 DEF V

Evaluations == [value : Signoffs, agreeing : Nat, total : Nat, latest : 0..MaxClock,
                print : [value : Signoffs, ids : SUBSET Proposals]]

LEMMA EvaluatedIsTyped ==
  ASSUME NEW obs \in SUBSET Observation, IsFiniteSet(obs), obs # {}
  PROVE  Evaluated(obs) \in Evaluations
<1>1. PICK v : v = DominantValue(obs)
  OBVIOUS
<1>2. v \in Signoffs /\ v \in {o.value : o \in obs}
  BY <1>1, DominantValueRanksFirst
<1>3. PICK A : A = Agreeing(obs, v)
  OBVIOUS
<1>4. A \in SUBSET obs /\ Cardinality(A) \in Nat /\ Latest(A) \in 0..MaxClock
  BY <1>2, <1>3, AgreeingIsFinite
<1>5. Cardinality(obs) \in Nat
  BY FS_CardinalityType
<1>6. {o.prop : o \in A} \in SUBSET Proposals
  BY <1>4 DEF Observation
<1>7. Evaluated(obs) = [value |-> v, agreeing |-> Cardinality(A), total |-> Cardinality(obs),
                        latest |-> Latest(A),
                        print |-> [value |-> v, ids |-> {o.prop : o \in A}]]
  BY <1>1, <1>3 DEF Evaluated, Fingerprint
<1> QED BY <1>2, <1>4, <1>5, <1>6, <1>7 DEF Evaluations

\* The rescan observes each approved draft at most once.
LEMMA ObservedOnce ==
  ASSUME MemoryTypeOK, IsFiniteSet(Approved)
  PROVE  Observations \in SUBSET Observation /\ OneEach(Observations)
<1>1. draft \in [Proposals -> Drafts]
  BY DEF MemoryTypeOK, Drafts
<1> DEFINE Q == {q \in Rescanned : draft[q].value # NoSignoff}
<1>2. Q \in SUBSET Approved /\ Q \in SUBSET Proposals
  BY DEF Rescanned, Approved
<1>3. PICK f : f = [p \in Q |-> [prop |-> p, value |-> draft[p].value, at |-> draft[p].at]]
  OBVIOUS
<1>4. IsFiniteSet(Observations)
  <2>1. IsFiniteSet(Q)
    BY <1>2, FS_Subset
  <2>2. Observations = {f[p] : p \in Q}
    BY <1>3 DEF Observations
  <2> HIDE DEF Q
  <2> QED BY <2>1, <2>2, FiniteImage
<1>5. Observations \in SUBSET Observation
  <2> SUFFICES ASSUME NEW p \in Q
               PROVE  [prop |-> p, value |-> draft[p].value, at |-> draft[p].at] \in Observation
    BY DEF Observations
  <2>1. draft[p] \in Drafts /\ draft[p].value # NoSignoff /\ p \in Proposals
    BY <1>1, <1>2
  <2> QED BY <2>1 DEF Drafts, Observation
<1>6. ASSUME NEW o \in Observations, NEW n \in Observations, o.prop = n.prop PROVE o = n
  <2>1. PICK p \in Q : o = [prop |-> p, value |-> draft[p].value, at |-> draft[p].at]
    BY DEF Observations
  <2>2. PICK q \in Q : n = [prop |-> q, value |-> draft[q].value, at |-> draft[q].at]
    BY DEF Observations
  <2> QED BY <1>6, <2>1, <2>2
<1> QED BY <1>4, <1>5, <1>6 DEF OneEach

\* What a job records beside the rows there are is one row for each draft.
LEMMA RecordsOnce ==
  ASSUME NEW obs \in SUBSET Observation, OneEach(obs),
         NEW rows \in SUBSET EvidenceRow, \A r, s \in rows : r.prop = s.prop => r = s
  PROVE  /\ Recorded(rows, obs) \in SUBSET EvidenceRow
         /\ \A r, s \in Recorded(rows, obs) : r.prop = s.prop => r = s
<1> DEFINE Fresh == {n \in obs : \A r \in rows : r.prop # n.prop}
           Row(o) == [prop |-> o.prop, value |-> o.value]
<1>1. \A r : r \in Recorded(rows, obs) <=> r \in rows \/ \E o \in Fresh : r = Row(o)
  BY DEF Recorded
<1>2. \A o \in obs : Row(o) \in EvidenceRow /\ Row(o).prop = o.prop
  BY DEF Observation, EvidenceRow
<1>3. \A o \in Fresh : o \in obs /\ \A r \in rows : r.prop # o.prop
  OBVIOUS
<1>4. \A o, n \in Fresh : o.prop = n.prop => Row(o) = Row(n)
  BY DEF OneEach
<1> HIDE DEF Fresh, Row
<1> QED BY <1>1, <1>2, <1>3, <1>4

-----------------------------------------------------------------------------
(* The reconciliation.                                                     *)

SuggestedStatus(ev, pref, now) ==
  IF pref # Unset THEN "superseded"
  ELSE IF BelowFloor(ev.agreeing, ev.total, ev.latest, now) THEN "expired" ELSE "candidate"

\* What one recompute makes of the item, whatever its status was.
LEMMA ReconciledFields ==
  ASSUME NEW ids, NEW it \in Items(ids), NEW ev \in Evaluations,
         NEW pref \in Signoffs \cup {Unset}, NEW now,
         NEW x, x = Reconciled(it, ev, pref, now)
  PROVE  /\ x \in Items(ids) /\ x.id = it.id /\ x.version = it.version
         /\ it.status = "dismissed" =>
              IF it.dismissed = ev.print
                THEN x.status = "dismissed" /\ x.value = it.value /\ x.dismissed = it.dismissed
                ELSE x.status = "candidate" /\ x.value = ev.value
         /\ it.status = "confirmed" =>
              IF pref = Unset THEN x.status = "candidate"
              ELSE IF pref # it.value THEN x.status = "superseded"
              ELSE x.status = "confirmed" /\ x.value = it.value
         /\ it.status \notin {"dismissed", "confirmed"} =>
              x.value = ev.value /\ x.status = SuggestedStatus(ev, pref, now)
<1>1. PICK fresh : fresh = Refreshed(it, ev)
  OBVIOUS
<1>2. /\ fresh \in Items(ids) /\ fresh.id = it.id /\ fresh.version = it.version
      /\ fresh.status = it.status /\ fresh.value = it.value /\ fresh.dismissed = it.dismissed
  <2> DEFINE r1 == [it EXCEPT !.agreeing = ev.agreeing]
             r2 == [r1 EXCEPT !.total = ev.total]
             r3 == [r2 EXCEPT !.latest = ev.latest]
  <2>1. ev.agreeing \in Nat /\ ev.total \in Nat /\ ev.latest \in 0..MaxClock
    BY DEF Evaluations
  <2>2. fresh = r3
    BY <1>1 DEF Refreshed, Items
  <2> QED BY <2>1, <2>2 DEF Items
<1>3. /\ ev.value \in Signoffs /\ NoPrint \in Prints
      /\ SuggestedStatus(ev, pref, now) \in MemoryStatus
  BY DEF Evaluations, NoPrint, Prints, SuggestedStatus, MemoryStatus
<1>4. CASE it.status = "dismissed"
  <2>1. x = Reconsidered(fresh, ev)
    BY <1>1, <1>4 DEF Reconciled
  <2>2. CASE it.dismissed = ev.print
    BY <1>2, <1>4, <2>1, <2>2 DEF Reconsidered
  <2>3. CASE it.dismissed # ev.print
    <3> DEFINE r1 == [fresh EXCEPT !.status = "candidate"]
               r2 == [r1 EXCEPT !.value = ev.value]
               r3 == [r2 EXCEPT !.dismissed = NoPrint]
    <3>1. x = r3
      BY <1>2, <2>1, <2>3 DEF Reconsidered, Items
    <3> QED BY <1>2, <1>3, <1>4, <2>3, <3>1 DEF Items, MemoryStatus
  <2> QED BY <2>2, <2>3
<1>5. CASE it.status = "confirmed"
  <2>1. x = Reaffirmed(fresh, ev, pref)
    BY <1>1, <1>5 DEF Reconciled
  <2>2. CASE pref = Unset
    <3> DEFINE r1 == [fresh EXCEPT !.status = "candidate"]
               r2 == [r1 EXCEPT !.value = ev.value]
    <3>1. x = r2
      BY <1>2, <2>1, <2>2 DEF Reaffirmed, Items
    <3> QED BY <1>2, <1>3, <1>5, <2>2, <3>1 DEF Items, MemoryStatus
  <2>3. CASE pref # Unset /\ pref # it.value
    <3>1. x = [fresh EXCEPT !.status = "superseded"]
      BY <1>2, <2>1, <2>3 DEF Reaffirmed
    <3> QED BY <1>2, <1>5, <2>3, <3>1 DEF Items, MemoryStatus
  <2>4. CASE pref # Unset /\ pref = it.value
    BY <1>2, <1>5, <2>1, <2>4 DEF Reaffirmed
  <2> QED BY <2>2, <2>3, <2>4
<1>6. CASE it.status \notin {"dismissed", "confirmed"}
  <2>1. x = Suggested(fresh, ev, pref, now)
    BY <1>1, <1>6 DEF Reconciled
  <2> DEFINE r1 == [fresh EXCEPT !.value = ev.value]
             r2 == [r1 EXCEPT !.status = SuggestedStatus(ev, pref, now)]
  <2>2. x = r2
    BY <1>2, <2>1 DEF Suggested, SuggestedStatus, Items
  <2> QED BY <1>2, <1>3, <1>6, <2>2 DEF Items
<1> QED BY <1>4, <1>5, <1>6

LEMMA ItemTypes ==
  ASSUME MemoryTypeOK
  PROVE  /\ item = NoItem \/ item \in Items(drawn)
         /\ explicit \in Signoffs \cup {Unset} /\ drawn \in Nat /\ runs \in Nat
         /\ NoItem.id = 0 /\ item.id \in 0..drawn
BY MemoryBounds DEF MemoryTypeOK, Items, Prints, NoItem

\* Two recomputes of the same drafts beside the same preference leave an item
\* that a third one does not change.
LEMMA ThirdChangesNothing ==
  ASSUME MemoryTypeOK, IsFiniteSet(Approved) PROVE RecomputeSettles
<1> SUFFICES ASSUME item # NoItem, Observations # {} PROVE RecomputeSettles
  BY DEF RecomputeSettles
<1>1. PICK ev : ev = Evaluated(Observations)
  OBVIOUS
<1>2. ev \in Evaluations
  BY <1>1, ObservedOnce, EvaluatedIsTyped DEF OneEach
<1>3. PICK pref : pref = explicit
  OBVIOUS
<1>4. pref \in Signoffs \cup {Unset} /\ item \in Items(drawn)
  BY <1>3, ItemTypes
<1>5. PICK now : now = clock
  OBVIOUS
<1>6. PICK once : once = Reconciled(item, ev, pref, now)
  OBVIOUS
<1>7. PICK twice : twice = Reconciled(once, ev, pref, now)
  OBVIOUS
<1>8. PICK again : again = Reconciled(twice, ev, pref, now)
  OBVIOUS
<1>9. once \in Items(drawn)
  BY <1>2, <1>4, <1>6, ReconciledFields
<1>10. twice \in Items(drawn)
  BY <1>2, <1>4, <1>7, <1>9, ReconciledFields
<1> DEFINE Step(it, x) ==
      /\ it.status = "dismissed" =>
           IF it.dismissed = ev.print
             THEN x.status = "dismissed" /\ x.value = it.value /\ x.dismissed = it.dismissed
             ELSE x.status = "candidate" /\ x.value = ev.value
      /\ it.status = "confirmed" =>
           IF pref = Unset THEN x.status = "candidate"
           ELSE IF pref # it.value THEN x.status = "superseded"
           ELSE x.status = "confirmed" /\ x.value = it.value
      /\ it.status \notin {"dismissed", "confirmed"} =>
           x.value = ev.value /\ x.status = SuggestedStatus(ev, pref, now)
<1>11. Step(item, once)
  BY <1>2, <1>4, <1>6, ReconciledFields
<1>12. Step(once, twice)
  BY <1>2, <1>4, <1>7, <1>9, ReconciledFields
<1>13. Step(twice, again)
  BY <1>2, <1>4, <1>8, <1>10, ReconciledFields
<1>14. SuggestedStatus(ev, pref, now) \in {"superseded", "expired", "candidate"}
  BY DEF SuggestedStatus
<1>15. again.status = twice.status /\ again.value = twice.value
  BY <1>11, <1>12, <1>13, <1>14
<1> QED BY <1>1, <1>3, <1>5, <1>6, <1>7, <1>8, <1>15 DEF RecomputeSettles, Again, Visible

-----------------------------------------------------------------------------
(* Types.                                                                  *)

Views == [id : 0..drawn, version : Nat, value : Signoffs \cup {NoSignoff}]

LEMMA Types ==
  ASSUME MemoryTypeOK
  PROVE  /\ clock \in 0..MaxClock /\ enabled \in BOOLEAN
         /\ explicit \in Signoffs \cup {Unset} /\ agreed \in Signoffs \cup {Unset}
         /\ draft \in [Proposals -> Drafts] /\ (item = NoItem \/ item \in Items(drawn))
         /\ evidence \subseteq EvidenceRow /\ job \in [Workers -> Jobs]
         /\ expiry \in [Expirers -> 0..drawn] /\ seen \in Views
         /\ approvals \in 0..MaxApprovals /\ runs \in 0..MaxRuns /\ drawn \in 0..MaxRuns
BY DEF MemoryTypeOK, Drafts, Prints, Items, Jobs, Views

LEMMA InitLearned == Init => LearnedInv
<1> SUFFICES ASSUME Init PROVE LearnedInv
  OBVIOUS
<1>1. 0 \in 0..MaxClock /\ 0 \in 0..MaxApprovals /\ 0 \in 0..MaxRuns /\ 0 \in Nat
  BY MemoryBounds
<1>2. MemoryTypeOK
  <2>1. draft \in [Proposals -> Drafts]
    BY <1>1 DEF Init, Drafts, NoSignoff
  <2>2. job \in [Workers -> Jobs]
    BY <1>1 DEF Init, Jobs, IdleJob
  <2>3. seen \in Views /\ expiry \in [Expirers -> 0..drawn]
    BY <1>1 DEF Init, Views, NoView, NoSignoff
  <2> QED BY <1>1, <2>1, <2>2, <2>3 DEF Init, MemoryTypeOK, Drafts, Jobs, Views, NoSignoff
<1>3. Approved = {} /\ Gathered = {} /\ \A w \in Workers : job[w].seen = {}
  BY DEF Init, Approved, Gathered, IdleJob
<1>4. IsFiniteSet({}) /\ Cardinality({}) = 0
  BY FS_EmptySet
<1> QED BY <1>1, <1>2, <1>3, <1>4
        DEF LearnedInv, RunsAreCounted, OneEach, ConfirmedHasAuthority, EvidenceCountsOnce,
            ViewIsCurrent, OnlyConsentedSignoffs, Init, NoItem

-----------------------------------------------------------------------------
(* The steps.                                                              *)

\* The drafts and the switch: nothing that is known changes.
LEMMA DraftsKeep ==
  ASSUME LearnedInv,
         \/ HalfLifePasses \/ TogglesInference
         \/ \E p \in Proposals : \/ \E v \in Signoffs \cup {NoSignoff} : Approves(p, v)
                                 \/ \E to \in {"edited", "closed"} : LeavesEvidence(p, to)
  PROVE  LearnedInv'
<1>1. MemoryTypeOK /\ IsFiniteSet(Approved)
  BY DEF LearnedInv
<1> DEFINE Kept == UNCHANGED <<explicit, item, evidence, job, expiry, seen, runs, drawn, agreed>>
           Sound == /\ clock' \in 0..MaxClock /\ enabled' \in BOOLEAN
                    /\ draft' \in [Proposals -> Drafts] /\ approvals' \in 0..MaxApprovals
                    /\ IsFiniteSet(Approved')
<1>2. ASSUME HalfLifePasses \/ TogglesInference PROVE Kept /\ Sound
  <2>1. Approved' = Approved
    BY <1>2 DEF HalfLifePasses, TogglesInference, Approved
  <2>2. /\ clock \in 0..MaxClock /\ enabled \in BOOLEAN /\ draft \in [Proposals -> Drafts]
        /\ approvals \in 0..MaxApprovals /\ MaxClock \in Nat
    BY <1>1, Types, MemoryBounds
  <2>3. /\ clock' \in 0..MaxClock /\ enabled' \in BOOLEAN
        /\ draft' = draft /\ approvals' = approvals
    <3>1. CASE HalfLifePasses
      BY <2>2, <3>1 DEF HalfLifePasses
    <3>2. CASE TogglesInference
      <4>1. enabled' = ~enabled /\ UNCHANGED <<clock, draft, approvals>>
        BY <3>2 DEF TogglesInference
      <4> QED BY <2>2, <4>1
    <3> QED BY <1>2, <3>1, <3>2
  <2> QED BY <1>1, <1>2, <2>1, <2>2, <2>3 DEF HalfLifePasses, TogglesInference
<1>3. ASSUME NEW p \in Proposals, NEW v \in Signoffs \cup {NoSignoff}, Approves(p, v)
      PROVE  Kept /\ Sound
  <2>1. Approved' \in SUBSET (Approved \cup {p})
    BY <1>1, <1>3, Types DEF Approves, Approved
  <2>2. IsFiniteSet(Approved')
    BY <1>1, <2>1, FS_AddElement, FS_Subset
  <2>3. [state |-> "approved", value |-> v, at |-> clock] \in Drafts
    BY <1>1, Types DEF Drafts
  <2> QED BY <1>1, <1>3, <2>2, <2>3, Types, MemoryBounds DEF Approves
<1>4. ASSUME NEW p \in Proposals, NEW to \in {"edited", "closed"}, LeavesEvidence(p, to)
      PROVE  Kept /\ Sound
  <2>1. Approved' \in SUBSET Approved
    BY <1>1, <1>4, Types DEF LeavesEvidence, Approved
  <2>2. IsFiniteSet(Approved')
    BY <1>1, <2>1, FS_Subset
  <2>3. [state |-> to, value |-> NoSignoff, at |-> 0] \in Drafts
    BY MemoryBounds DEF Drafts
  <2> QED BY <1>1, <1>4, <2>2, <2>3, Types DEF LeavesEvidence
<1>5. Kept /\ Sound
  BY <1>2, <1>3, <1>4
<1>6. MemoryTypeOK'
  BY <1>1, <1>5, Types DEF MemoryTypeOK, Drafts, Prints, Items, Jobs, Views
<1> HIDE DEF Sound
<1>7. Gathered' = Gathered
  BY <1>5 DEF Gathered
<1> QED BY <1>5, <1>6, <1>7
        DEF LearnedInv, RunsAreCounted, ConfirmedHasAuthority, EvidenceCountsOnce, ViewIsCurrent,
            OnlyConsentedSignoffs, Sound

\* A job starts with one observation of each draft, or dies.
LEMMA JobsKeep ==
  ASSUME LearnedInv, NEW w \in Workers, Gathers(w) \/ WorkerDies(w)
  PROVE  LearnedInv'
<1>1. MemoryTypeOK /\ IsFiniteSet(Approved) /\ IsFiniteSet(Gathered)
  BY DEF LearnedInv, RunsAreCounted
<1>2. /\ clock \in 0..MaxClock /\ job \in [Workers -> Jobs] /\ runs \in 0..MaxRuns
      /\ drawn \in Nat /\ Cardinality(Gathered) \in Nat /\ MaxRuns \in Nat
      /\ drawn + Cardinality(Gathered) <= runs
  BY <1>1, Types, MemoryBounds, FS_CardinalityType DEF LearnedInv, RunsAreCounted
<1>3. UNCHANGED <<clock, enabled, explicit, draft, item, evidence, expiry, seen, approvals, drawn,
                  agreed>>
  BY DEF Gathers, WorkerDies
<1> DEFINE Sound == /\ job' \in [Workers -> Jobs] /\ runs' \in 0..MaxRuns
                    /\ RunsAreCounted' /\ \A u \in Workers : OneEach(job'[u].seen)
<1>4. ASSUME Gathers(w) PROVE Sound
  <2>1. PICK j : j = [step |-> "gathered", seen |-> Observations, now |-> clock]
    OBVIOUS
  <2>2. j \in Jobs /\ OneEach(j.seen) /\ j.step = "gathered"
    BY <1>1, <1>2, <2>1, ObservedOnce DEF Jobs
  <2>3. job' = [job EXCEPT ![w] = j] /\ runs' = runs + 1 /\ runs < MaxRuns
        /\ job[w].step = "idle"
    BY <1>4, <2>1 DEF Gathers
  <2>4. Gathered' = Gathered \cup {w} /\ w \notin Gathered
    BY <1>2, <2>2, <2>3 DEF Gathered
  <2>5. RunsAreCounted'
    <3>1. IsFiniteSet(Gathered') /\ Cardinality(Gathered') = Cardinality(Gathered) + 1
      BY <1>1, <2>4, FS_AddElement
    <3> QED BY <1>2, <1>3, <2>3, <3>1 DEF RunsAreCounted
  <2>6. \A u \in Workers : OneEach(job'[u].seen)
    BY <1>2, <2>2, <2>3 DEF LearnedInv
  <2> QED BY <1>2, <2>2, <2>3, <2>5, <2>6
<1>5. ASSUME WorkerDies(w) PROVE Sound
  <2>1. IdleJob \in Jobs /\ OneEach(IdleJob.seen) /\ IdleJob.step = "idle"
    BY MemoryBounds, FS_EmptySet DEF IdleJob, Jobs, OneEach
  <2>2. job' = [job EXCEPT ![w] = IdleJob] /\ runs' = runs
    BY <1>5 DEF WorkerDies
  <2>3. Gathered' \in SUBSET Gathered
    BY <1>2, <2>1, <2>2 DEF Gathered
  <2>4. IsFiniteSet(Gathered') /\ Cardinality(Gathered') <= Cardinality(Gathered)
        /\ Cardinality(Gathered') \in Nat
    BY <1>1, <2>3, FS_Subset, FS_CardinalityType
  <2>5. RunsAreCounted'
    BY <1>2, <1>3, <2>2, <2>4 DEF RunsAreCounted
  <2>6. \A u \in Workers : OneEach(job'[u].seen)
    BY <1>2, <2>1, <2>2 DEF LearnedInv
  <2> QED BY <1>2, <2>1, <2>2, <2>5, <2>6
<1>6. Sound
  BY <1>4, <1>5
<1>7. MemoryTypeOK'
  BY <1>1, <1>3, <1>6, Types DEF MemoryTypeOK, Drafts, Prints, Items, Jobs, Views
<1>8. Approved' = Approved
  BY <1>3 DEF Approved
<1> HIDE DEF Sound
<1> QED BY <1>3, <1>6, <1>7, <1>8
        DEF LearnedInv, ConfirmedHasAuthority, EvidenceCountsOnce, ViewIsCurrent,
            OnlyConsentedSignoffs, Sound

\* A recompute: whenever the value changes, the version does.
LEMMA ReconcilesKeeps ==
  ASSUME LearnedInv, NEW w \in Workers, Reconciles(w)
  PROVE  LearnedInv'
<1>1. MemoryTypeOK /\ IsFiniteSet(Approved) /\ IsFiniteSet(Gathered) /\ OneEach(job[w].seen)
  BY DEF LearnedInv, RunsAreCounted
<1>2. /\ job \in [Workers -> Jobs] /\ runs \in 0..MaxRuns /\ seen \in Views
      /\ drawn \in Nat /\ Cardinality(Gathered) \in Nat /\ MaxRuns \in Nat
      /\ drawn + Cardinality(Gathered) <= runs /\ drawn \in 0..MaxRuns
      /\ expiry \in [Expirers -> 0..drawn] /\ evidence \in SUBSET EvidenceRow
      /\ explicit \in Signoffs \cup {Unset} /\ (item = NoItem \/ item \in Items(drawn))
  BY <1>1, Types, MemoryBounds, FS_CardinalityType DEF LearnedInv, RunsAreCounted
<1>3. UNCHANGED <<clock, enabled, explicit, draft, expiry, seen, approvals, runs, agreed>>
  BY DEF Reconciles
<1>4. /\ job' = [job EXCEPT ![w] = IdleJob] /\ IdleJob \in Jobs /\ OneEach(IdleJob.seen)
      /\ IdleJob.step = "idle" /\ job[w].step = "gathered"
  BY MemoryBounds, FS_EmptySet DEF Reconciles, IdleJob, Jobs, OneEach
<1>5. job' \in [Workers -> Jobs] /\ \A u \in Workers : OneEach(job'[u].seen)
  BY <1>2, <1>4 DEF LearnedInv
<1>6. Gathered' = Gathered \ {w} /\ w \in Gathered
  BY <1>2, <1>4 DEF Gathered
<1>7. IsFiniteSet(Gathered') /\ Cardinality(Gathered') = Cardinality(Gathered) - 1
      /\ Cardinality(Gathered') \in Nat
  BY <1>1, <1>6, FS_RemoveElement, FS_CardinalityType
<1>8. Approved' = Approved
  BY <1>3 DEF Approved
<1> DEFINE Sound == /\ drawn' \in {drawn, drawn + 1}
                    /\ item' = NoItem \/ item' \in Items(drawn')
                    /\ evidence' \in SUBSET EvidenceRow
                    /\ EvidenceCountsOnce' /\ ConfirmedHasAuthority' /\ ViewIsCurrent'
<1>9. ASSUME job[w].seen = {} PROVE Sound
  <2>1. UNCHANGED <<item, evidence, drawn>>
    BY <1>9 DEF Reconciles
  <2> QED BY <1>2, <1>3, <2>1
          DEF LearnedInv, EvidenceCountsOnce, ConfirmedHasAuthority, ViewIsCurrent
<1>10. ASSUME job[w].seen # {} PROVE Sound
  <2>1. PICK obs \in SUBSET Observation : obs = job[w].seen
    BY <1>2 DEF Jobs
  <2>2. PICK ev : ev = Evaluated(obs)
    OBVIOUS
  <2>3. ev \in Evaluations
    BY <1>1, <1>10, <2>1, <2>2, EvaluatedIsTyped DEF OneEach
  <2>4. PICK before : before = IF item = NoItem THEN Created(ev) ELSE item
    OBVIOUS
  <2>5. PICK ids : ids = IF item = NoItem THEN drawn + 1 ELSE drawn
    OBVIOUS
  <2>6. PICK pref \in Signoffs \cup {Unset} : pref = explicit
    BY <1>2
  <2>7. PICK after : after = Reconciled(before, ev, pref, job[w].now)
    OBVIOUS
  <2>8. /\ evidence' = Recorded(evidence, obs) /\ drawn' = ids
        /\ item' = IF item # NoItem /\ Material(before, after)
                     THEN [after EXCEPT !.version = @ + 1] ELSE after
    BY <1>10, <2>1, <2>2, <2>4, <2>5, <2>6, <2>7 DEF Reconciles
  <2>9. EvidenceCountsOnce' /\ evidence' \in SUBSET EvidenceRow
    <3>1. PICK rows \in SUBSET EvidenceRow : rows = evidence
      BY <1>2
    <3>2. \A r, s \in rows : r.prop = s.prop => r = s
      BY <3>1 DEF LearnedInv, EvidenceCountsOnce
    <3>3. /\ Recorded(rows, obs) \in SUBSET EvidenceRow
          /\ \A r, s \in Recorded(rows, obs) : r.prop = s.prop => r = s
      BY <1>1, <2>1, <3>2, RecordsOnce
    <3> QED BY <2>8, <3>1, <3>3 DEF EvidenceCountsOnce
  <2>10. before \in Items(ids) /\ (item = NoItem => before.id = drawn + 1)
    <3>1. CASE item # NoItem
      BY <1>2, <2>4, <2>5, <3>1
    <3>2. CASE item = NoItem
      <4>1. before = [id |-> drawn + 1, value |-> ev.value, status |-> "candidate",
                      agreeing |-> 0, total |-> 0, latest |-> 0, version |-> 1,
                      dismissed |-> NoPrint]
        BY <2>4, <3>2 DEF Created, NoItem
      <4>2. ev.value \in Signoffs /\ NoPrint \in Prints /\ drawn + 1 \in 1..ids
        BY <1>2, <2>3, <2>5, <3>2 DEF Evaluations, NoPrint, Prints
      <4> QED BY <4>1, <4>2, MemoryBounds DEF Items, MemoryStatus
    <3> QED BY <3>1, <3>2
  <2>11. /\ after \in Items(ids) /\ after.id = before.id /\ after.version = before.version
         /\ after.status \in {"confirmed", "superseded"} => pref # Unset
    <3>1. before.status \in MemoryStatus /\ before.value \in Signoffs /\ Unset \notin Signoffs
      BY <2>10, MemoryIdsAreOrdered DEF Items, Unset
    <3> QED BY <2>3, <2>7, <2>10, <3>1, ReconciledFields DEF SuggestedStatus
  <2>12. CASE item # NoItem /\ Material(before, after)
    <3>1. /\ item' \in Items(ids) /\ item'.id = item.id /\ item'.version = item.version + 1
          /\ item'.status = after.status
      BY <2>4, <2>8, <2>11, <2>12 DEF Items
    <3>2. item.version \in Nat /\ seen.version \in Nat
      BY <1>2, <2>12 DEF Items, Views
    <3>3. ViewIsCurrent'
      BY <1>3, <2>12, <3>1, <3>2 DEF LearnedInv, ViewIsCurrent
    <3> QED BY <2>5, <2>6, <2>8, <2>9, <2>11, <1>3, <3>1, <3>3 DEF ConfirmedHasAuthority
  <2>13. CASE item # NoItem /\ ~Material(before, after)
    <3>1. item' = after /\ after.value = item.value /\ after.id = item.id
          /\ after.version = item.version
      BY <2>4, <2>8, <2>11, <2>13 DEF Material
    <3>2. ViewIsCurrent'
      BY <1>3, <2>13, <3>1 DEF LearnedInv, ViewIsCurrent
    <3> QED BY <2>5, <2>6, <2>8, <2>9, <2>11, <1>3, <3>1, <3>2 DEF ConfirmedHasAuthority
  <2>14. CASE item = NoItem
    <3>1. item' = after /\ after.id = drawn + 1
      BY <2>8, <2>10, <2>11, <2>14
    <3>2. ViewIsCurrent'
      BY <1>2, <1>3, <3>1 DEF Views, ViewIsCurrent
    <3> QED BY <2>5, <2>6, <2>8, <2>9, <2>11, <1>3, <3>1, <3>2 DEF ConfirmedHasAuthority
  <2> QED BY <2>12, <2>13, <2>14
<1>11. Sound
  BY <1>9, <1>10
<1> HIDE DEF Sound
<1>12. drawn' \in 0..MaxRuns /\ drawn' + Cardinality(Gathered') <= runs'
       /\ drawn \in 0..drawn'
  BY <1>2, <1>3, <1>7, <1>11 DEF Sound
<1>13. MemoryTypeOK'
  <2>1. seen' \in Views' /\ expiry' \in [Expirers -> 0..drawn']
    BY <1>2, <1>3, <1>12 DEF Views
  <2> QED BY <1>1, <1>2, <1>3, <1>5, <1>11, <1>12, <2>1, Types
          DEF Sound, MemoryTypeOK, Drafts, Prints, Items, Jobs, Views
<1> QED BY <1>1, <1>3, <1>5, <1>7, <1>8, <1>11, <1>12, <1>13
        DEF LearnedInv, RunsAreCounted, OnlyConsentedSignoffs, Sound

\* The expiry pass and the page: neither changes what the item says.
LEMMA ExpiryKeeps ==
  ASSUME LearnedInv, Shows \/ \E e \in Expirers : ReadsStale(e) \/ WritesExpired(e)
  PROVE  LearnedInv'
<1>1. MemoryTypeOK
  BY DEF LearnedInv
<1>2. /\ expiry \in [Expirers -> 0..drawn] /\ seen \in Views /\ drawn \in Nat
      /\ (item = NoItem \/ item \in Items(drawn)) /\ item.id \in 0..drawn
  BY <1>1, Types, ItemTypes
<1>3. UNCHANGED <<clock, enabled, explicit, draft, evidence, job, approvals, runs, drawn, agreed>>
  BY DEF Shows, ReadsStale, WritesExpired
<1>4. View(item) \in Views
  <2>1. CASE item = NoItem
    BY <1>2, <2>1 DEF View, Views, NoItem, NoSignoff
  <2>2. CASE item # NoItem
    BY <1>2, <2>2 DEF View, Views, Items
  <2> QED BY <2>1, <2>2
<1> DEFINE Sound == /\ item' = NoItem \/ item' \in Items(drawn)
                    /\ expiry' \in [Expirers -> 0..drawn] /\ seen' \in Views
                    /\ ConfirmedHasAuthority' /\ ViewIsCurrent'
<1>5. ASSUME Shows PROVE Sound
  <2>1. item' = item /\ expiry' = expiry /\ seen' = View(item)
    BY <1>5 DEF Shows
  <2>2. ViewIsCurrent'
    <3>1. item # NoItem => item.version \in Nat
      BY <1>2 DEF Items
    <3> QED BY <2>1, <3>1 DEF ViewIsCurrent, View
  <2> QED BY <1>2, <1>3, <1>4, <2>1, <2>2 DEF LearnedInv, ConfirmedHasAuthority
<1>6. ASSUME NEW e \in Expirers, ReadsStale(e) PROVE Sound
  <2>1. item' = item /\ expiry' = [expiry EXCEPT ![e] = item.id] /\ seen' = seen
    BY <1>6 DEF ReadsStale
  <2>2. ViewIsCurrent'
    BY <2>1 DEF LearnedInv, ViewIsCurrent
  <2> QED BY <1>2, <1>3, <2>1, <2>2 DEF LearnedInv, ConfirmedHasAuthority
<1>7. ASSUME NEW e \in Expirers, WritesExpired(e) PROVE Sound
  <2>1. expiry' = [expiry EXCEPT ![e] = 0] /\ expiry[e] # 0
    BY <1>7 DEF WritesExpired
  <2>2. CASE item.id = expiry[e]
    <3>1. /\ item' = [item EXCEPT !.status = "expired"]
          /\ seen' = IF e = "read" THEN View(item) ELSE seen
      BY <1>7, <2>2 DEF WritesExpired
    <3>2. item \in Items(drawn) /\ item # NoItem
      BY <1>2, <2>1, <2>2 DEF NoItem
    <3>3. /\ item' \in Items(drawn) /\ item'.id = item.id /\ item'.version = item.version
          /\ item'.value = item.value /\ item'.status = "expired" /\ item.version \in Nat
      BY <3>1, <3>2 DEF Items, MemoryStatus
    <3>4. ViewIsCurrent'
      BY <3>1, <3>2, <3>3 DEF LearnedInv, ViewIsCurrent, View
    <3>5. seen' \in Views
      BY <1>2, <1>4, <3>1
    <3> QED BY <1>2, <2>1, <3>3, <3>4, <3>5 DEF ConfirmedHasAuthority
  <2>3. CASE item.id # expiry[e]
    <3>1. item' = item /\ seen' = seen
      BY <1>7, <2>3 DEF WritesExpired
    <3>2. ViewIsCurrent'
      BY <3>1 DEF LearnedInv, ViewIsCurrent
    <3> QED BY <1>2, <1>3, <2>1, <3>1, <3>2 DEF LearnedInv, ConfirmedHasAuthority
  <2> QED BY <2>2, <2>3
<1>8. Sound
  BY <1>5, <1>6, <1>7
<1> HIDE DEF Sound
<1>9. MemoryTypeOK'
  BY <1>1, <1>3, <1>8, Types DEF Sound, MemoryTypeOK, Drafts, Prints, Items, Jobs, Views
<1>10. Approved' = Approved /\ Gathered' = Gathered
  BY <1>3 DEF Approved, Gathered
<1> QED BY <1>3, <1>8, <1>9, <1>10
        DEF LearnedInv, RunsAreCounted, EvidenceCountsOnce, OnlyConsentedSignoffs, Sound

\* The user acts on the item at the version the page shows.
LEMMA UserKeeps ==
  ASSUME LearnedInv,
         \/ Confirm \/ Dismiss \/ Delete
         \/ \E v \in Signoffs : Edit(v) \/ SetSignoff(v)
  PROVE  LearnedInv'
<1>1. MemoryTypeOK /\ OnlyConsentedSignoffs
  BY DEF LearnedInv
<1>2. /\ seen \in Views /\ drawn \in Nat /\ evidence \in SUBSET EvidenceRow
      /\ (item = NoItem \/ item \in Items(drawn)) /\ (item # NoItem => item \in Items(drawn))
      /\ explicit \in Signoffs \cup {Unset} /\ Unset \notin Signoffs
      /\ agreed \in Signoffs \cup {Unset}
  BY <1>1, Types, MemoryIdsAreOrdered DEF Unset
<1>3. UNCHANGED <<clock, enabled, draft, job, expiry, seen, approvals, runs, drawn>>
  BY DEF Confirm, Dismiss, Delete, Edit, SetSignoff, ConfirmsAs, Elsewhere
<1> DEFINE Sound == /\ item' = NoItem \/ item' \in Items(drawn)
                    /\ explicit' \in Signoffs \cup {Unset} /\ agreed' = explicit'
                    /\ evidence' \in SUBSET EvidenceRow /\ EvidenceCountsOnce'
                    /\ ConfirmedHasAuthority' /\ ViewIsCurrent'
<1>4. ASSUME NEW v \in Signoffs, ConfirmsAs(v), agreed' = v PROVE Sound
  <2>1. item \in Items(drawn) /\ item # NoItem /\ explicit' = v /\ evidence' = evidence
    BY <1>2, <1>4 DEF ConfirmsAs, Loaded
  <2> DEFINE r1 == [item EXCEPT !.value = v]
             r2 == [r1 EXCEPT !.status = "confirmed"]
             r3 == [r2 EXCEPT !.version = item.version + 1]
  <2>2. item' = r3
    BY <1>4, <2>1 DEF ConfirmsAs, Items
  <2>3. /\ item' \in Items(drawn) /\ item'.id = item.id /\ item'.version = item.version + 1
        /\ item'.status = "confirmed" /\ item.version \in Nat
    <3>1. item.version \in Nat /\ item.version + 1 \in Nat \ {0}
      BY <2>1, <2>2 DEF Items
    <3>2. r1 \in Items(drawn) /\ r2 \in Items(drawn)
      BY <2>1, <2>2, <3>1 DEF Items, MemoryStatus
    <3>3. r3 \in Items(drawn)
      BY <2>1, <2>2, <3>1, <3>2 DEF Items, MemoryStatus
    <3> QED BY <2>1, <2>2, <3>1, <3>3 DEF Items
  <2> HIDE DEF r1, r2, r3
  <2>4. ViewIsCurrent'
    BY <1>2, <1>3, <2>1, <2>3 DEF LearnedInv, ViewIsCurrent, Views
  <2> QED BY <1>2, <1>4, <2>1, <2>3, <2>4 DEF LearnedInv, ConfirmedHasAuthority, EvidenceCountsOnce
<1>5. ASSUME Confirm PROVE Sound
  <2>1. ConfirmsAs(item.value) /\ agreed' = seen.value
    BY <1>5 DEF Confirm
  <2>2. item.value \in Signoffs /\ seen.value = item.value
    BY <1>2, <2>1 DEF LearnedInv, ViewIsCurrent, ConfirmsAs, Loaded, Items
  <2>3. PICK v \in Signoffs : v = item.value
    BY <2>2
  <2> QED BY <1>4, <2>1, <2>2, <2>3
<1>6. ASSUME NEW v \in Signoffs, Edit(v) PROVE Sound
  BY <1>4, <1>6 DEF Edit
<1>7. ASSUME Dismiss PROVE Sound
  <2>1. PICK print : print = Fingerprint(item.value,
                               {r.prop : r \in {n \in evidence : n.value = item.value}})
    OBVIOUS
  <2>2. item \in Items(drawn) /\ item # NoItem
    BY <1>2, <1>7 DEF Dismiss, Loaded
  <2>3. print \in Prints
    <3>1. {r.prop : r \in {n \in evidence : n.value = item.value}} \in SUBSET Proposals
      BY <1>2 DEF EvidenceRow
    <3> QED BY <2>1, <2>2, <3>1 DEF Fingerprint, Prints, Items
  <2> DEFINE r1 == [item EXCEPT !.status = "dismissed"]
             r2 == [r1 EXCEPT !.version = item.version + 1]
             r3 == [r2 EXCEPT !.dismissed = print]
  <2>4. item' = r3
    BY <1>7, <2>1, <2>2 DEF Dismiss, Items
  <2>5. /\ item' \in Items(drawn) /\ item'.id = item.id /\ item'.version = item.version + 1
        /\ item'.status = "dismissed" /\ item.version \in Nat
    <3>1. item.version \in Nat /\ item.version + 1 \in Nat \ {0}
      BY <2>2, <2>3 DEF Items
    <3>2. r1 \in Items(drawn) /\ r2 \in Items(drawn)
      BY <2>2, <2>3, <3>1 DEF Items, MemoryStatus
    <3>3. r3 \in Items(drawn)
      BY <2>2, <2>3, <3>1, <3>2 DEF Items, MemoryStatus
    <3> QED BY <2>2, <2>3, <2>4, <3>1, <3>3 DEF Items
  <2> HIDE DEF r1, r2, r3
  <2>6. explicit' = explicit /\ evidence' = evidence /\ agreed' = agreed
    BY <1>7 DEF Dismiss
  <2>7. ViewIsCurrent'
    BY <1>2, <1>3, <2>2, <2>5 DEF LearnedInv, ViewIsCurrent, Views
  <2> QED BY <1>1, <1>2, <2>5, <2>6, <2>7
          DEF LearnedInv, ConfirmedHasAuthority, EvidenceCountsOnce, OnlyConsentedSignoffs
<1>8. ASSUME Delete PROVE Sound
  BY <1>1, <1>2, <1>8 DEF Delete, ConfirmedHasAuthority, EvidenceCountsOnce, ViewIsCurrent,
     OnlyConsentedSignoffs, NoItem
<1>9. ASSUME NEW v \in Signoffs, SetSignoff(v) PROVE Sound
  <2>1. explicit' = v /\ agreed' = v /\ item' = item /\ evidence' = evidence
    BY <1>9 DEF SetSignoff
  <2>2. ViewIsCurrent' /\ EvidenceCountsOnce'
    BY <1>3, <2>1 DEF LearnedInv, ViewIsCurrent, EvidenceCountsOnce
  <2> QED BY <1>2, <2>1, <2>2 DEF ConfirmedHasAuthority
<1>10. Sound
  BY <1>5, <1>6, <1>7, <1>8, <1>9
<1> HIDE DEF Sound
<1>11. MemoryTypeOK'
  BY <1>1, <1>3, <1>10, Types DEF Sound, MemoryTypeOK, Drafts, Prints, Items, Jobs, Views
<1>12. Approved' = Approved /\ Gathered' = Gathered
  BY <1>3 DEF Approved, Gathered
<1> QED BY <1>3, <1>10, <1>11, <1>12
        DEF LearnedInv, RunsAreCounted, OnlyConsentedSignoffs, Sound

LEMMA NextLearned ==
  ASSUME LearnedInv, [Next]_vars PROVE LearnedInv'
<1>1. CASE UNCHANGED vars
  <2>1. Approved' = Approved /\ Gathered' = Gathered
    BY <1>1 DEF vars, Approved, Gathered
  <2>2. MemoryTypeOK'
    BY <1>1 DEF vars, LearnedInv, MemoryTypeOK
  <2> QED BY <1>1, <2>1, <2>2
          DEF vars, LearnedInv, RunsAreCounted, ConfirmedHasAuthority, EvidenceCountsOnce,
              ViewIsCurrent, OnlyConsentedSignoffs
<1>2. CASE \/ HalfLifePasses \/ TogglesInference
           \/ \E p \in Proposals : \/ \E v \in Signoffs \cup {NoSignoff} : Approves(p, v)
                                   \/ \E to \in {"edited", "closed"} : LeavesEvidence(p, to)
  BY <1>2, DraftsKeep
<1>3. CASE \E w \in Workers : Gathers(w) \/ Reconciles(w) \/ WorkerDies(w)
  BY <1>3, JobsKeep, ReconcilesKeeps
<1>4. CASE Shows \/ \E e \in Expirers : ReadsStale(e) \/ WritesExpired(e)
  BY <1>4, ExpiryKeeps
<1>5. CASE \/ Confirm \/ Dismiss \/ Delete
           \/ \E v \in Signoffs : Edit(v) \/ SetSignoff(v)
  BY <1>5, UserKeeps
<1> QED BY <1>1, <1>2, <1>3, <1>4, <1>5 DEF Next

-----------------------------------------------------------------------------
(* The theorems.                                                           *)

LEMMA LearnedInvariant == Spec => []LearnedInv
<1>1. LearnedInv /\ [Next]_vars => LearnedInv'
  BY NextLearned
<1> QED BY <1>1, InitLearned, PTL DEF Spec

\* Only a sign-off that the user typed, or was shown and confirmed, becomes
\* the explicit preference: no recompute between the page and the click makes
\* a confirmation mean another value (memory.py _load, confirm).
THEOREM SignoffsAreConsented == Spec => []OnlyConsentedSignoffs
<1>1. LearnedInv => OnlyConsentedSignoffs
  BY DEF LearnedInv
<1> QED BY <1>1, LearnedInvariant, PTL

\* What the item says of itself is so: confirmed or overridden only beside a
\* preference, each draft counted once in the evidence, however many workers
\* recompute, expire and die in between (memory_inference.py).
THEOREM MemoryIsSound == Spec => []MemoryInv
<1>1. LearnedInv => MemoryInv
  BY DEF LearnedInv, MemoryInv
<1> QED BY <1>1, LearnedInvariant, PTL

\* With the same drafts and preference a third recompute changes nothing the
\* user sees (memory_inference.py _apply_lifecycle).
THEOREM RecomputesSettle == Spec => []RecomputeSettles
<1>1. LearnedInv => RecomputeSettles
  BY ThirdChangesNothing DEF LearnedInv
<1> QED BY <1>1, LearnedInvariant, PTL
=============================================================================
