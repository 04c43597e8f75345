--------------------------- MODULE ExternalAction ---------------------------
(***************************************************************************)
(* What the approval pipeline promises about the outside world, with no    *)
(* database, locks or processes: content is offered, may be agreed to, and *)
(* agreed content is attempted at most once; an attempt is applied at most *)
(* once; it is reported done only if it was applied (or was a simulation)  *)
(* and reported refused only if it was not and never will be.              *)
(*                                                                         *)
(* ProposalExecution implements this (Pipeline there).                     *)
(***************************************************************************)
CONSTANTS Proposals, Contents, NoContent, Simulated

VARIABLE state   \* Proposals -> [phase, content, applied]

Phases == {"none", "offered", "agreed", "attempted", "done", "refused", "closed"}

Init == state = [p \in Proposals |->
                   [phase |-> "none", content |-> NoContent, applied |-> FALSE]]

Moves(p, from, to) ==
  /\ state[p].phase \in from
  /\ state'[p] = [state[p] EXCEPT !.phase = to]

\* New content, or the old content again: nobody has agreed to it yet.
Offer(p) ==
  /\ state[p].phase \in {"none", "offered", "agreed"}
  /\ state'[p].content \in Contents
  /\ state'[p] = [state[p] EXCEPT !.phase = "offered", !.content = state'[p].content]

Agree(p)   == Moves(p, {"offered"}, "agreed")
Close(p)   == Moves(p, {"offered", "agreed"}, "closed")
Attempt(p) == Moves(p, {"agreed"}, "attempted")

Apply(p) ==
  /\ state[p].phase = "attempted" /\ ~state[p].applied /\ p \notin Simulated
  /\ state'[p] = [state[p] EXCEPT !.applied = TRUE]

Done(p)   == Moves(p, {"attempted"}, "done") /\ (state[p].applied \/ p \in Simulated)
Refuse(p) == Moves(p, {"attempted"}, "refused") /\ ~state[p].applied

Step(p) == \/ Offer(p) \/ Agree(p) \/ Close(p) \/ Attempt(p)
           \/ Apply(p) \/ Done(p) \/ Refuse(p)

\* One transaction may move several proposals.
Next == /\ DOMAIN state' = Proposals
        /\ \A p \in Proposals : state'[p] = state[p] \/ Step(p)

Spec == Init /\ [][Next]_state
=============================================================================
