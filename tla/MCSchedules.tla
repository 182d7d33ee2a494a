----------------------------- MODULE MCSchedules -----------------------------
(***************************************************************************)
(* A small instance of Schedules for TLC: one repository, a schedule in    *)
(* each of the two documents, one recurrent, one at a given minute, and    *)
(* one tab beside the ticker.                                              *)
(***************************************************************************)
EXTENDS Schedules

Hourly == [id |-> "hourly", doc |-> "repo", target |-> "repo", every |-> 1, at |-> {}]
Nightly == [id |-> "nightly", doc |-> "eco", target |-> "repo", every |-> 0, at |-> {1}]
Two == {Hourly, Nightly}

\* Bound: what follows overlapping saves, or launches, is not explored, and a page
\* that is saved lists one webhook at most: it is kept, changed, moved to the
\* other URL, removed or added again.
UntilMixed ==
  /\ \A b \in Tabs : act[b].edit # None =>
       Cardinality({u \in Urls : act[b].edit[u] # None}) <= 1
  /\ mixed = {} \/ \E a \in Threads : act[a].pc \in {"save", "open", "replace"}
  /\ raced = {} \/ \E a \in Threads : At(a, "start")
=============================================================================
