---------------------------- MODULE OneUseCalls ----------------------------
(***************************************************************************)
(* What every budget of provider calls promises: a call that was made is   *)
(* never made again under the same identity, whatever became of it, and no *)
(* more calls are made than the budget allows.  An identity may also be    *)
(* withdrawn before its call, which costs nothing.  MultiWorkerBudget,     *)
(* IntegrationConflict and MemberExecution implement it.                   *)
(***************************************************************************)
EXTENDS Naturals, FiniteSets

CONSTANTS Calls,         \* identities that may each make one call
          Limit          \* calls the budget allows

VARIABLE call            \* call[k]: where the life of k stands

Spent == {k \in Calls : call[k] \in {"made", "settled"}}

Init == call = [k \in Calls |-> "open"]

\* The first two conjuncts follow from the third; they let TLC refuse most steps early.
Moves(k, from, to) ==
  call[k] = from /\ call'[k] = to /\ call' = [call EXCEPT ![k] = to]

Make(k)     == Moves(k, "open", "made") /\ Cardinality(Spent) < Limit
Withdraw(k) == Moves(k, "open", "withdrawn")
Settle(k)   == Moves(k, "made", "settled")

Next == \E k \in Calls : Make(k) \/ Withdraw(k) \/ Settle(k)

Spec == Init /\ [][Next]_call
=============================================================================
