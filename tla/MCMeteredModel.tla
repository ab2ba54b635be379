--------------------------- MODULE MCMeteredModel ---------------------------
(* A small instance of MeteredModel: values for its constant functions. *)
EXTENDS MeteredModel, TLC

CONSTANTS t1, t2, a1, b1

Amounts == [m \in Payment |-> 2]
Payers == [b \in Budget |-> a1]
Tight == [b \in Budget |-> 3]
Costs == {1, 3}
OneCost == {3}

\* t1 keeps results and is budgeted; t2 blocks on pending use and is not.
Policies ==
  [t \in Task |->
     IF t = t1 THEN [account |-> a1, hold |-> 2, budget |-> b1, pendingUsage |-> "continue"]
     ELSE [account |-> a1, hold |-> 1, budget |-> NoBudget, pendingUsage |-> "block"]]

\* The other way round: t2, which no budget limits, may have several attempts.
Swapped ==
  [t \in Task |-> [Policies[t] EXCEPT !.pendingUsage = IF t = t1 THEN "block" ELSE "continue"]]

\* One Task that keeps results, on its own model: nothing is held or charged.
OwnModel ==
  [t \in Task |-> [account |-> a1, hold |-> 0, budget |-> NoBudget, pendingUsage |-> "continue"]]

Requests == Permutations(Request)
=============================================================================
