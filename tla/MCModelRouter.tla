--------------------------- MODULE MCModelRouter ---------------------------
(* ModelRouter on small instances: up to two keys and three accounts. *)
EXTENDS ModelRouter, TLC

CONSTANTS a1, a2, a3

TwoCreated == (a1 :> 1) @@ (a2 :> 2)
ThreeCreated == TwoCreated @@ (a3 :> 3)
AllLite == [a \in Accounts |-> "lite"]
ProLite == (a1 :> "pro") @@ (a2 :> "lite")
ProMaxLite == (a1 :> "pro") @@ (a2 :> "max") @@ (a3 :> "lite")

\* Requests are interchangeable slots; keys are too when all of them may be deleted
\* or none.
RequestsOnly == Permutations(Requests)
KeysAndRequests == Permutations(Keys) \cup Permutations(Requests)
=============================================================================
