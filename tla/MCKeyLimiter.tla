---------------------------- MODULE MCKeyLimiter ----------------------------
(* KeyLimiter on small instances: a window of a few ticks and three slots. *)
EXTENDS KeyLimiter, TLC

Both == [rpm |-> 2, concurrency |-> 2]
ConcurrencyOnly == [rpm |-> 0, concurrency |-> 1]

ChangingLimits == {Both, ConcurrencyOnly}

ArrivalSymmetry == Permutations(Arrivals)
=============================================================================
