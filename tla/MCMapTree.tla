------------------------------ MODULE MCMapTree -----------------------------
(* MapTree from an empty map, with any number of operations on a few keys, *)
(* and from larger maps that NewMapFromBatchData has built, with a few     *)
(* operations on each.                                                     *)
EXTENDS MapIterators

CONSTANTS GrowKeys,  \* the keys for a map that starts empty
          Gaps,      \* the keys left out of the lists: those divisible by one
          MaxSteps   \* bound on the operations after a batch

VARIABLE steps  \* 0 for a map that starts empty; else batch and operations

\* Keys in the order of their first digests, except that two pairs collide.
TreeDigests == [i \in Key |-> <<(IF i \in {5, 10} THEN i - 1 ELSE i), 1>>]

\* Sorted lists of keys with values of two sizes.
Lists == {SelectSeq([i \in 1..Cardinality(Key) |->
                        [key |-> i, value |-> IF i % m = 0 THEN a ELSE b]],
                    LAMBDA entry : entry.key % gap # 0) :
             gap \in Gaps, m \in {2, 3}, a \in ValueSizes, b \in ValueSizes}

MCInit == Init /\ steps = 0

Grow == steps = 0 /\ NextOn(GrowKeys) /\ UNCHANGED steps

Build ==
    /\ steps = 0 /\ \A key \in Key : contents[key] = None
    /\ \E list \in Lists : MapFromBatchData(list)
    /\ steps' = 1

Operation == steps \in 1..MaxSteps /\ Next /\ steps' = steps + 1

Stop == steps > MaxSteps /\ UNCHANGED <<vars, steps>>

MCSpec == MCInit /\ [][Grow \/ Build \/ Operation \/ Stop]_<<vars, steps>>
=============================================================================
