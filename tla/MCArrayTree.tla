----------------------------- MODULE MCArrayTree ----------------------------
(* ArrayTree from an empty array, with any number of operations on a few   *)
(* elements, and from longer arrays that NewArrayFromBatchData has built,  *)
(* with a few operations on each.                                          *)
EXTENDS ArrayIterators

CONSTANTS GrowCount,   \* bound on the length of an array that starts empty
          BatchSizes,  \* lengths of the lists
          MaxSteps     \* bound on the operations after a batch

VARIABLE steps  \* 0 for an array that starts empty; else batch and operations

\* Lists that repeat a pattern of two sizes.
Lists == {[i \in 1..n |-> IF i % m = r THEN a ELSE b] :
             n \in BatchSizes, m \in {2, 3}, r \in {0, 1},
             a \in ElementSizes, b \in ElementSizes}

MCInit == \/ Init /\ steps = 0
          \/ InitFromBatch(Lists) /\ steps = 1

Grow == steps = 0 /\ Next /\ Len(contents') <= GrowCount /\ UNCHANGED steps

Operation == steps \in 1..MaxSteps /\ Next /\ steps' = steps + 1

Stop == steps > MaxSteps /\ UNCHANGED <<vars, steps>>

MCSpec == MCInit /\ [][Grow \/ Operation \/ Stop]_<<vars, steps>>
=============================================================================
