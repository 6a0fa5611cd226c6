-------------------------- MODULE MCStorageRepair ---------------------------
(* All graphs of three slabs: arrays, maps in one data slab, root slabs of *)
(* larger maps, and slabs of maps that are not roots.                      *)
EXTENDS StorageRepair, TLC

CONSTANTS a1, a2, b1

MCSlabID == {a1, a2, b1}
MCOwner  == a1 :> 1 @@ a2 :> 1 @@ b1 :> 2

MCShapes == {[kind |-> "array", meta |-> FALSE, root |-> TRUE],
             [kind |-> "map", meta |-> FALSE, root |-> TRUE],
             [kind |-> "map", meta |-> TRUE, root |-> TRUE],
             [kind |-> "map", meta |-> FALSE, root |-> FALSE],
             [kind |-> "map", meta |-> TRUE, root |-> FALSE]}

\* Any number of roots, and one.
MCExpectations == {-1, 1}

MCSymmetry == Permutations({a1, a2})
=============================================================================
