------------------------------ MODULE SlabStore -----------------------------
(***************************************************************************)
(* What the array tree and the map tree share: the size limits of a slab   *)
(* (settings.go) and a view of the slab storage.  An operation of a tree   *)
(* carries a "store" along: the slab objects in memory, and the IDs handed *)
(* to storage.Store or storage.Remove so far.                              *)
(***************************************************************************)
EXTENDS Integers, SequencesExt

CONSTANTS TargetThreshold, \* what SetThreshold was called with
          MaxSlabs,        \* bound on the slabs of a tree at one time
          Absent,          \* no slab
          Undefined        \* SlabIDUndefined

\* SetThreshold.
MinThreshold == TargetThreshold \div 2
MaxThreshold == (3 * TargetThreshold) \div 2

ID == 1..MaxSlabs

ASSUME StoreAssumption ==
    /\ TargetThreshold \in Nat \ {0} /\ MaxSlabs \in Nat
    /\ Undefined \notin ID

IsData(slab)      == slab.kind = "data"
IsFull(slab)      == slab.size > MaxThreshold
IsUnderflow(slab) == slab.size < MinThreshold

\* sums[i] is the sum of the first i numbers.
Sums(s) == LET sums[i \in 0..Len(s)] == IF i = 0 THEN 0 ELSE sums[i-1] + s[i]
           IN sums

Total(s) == Sums(s)[Len(s)]

-----------------------------------------------------------------------------
storeSlab(st, ids) == [st EXCEPT !.stored = @ \cup ids]

Put(st, id, slab) == [st EXCEPT !.slabs[id] = slab]

RemoveSlab(st, id) == storeSlab(Put(st, id, Absent), {id})

\* An index that no slab has (SlabStorage shows that it is a new one).
GenerateSlabID(st) == Min({id \in ID : st.slabs[id] = Absent})

NoSlabs == [id \in ID |-> Absent]
=============================================================================
