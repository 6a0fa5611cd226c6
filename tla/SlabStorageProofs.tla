------------------------- MODULE SlabStorageProofs --------------------------
(***************************************************************************)
(* Proofs about SlabStorage for any addresses, index bounds, objects and   *)
(* contents.  The last part is about WorkerPool: what a step of the pool   *)
(* keeps, for any jobs, any results and any number of goroutines, which    *)
(* the proofs about the three calls that build a pool cite.                *)
(***************************************************************************)
EXTENDS SlabStorage, WorkerPool, SequenceTheorems, FiniteSetTheorems, TLAPS

-----------------------------------------------------------------------------
(* Slab IDs as pairs.                                                      *)

\* A slab ID is made of an address and a positive index within its bound.
LEMMA SlabIDParts ==
    ASSUME NEW id \in SlabID
    PROVE  /\ id[1] \in Address
           /\ id[2] \in Nat /\ id[2] > 0
           /\ id = <<id[1], id[2]>>
  BY ConstantsAssumption DEF SlabID

\* There are finitely many slab IDs.
LEMMA SlabIDsAreFinite == IsFiniteSet(SlabID)
  <1> DEFINE IDsOf == [a \in Address |-> {a} \X (1..MaxIndex[a])]
             All   == {{a} \X (1..MaxIndex[a]) : a \in Address}
  <1>1. IDsOf \in Surjection(Address, All)
    BY DEF Surjection
  <1>2. IsFiniteSet(All)
    BY <1>1, AddressAssumption, FS_Surjection
  <1>3. ASSUME NEW T \in All PROVE IsFiniteSet(T)
    <2>1. PICK a \in Address : T = {a} \X (1..MaxIndex[a])
      OBVIOUS
    <2>2. MaxIndex[a] \in Int /\ 1 \in Int
      BY ConstantsAssumption
    <2>3. IsFiniteSet({a}) /\ IsFiniteSet(1..MaxIndex[a])
      BY <2>2, FS_Singleton, FS_Interval
    <2> QED  BY <2>1, <2>3, FS_Product
  <1> HIDE DEF All
  <1>4. IsFiniteSet(UNION All)
    BY <1>2, <1>3, FS_UNION
  <1> QED  BY <1>4 DEF All, SlabID

\* GenerateSlabID returns a slab ID as long as the bound is not reached.
LEMMA NextIDIsSlabID ==
    ASSUME TypeOK, NEW a \in Address, nextIndex[a] < MaxIndex[a]
    PROVE  /\ <<a, nextIndex[a] + 1>> \in SlabID
           /\ nextIndex[a] + 1 \in Nat
           /\ nextIndex[a] + 1 <= MaxIndex[a]
  <1>1. MaxIndex[a] \in Nat /\ nextIndex[a] \in Nat
    BY ConstantsAssumption DEF TypeOK
  <1>2. nextIndex[a] + 1 \in 1..MaxIndex[a]
    BY <1>1
  <1> QED  BY <1>1, <1>2 DEF SlabID

\* An object in use holds a slab.
LEMMA AliveIsSlab ==
    ASSUME TypeOK, NEW o \in Objects, heap[o] # Absent
    PROVE  /\ heap[o] \in Slab
           /\ heap[o].id \in SlabID /\ heap[o].val \in Contents
           /\ heap[o].id[1] \in Address
  BY SlabIDParts DEF TypeOK, Slab

-----------------------------------------------------------------------------
(* One lemma per operation: it preserves the invariant.                    *)

\* Storing a new slab (NewArray, NewMap, a split) preserves the invariant.
LEMMA CreatePreserves ==
    ASSUME StorageInv, NEW a \in Address, NEW o \in Objects, NEW v \in Contents,
           Create(a, o, v)
    PROVE  StorageInv'
  <1> DEFINE id == <<a, nextIndex[a] + 1>>
  <1> USE ConstantsAssumption DEF StorageInv
  <1>1. id \in SlabID /\ nextIndex[a] + 1 \in Nat
        /\ nextIndex[a] + 1 <= MaxIndex[a] /\ nextIndex[a] \in Nat
    BY NextIDIsSlabID DEF Create, TypeOK
  <1>2. [id |-> id, val |-> v] \in Slab /\ [id |-> id, val |-> v] # Absent
    BY <1>1 DEF Slab
  <1> HIDE DEF id
  <1>3. /\ heap' = [heap EXCEPT ![o] = [id |-> id, val |-> v]]
        /\ deltas' = [deltas EXCEPT ![id] = o]
        /\ nextIndex' = [nextIndex EXCEPT ![a] = @ + 1]
        /\ phase' = "idle" /\ heap[o] = Absent
        /\ UNCHANGED <<cache, base, pending, forsaken>>
        /\ id[1] = a /\ id[2] = nextIndex[a] + 1
    BY DEF Create, Unused, id
  <1>4. TypeOK'
    BY <1>1, <1>2, <1>3 DEF TypeOK, Phases, Entry
  <1>5. DeltasAreFiled'
    BY <1>1, <1>2, <1>3 DEF TypeOK, DeltasAreFiled
  <1>6. CacheIsAlive'
    BY <1>2, <1>3 DEF TypeOK, CacheIsAlive
  <1>7. CacheMatchesBase'
    BY <1>1, <1>3 DEF TypeOK, CacheMatchesBase, CacheIsAlive
  <1>8. CommitIsOnCourse' /\ TempIsNotSaved'
    BY <1>3 DEF CommitIsOnCourse, TempIsNotSaved
  <1>9. UnallocatedIsUnused'
    BY <1>1, <1>2, <1>3, SlabIDParts, AliveIsSlab
       DEF TypeOK, UnallocatedIsUnused
  <1> QED  BY <1>4, <1>5, <1>6, <1>7, <1>8, <1>9

\* Changing a slab in place and storing it preserves the invariant: every
\* cache entry that shares the object is hidden by the new delta.
LEMMA UpdatePreserves ==
    ASSUME StorageInv, NEW o \in Objects, NEW v \in Contents, Update(o, v)
    PROVE  StorageInv'
  <1> DEFINE id == heap[o].id
  <1> USE ConstantsAssumption DEF StorageInv
  <1>1. heap[o] \in Slab /\ id \in SlabID /\ heap[o] # Absent
    BY AliveIsSlab DEF Update, Alive, Unused
  <1>2. heap' = [heap EXCEPT ![o] = [id |-> id, val |-> v]]
        /\ [id |-> id, val |-> v] \in Slab /\ [id |-> id, val |-> v] # Absent
    <2>1. [heap[o] EXCEPT !.val = v] = [id |-> id, val |-> v]
      BY <1>1 DEF Slab
    <2> QED  BY <1>1, <2>1 DEF Update, Slab
  <1>3. /\ deltas' = [deltas EXCEPT ![id] = o]
        /\ phase' = "idle"
        /\ UNCHANGED <<cache, base, nextIndex, pending, forsaken>>
    BY DEF Update
  <1> HIDE DEF id
  <1>4. TypeOK'
    BY <1>1, <1>2, <1>3 DEF TypeOK, Phases, Entry
  <1>5. DeltasAreFiled'
    BY <1>1, <1>2, <1>3 DEF TypeOK, DeltasAreFiled, id
  <1>6. CacheIsAlive'
    BY <1>2, <1>3 DEF TypeOK, CacheIsAlive
  <1>7. CacheMatchesBase'
    BY <1>1, <1>2, <1>3 DEF TypeOK, CacheMatchesBase, DecodeSlab, id
  <1>8. CommitIsOnCourse' /\ TempIsNotSaved'
    BY <1>3 DEF CommitIsOnCourse, TempIsNotSaved
  <1>9. UnallocatedIsUnused'
    BY <1>1, <1>2, <1>3, SlabIDParts, AliveIsSlab
       DEF TypeOK, UnallocatedIsUnused, id
  <1> QED  BY <1>4, <1>5, <1>6, <1>7, <1>8, <1>9

\* Removing a slab preserves the invariant.
LEMMA RemovePreserves ==
    ASSUME StorageInv, NEW id \in SlabID, Remove(id)
    PROVE  StorageInv'
  <1> USE ConstantsAssumption DEF StorageInv
  <1>1. /\ deltas' = [deltas EXCEPT ![id] = Nil]
        /\ phase' = "idle"
        /\ UNCHANGED <<heap, cache, base, nextIndex, pending, forsaken>>
    BY DEF Remove
  <1>2. TypeOK' /\ DeltasAreFiled' /\ CacheIsAlive' /\ CacheMatchesBase'
    BY <1>1 DEF TypeOK, Phases, Entry, DeltasAreFiled, CacheIsAlive,
                CacheMatchesBase
  <1>3. CommitIsOnCourse' /\ TempIsNotSaved' /\ UnallocatedIsUnused'
    BY <1>1 DEF TypeOK, CommitIsOnCourse, TempIsNotSaved, UnallocatedIsUnused
  <1> QED  BY <1>2, <1>3

\* splitRoot preserves the invariant: the object that moves to a new ID may
\* still be cached under the root's ID, where the new root's delta hides it.
LEMMA SplitRootPreserves ==
    ASSUME StorageInv, NEW o \in Objects, NEW r \in Objects,
           NEW v \in Contents, NEW w \in Contents, SplitRoot(o, r, v, w)
    PROVE  StorageInv'
  <1> DEFINE root == heap[o].id
             a    == root[1]
             id   == <<a, nextIndex[a] + 1>>
  <1> USE ConstantsAssumption DEF StorageInv
  <1>1. heap[o] # Absent /\ heap[r] = Absent /\ root \in SlabID /\ a \in Address
        /\ root[2] <= nextIndex[a] /\ root[2] \in Nat
    BY AliveIsSlab, SlabIDParts DEF SplitRoot, Alive, Unused, UnallocatedIsUnused
  <1>2. id \in SlabID /\ nextIndex[a] + 1 \in Nat
        /\ nextIndex[a] + 1 <= MaxIndex[a] /\ nextIndex[a] \in Nat
    BY <1>1, NextIDIsSlabID DEF SplitRoot, TypeOK
  <1>3. /\ [id |-> id, val |-> v] \in Slab /\ [id |-> id, val |-> v] # Absent
        /\ [id |-> root, val |-> w] \in Slab /\ [id |-> root, val |-> w] # Absent
    BY <1>1, <1>2 DEF Slab
  <1>4. /\ heap' = [heap EXCEPT ![o] = [id |-> id, val |-> v],
                                ![r] = [id |-> root, val |-> w]]
        /\ deltas' = [deltas EXCEPT ![id] = o, ![root] = r]
        /\ nextIndex' = [nextIndex EXCEPT ![a] = @ + 1]
        /\ phase' = "idle"
        /\ UNCHANGED <<cache, base, pending, forsaken>>
        /\ id[1] = a /\ id[2] = nextIndex[a] + 1 /\ id # root
    <2>1. id[2] # root[2]
      BY <1>1, <1>2
    <2> QED  BY <2>1 DEF SplitRoot
  <1> HIDE DEF id, root, a
  <1>5. TypeOK'
    BY <1>1, <1>2, <1>3, <1>4 DEF TypeOK, Phases, Entry
  <1>6. DeltasAreFiled'
    BY <1>1, <1>2, <1>3, <1>4 DEF TypeOK, DeltasAreFiled, root
  <1>7. CacheIsAlive'
    BY <1>1, <1>3, <1>4 DEF TypeOK, CacheIsAlive
  <1>8. CacheMatchesBase'
    BY <1>1, <1>2, <1>3, <1>4
       DEF TypeOK, CacheMatchesBase, CacheIsAlive, DecodeSlab, root
  <1>9. CommitIsOnCourse' /\ TempIsNotSaved'
    BY <1>4 DEF CommitIsOnCourse, TempIsNotSaved
  <1>10. UnallocatedIsUnused'
    BY <1>1, <1>2, <1>3, <1>4, SlabIDParts, AliveIsSlab
       DEF TypeOK, UnallocatedIsUnused, a
  <1> QED  BY <1>5, <1>6, <1>7, <1>8, <1>9, <1>10

\* promoteChildAsNewRoot preserves the invariant: the child's own ID, under
\* which it may be cached, is removed in the same operation.
LEMMA PromoteChildPreserves ==
    ASSUME StorageInv, NEW c \in Objects, NEW root \in SlabID, NEW v \in Contents,
           PromoteChild(c, root, v)
    PROVE  StorageInv'
  <1> DEFINE old == heap[c].id
  <1> USE ConstantsAssumption DEF StorageInv
  <1>1. heap[c] # Absent /\ old \in SlabID /\ old # root
    BY AliveIsSlab DEF PromoteChild, Alive, Unused
  <1>2. [id |-> root, val |-> v] \in Slab /\ [id |-> root, val |-> v] # Absent
    BY DEF Slab
  <1>3. /\ heap' = [heap EXCEPT ![c] = [id |-> root, val |-> v]]
        /\ deltas' = [deltas EXCEPT ![root] = c, ![old] = Nil]
        /\ phase' = "idle"
        /\ UNCHANGED <<cache, base, nextIndex, pending, forsaken>>
    BY DEF PromoteChild
  <1>4. root[2] <= nextIndex[root[1]]
    <2>1. root[2] \in Nat /\ nextIndex[root[1]] \in Nat
      BY SlabIDParts DEF TypeOK
    <2>2. Retrieved(root) # Absent
      BY DEF PromoteChild
    <2> QED  BY <2>1, <2>2
             DEF Retrieved, SlabAt, UnallocatedIsUnused, TypeOK, Entry
  <1> HIDE DEF old
  <1>5. TypeOK'
    BY <1>1, <1>2, <1>3 DEF TypeOK, Phases, Entry
  <1>6. DeltasAreFiled'
    BY <1>1, <1>2, <1>3 DEF TypeOK, DeltasAreFiled, old
  <1>7. CacheIsAlive'
    BY <1>1, <1>2, <1>3 DEF TypeOK, CacheIsAlive
  <1>8. CacheMatchesBase'
    BY <1>1, <1>2, <1>3 DEF TypeOK, CacheMatchesBase, DecodeSlab, old
  <1>9. CommitIsOnCourse' /\ TempIsNotSaved'
    BY <1>3 DEF CommitIsOnCourse, TempIsNotSaved
  <1>10. UnallocatedIsUnused'
    <2>1. ASSUME NEW id \in SlabID, id[2] > nextIndex[id[1]]
          PROVE  /\ deltas'[id] \notin Objects /\ cache[id] \notin Objects
                 /\ base[id] = Absent
      <3>1. id # root
        BY <1>4, <2>1, SlabIDParts DEF TypeOK
      <3> QED  BY <1>1, <1>3, <2>1, <3>1 DEF TypeOK, UnallocatedIsUnused
    <2>2. ASSUME NEW o \in Objects, heap'[o] # Absent
          PROVE  heap'[o].id[2] <= nextIndex[heap'[o].id[1]]
      BY <1>2, <1>3, <1>4, <2>2 DEF TypeOK, UnallocatedIsUnused
    <2> QED  BY <1>3, <2>1, <2>2 DEF UnallocatedIsUnused
  <1> QED  BY <1>5, <1>6, <1>7, <1>8, <1>9, <1>10

\* Loading a slab from the base storage into the cache, in Retrieve or in
\* BatchPreload, preserves the invariant.
LEMMA LoadPreserves ==
    ASSUME StorageInv, NEW id \in SlabID, NEW o \in Objects,
           \/ RetrieveIgnoringDeltas(id, o)
           \/ BatchPreloadSlab(id, o)
    PROVE  StorageInv'
  <1> USE ConstantsAssumption DEF StorageInv
  <1>1. base[id] # Absent /\ heap[o] = Absent
    BY DEF RetrieveIgnoringDeltas, BatchPreloadSlab, Unused
  <1>2. DecodeSlab(id, base[id]) \in Slab /\ DecodeSlab(id, base[id]) # Absent
        /\ DecodeSlab(id, base[id]).id = id
    BY <1>1 DEF DecodeSlab, TypeOK, Slab
  <1>3. /\ heap' = [heap EXCEPT ![o] = DecodeSlab(id, base[id])]
        /\ cache' = [cache EXCEPT ![id] = o]
        /\ \/ forsaken' = forsaken
           \/ forsaken' = forsaken \ {id}
        /\ \/ pending' = pending
           \/ pending' = pending \ {id}
        /\ \/ phase' = "idle"
           \/ phase' = phase /\ phase = "preloading"
        /\ UNCHANGED <<deltas, base, nextIndex>>
    <2>1. CASE RetrieveIgnoringDeltas(id, o)
      BY <2>1 DEF RetrieveIgnoringDeltas
    <2>2. CASE BatchPreloadSlab(id, o)
      BY <2>2 DEF BatchPreloadSlab
    <2> QED  BY <2>1, <2>2
  <1>4. TypeOK'
    BY <1>2, <1>3 DEF TypeOK, Phases, Entry
  <1>5. DeltasAreFiled' /\ CacheIsAlive'
    BY <1>1, <1>2, <1>3 DEF TypeOK, DeltasAreFiled, CacheIsAlive
  <1>6. CacheMatchesBase'
    <2> SUFFICES ASSUME NEW i \in SlabID \ forsaken', deltas'[i] = Absent
                 PROVE  /\ cache'[i] = Nil => base'[i] = Absent
                        /\ cache'[i] \in Objects =>
                              /\ base'[i] # Absent
                              /\ heap'[cache'[i]] = DecodeSlab(i, base'[i])
      BY DEF CacheMatchesBase, DecodeSlab
    <2>1. CASE i = id
      BY <1>1, <1>3, <2>1 DEF TypeOK
    <2>2. CASE i # id
      <3>1. cache'[i] = cache[i] /\ i \notin forsaken
        BY <1>3, <2>2 DEF TypeOK
      <3>2. cache[i] # o \/ cache[i] \notin Objects
        BY <1>1 DEF CacheIsAlive
      <3> QED  BY <1>3, <3>1, <3>2 DEF TypeOK, CacheMatchesBase
    <2> QED  BY <2>1, <2>2
  <1>7. CommitIsOnCourse' /\ TempIsNotSaved'
    BY <1>3 DEF CommitIsOnCourse, TempIsNotSaved, OwnedDeltas
  <1>8. UnallocatedIsUnused'
    BY <1>1, <1>2, <1>3, SlabIDParts DEF TypeOK, UnallocatedIsUnused
  <1> QED  BY <1>4, <1>5, <1>6, <1>7, <1>8

\* Saving a slab, in whichever order a commit takes them, preserves the
\* invariant: base storage, cache and deltas change together.
LEMMA SavePreserves ==
    ASSUME StorageInv, phase = "committing", NEW id \in pending,
           \/ SaveRemoved(id)
           \/ SaveChanged(id)
    PROVE  StorageInv'
  <1> USE ConstantsAssumption DEF StorageInv
  <1>1. /\ id \in SlabID
        /\ cache' = [cache EXCEPT ![id] = deltas[id]]
        /\ deltas' = [deltas EXCEPT ![id] = Absent]
        /\ pending' = pending \ {id}
        /\ forsaken' = forsaken \ {id}
        /\ UNCHANGED <<heap, nextIndex, phase>>
    BY DEF SaveRemoved, SaveChanged, Applied, TypeOK
  <1>2. \/ deltas[id] = Nil /\ base' = [base EXCEPT ![id] = Absent]
        \/ /\ deltas[id] \in Objects /\ heap[deltas[id]] # Absent
           /\ heap[deltas[id]] = DecodeSlab(id, heap[deltas[id]].val)
           /\ heap[deltas[id]].val \in Contents
           /\ base' = [base EXCEPT ![id] = heap[deltas[id]].val]
    <2>1. ASSUME deltas[id] \in Objects
          PROVE  /\ heap[deltas[id]] # Absent
                 /\ heap[deltas[id]] = DecodeSlab(id, heap[deltas[id]].val)
                 /\ heap[deltas[id]].val \in Contents
      BY <2>1 DEF TypeOK, DeltasAreFiled, DecodeSlab, Slab
    <2> QED  BY <2>1 DEF SaveRemoved, SaveChanged, EncodeSlab
  <1>3. TypeOK'
    BY <1>1, <1>2 DEF TypeOK, Phases, Entry
  <1>4. DeltasAreFiled' /\ CacheIsAlive'
    BY <1>1, <1>2 DEF TypeOK, DeltasAreFiled, CacheIsAlive
  <1>5. CacheMatchesBase'
    BY <1>1, <1>2 DEF TypeOK, CacheMatchesBase
  <1>6. id \in OwnedIDs /\ OwnedDeltas' = OwnedDeltas \ {id}
    BY <1>1 DEF TypeOK, CommitIsOnCourse, OwnedDeltas, OwnedIDs
  <1>7. CommitIsOnCourse' /\ TempIsNotSaved'
    BY <1>1, <1>2, <1>6 DEF TypeOK, CommitIsOnCourse, TempIsNotSaved
  <1>8. UnallocatedIsUnused'
    BY <1>1, <1>2 DEF TypeOK, UnallocatedIsUnused
  <1> QED  BY <1>3, <1>4, <1>5, <1>7, <1>8

\* The steps that begin, skip or end a loop preserve the invariant.
LEMMA LoopControlPreserves ==
    ASSUME StorageInv,
           \/ \E ids \in SUBSET SlabID : BatchPreloadBegin(ids)
           \/ \E id \in SlabID : BatchPreloadSkip(id)
           \/ BatchPreloadEnd
           \/ CommitBegin
           \/ CommitError
           \/ CommitEnd
    PROVE  StorageInv'
  <1> USE DEF StorageInv
  <1>1. UNCHANGED <<heap, deltas, cache, base, nextIndex, forsaken>>
    BY DEF BatchPreloadBegin, BatchPreloadSkip, BatchPreloadEnd, CommitBegin,
           CommitError, CommitEnd
  <1>2. TypeOK'
    BY DEF BatchPreloadBegin, BatchPreloadSkip, BatchPreloadEnd, CommitBegin,
           CommitError, CommitEnd, OwnedDeltas, OwnedIDs, TypeOK, Phases
  <1>3. /\ DeltasAreFiled' /\ CacheIsAlive' /\ CacheMatchesBase'
        /\ TempIsNotSaved' /\ UnallocatedIsUnused'
    BY <1>1 DEF DeltasAreFiled, CacheIsAlive, CacheMatchesBase,
                TempIsNotSaved, UnallocatedIsUnused
  <1>4. OwnedDeltas' = OwnedDeltas
    BY <1>1 DEF OwnedDeltas
  <1>5. CommitIsOnCourse'
    BY <1>4 DEF CommitIsOnCourse, BatchPreloadBegin, BatchPreloadSkip,
                BatchPreloadEnd, CommitBegin, CommitError, CommitEnd
  <1> QED  BY <1>2, <1>3, <1>5

\* Giving up memory, on purpose or in a crash, preserves the invariant.
LEMMA DropPreserves ==
    ASSUME StorageInv, DropStep
    PROVE  StorageInv'
  <1> USE ConstantsAssumption DEF StorageInv
  <1>1. CASE DropDeltas
    BY <1>1 DEF DropDeltas, TypeOK, Phases, Entry, DeltasAreFiled, CacheIsAlive,
                CacheMatchesBase, CommitIsOnCourse, TempIsNotSaved,
                UnallocatedIsUnused
  <1>2. CASE DropCache
    BY <1>2 DEF DropCache, TypeOK, Phases, Entry, DeltasAreFiled, CacheIsAlive,
                CacheMatchesBase, CommitIsOnCourse, TempIsNotSaved,
                UnallocatedIsUnused
  <1>3. ASSUME NEW o \in Objects, Collect(o)
        PROVE  StorageInv'
    <2>1. /\ heap' = [heap EXCEPT ![o] = Absent]
          /\ \A id \in SlabID : deltas[id] # o /\ cache[id] # o
          /\ UNCHANGED <<deltas, cache, base, nextIndex, phase, pending, forsaken>>
      BY <1>3 DEF Collect
    <2>2. TypeOK' /\ DeltasAreFiled' /\ CacheIsAlive' /\ CacheMatchesBase'
      BY <2>1 DEF TypeOK, DeltasAreFiled, CacheIsAlive, CacheMatchesBase
    <2>3. OwnedDeltas' = OwnedDeltas
      BY <2>1 DEF OwnedDeltas
    <2>4. CommitIsOnCourse' /\ TempIsNotSaved' /\ UnallocatedIsUnused'
      BY <2>1, <2>3 DEF TypeOK, CommitIsOnCourse, TempIsNotSaved,
                        UnallocatedIsUnused
    <2> QED  BY <2>2, <2>4
  <1>4. CASE Restart
    <2>1. TypeOK'
      BY <1>4 DEF Restart, TypeOK, Phases, Entry
    <2>2. DeltasAreFiled' /\ CacheIsAlive' /\ CacheMatchesBase'
          /\ CommitIsOnCourse' /\ TempIsNotSaved'
      BY <1>4 DEF Restart, TypeOK, DeltasAreFiled, CacheIsAlive,
                  CacheMatchesBase, CommitIsOnCourse, TempIsNotSaved
    <2>3. UnallocatedIsUnused'
      BY <1>4, SlabIDParts
         DEF Restart, TypeOK, UnallocatedIsUnused, TempIsNotSaved, OwnedIDs
    <2> QED  BY <2>1, <2>2, <2>3
  <1> QED  BY <1>1, <1>2, <1>3, <1>4 DEF DropStep

-----------------------------------------------------------------------------
(* The invariant holds in every state.                                     *)

\* A new storage over an empty base storage satisfies the invariant.
LEMMA InvInit == Init => StorageInv
  BY ConstantsAssumption
     DEF Init, StorageInv, TypeOK, Entry, Phases, DeltasAreFiled, CacheIsAlive,
         CacheMatchesBase, CommitIsOnCourse, TempIsNotSaved, UnallocatedIsUnused

\* Every step of the storage preserves the invariant.
LEMMA InvStep == StorageInv /\ [Next]_vars => StorageInv'
  <1> SUFFICES ASSUME StorageInv, [Next]_vars PROVE StorageInv'
    OBVIOUS
  <1>1. CASE ContainerStep
    BY <1>1, CreatePreserves, UpdatePreserves, RemovePreserves,
       SplitRootPreserves, PromoteChildPreserves DEF ContainerStep
  <1>2. CASE ReadStep
    BY <1>2, LoadPreserves, LoopControlPreserves DEF ReadStep, Retrieve
  <1>3. CASE CommitBegin \/ CommitStep
    BY <1>3, SavePreserves, LoopControlPreserves
       DEF CommitStep, CommitRemoved, CommitChanged, NextKey
  <1>4. CASE DropStep
    BY <1>4, DropPreserves
  <1>5. CASE UNCHANGED vars
    BY <1>5 DEF vars, StorageInv, TypeOK, DeltasAreFiled, CacheIsAlive,
                CacheMatchesBase, CommitIsOnCourse, OwnedDeltas,
                TempIsNotSaved, UnallocatedIsUnused
  <1> QED  BY <1>1, <1>2, <1>3, <1>4, <1>5 DEF Next

\* The invariant that explains why sharing slab objects between deltas, cache
\* and containers is safe.
THEOREM StorageInvariant == Spec => []StorageInv
  BY InvInit, InvStep, PTL DEF Spec

\* The storage's variables always have their types.
THEOREM TypeCorrect == Spec => []TypeOK
  <1>1. StorageInv => TypeOK
    BY DEF StorageInv
  <1> QED  BY <1>1, StorageInvariant, PTL

-----------------------------------------------------------------------------
(* What follows from it.                                                   *)

\* Retrieve agrees with the callers' view in every state of the invariant.
LEMMA InvImpliesCoherent == StorageInv => ReadsAreCoherent
  <1> SUFFICES ASSUME StorageInv, NEW id \in SlabID \ forsaken
               PROVE  Retrieved(id) = FromData(id, View(id))
    BY DEF ReadsAreCoherent
  <1> USE ConstantsAssumption DEF StorageInv
  <1>1. CASE deltas[id] \in Objects
    <2>1. heap[deltas[id]] = DecodeSlab(id, heap[deltas[id]].val)
          /\ heap[deltas[id]].val # Absent
      BY <1>1 DEF DeltasAreFiled, DecodeSlab, TypeOK, Slab
    <2> QED  BY <1>1, <2>1 DEF Retrieved, SlabAt, View, FromData, EncodeSlab
  <1>2. CASE deltas[id] = Nil
    BY <1>2 DEF Retrieved, SlabAt, View, FromData
  <1>3. CASE deltas[id] = Absent
    BY <1>3 DEF Retrieved, SlabAt, View, FromData, CacheMatchesBase, TypeOK, Entry
  <1> QED  BY <1>1, <1>2, <1>3 DEF TypeOK, Entry

\* Retrieve returns what was last stored or saved, for every slab whose cache
\* entry was not left behind by DropDeltas.
THEOREM Coherence == Spec => []ReadsAreCoherent
  BY StorageInvariant, InvImpliesCoherent, PTL

\* After a commit nothing that belongs to an account is in deltas.
LEMMA InvImpliesSaved == StorageInv => CommittedIsSaved
  <1> SUFFICES ASSUME StorageInv, phase = "committed",
                      NEW id \in OwnedIDs \ forsaken
               PROVE  Retrieved(id) = FromData(id, base[id])
    BY DEF CommittedIsSaved
  <1>1. id \in SlabID /\ deltas[id] = Absent
    BY DEF StorageInv, CommitIsOnCourse, OwnedDeltas, OwnedIDs
  <1> QED  BY <1>1, InvImpliesCoherent DEF ReadsAreCoherent, View

\* A commit that returned nil has saved every account slab.
THEOREM CommitSaves == Spec => []CommittedIsSaved
  BY StorageInvariant, InvImpliesSaved, PTL

\* What was not handed out yet is neither stored nor the ID of a slab object.
LEMMA InvImpliesFresh == StorageInv => IndexesAreFresh
  <1> SUFFICES ASSUME StorageInv, NEW id \in SlabID,
                      id[2] > nextIndex[id[1]]
               PROVE  /\ Retrieved(id) = Absent
                      /\ \A o \in Alive : heap[o].id # id
    BY DEF IndexesAreFresh
  <1>1. Retrieved(id) = Absent
    BY ConstantsAssumption
       DEF StorageInv, UnallocatedIsUnused, Retrieved, SlabAt, TypeOK, Entry
  <1>2. ASSUME NEW o \in Alive PROVE heap[o].id # id
    BY <1>2, SlabIDParts DEF StorageInv, UnallocatedIsUnused, TypeOK, Alive, Unused
  <1> QED  BY <1>1, <1>2

\* GenerateSlabID never hands out an ID that is in use.
THEOREM FreshIndexes == Spec => []IndexesAreFresh
  BY StorageInvariant, InvImpliesFresh, PTL

-----------------------------------------------------------------------------
(* The base storage is written by commit only, in the order of the keys.   *)

\* A step that changes the base storage is an iteration of commit.
LEMMA OnlyCommitWrites ==
    ASSUME [Next]_vars, base' # base
    PROVE  \E id \in SlabID : CommitRemoved(id) \/ CommitChanged(id)
  <1>1. ~ UNCHANGED vars /\ Next
    BY DEF vars
  <1>2. ~ ContainerStep
    BY DEF ContainerStep, Create, Update, Remove, SplitRoot, PromoteChild
  <1>3. ~ ReadStep
    BY DEF ReadStep, Retrieve, RetrieveIgnoringDeltas, BatchPreloadBegin,
           BatchPreloadSlab, BatchPreloadSkip, BatchPreloadEnd
  <1>4. ~ CommitBegin /\ ~ CommitError /\ ~ CommitEnd
    BY DEF CommitBegin, CommitError, CommitEnd
  <1>5. ~ DropStep
    BY DEF DropStep, DropDeltas, DropCache, Collect, Restart
  <1> QED  BY <1>1, <1>2, <1>3, <1>4, <1>5 DEF Next, CommitStep

\* No write to the base storage overtakes an unsaved slab with a lower ID.
THEOREM OrderedWrites == Spec => WritesAreOrdered
  <1> DEFINE Ordered == \A id \in SlabID : base'[id] # base[id] =>
                          \A other \in OwnedDeltas : ~ Before(other, id)
  <1>1. StorageInv /\ [Next]_vars => [Ordered]_vars
    <2> SUFFICES ASSUME StorageInv, [Next]_vars, NEW id \in SlabID,
                        base'[id] # base[id], NEW other \in OwnedDeltas
                 PROVE  ~ Before(other, id)
      OBVIOUS
    <2>1. PICK k \in SlabID : CommitRemoved(k) \/ CommitChanged(k)
      BY OnlyCommitWrites
    <2>2. NextKey(k) /\ id = k /\ pending = OwnedDeltas
      BY <2>1 DEF CommitRemoved, CommitChanged, SaveRemoved, SaveChanged,
                  StorageInv, TypeOK, CommitIsOnCourse, NextKey
    <2>3. other = id \/ Before(id, other)
      BY <2>2 DEF NextKey
    <2>4. other \in SlabID
      BY DEF OwnedDeltas, OwnedIDs
    <2> QED  BY <2>3, <2>4, SlabIDParts, ConstantsAssumption DEF Before
  <1> QED  BY <1>1, StorageInvariant, PTL DEF Spec, WritesAreOrdered

-----------------------------------------------------------------------------
(* SlabStorage implements WriteBackStore: what callers see is the view,    *)
(* the base storage is the saved copy.                                     *)

view == [id \in SlabID |-> View(id)]

\* An operation on slab objects is a write of at most two slabs of the view.
LEMMA ContainerRefines ==
    ASSUME StorageInv, ContainerStep
    PROVE  Store!Write
  <1> USE ConstantsAssumption DEF StorageInv
  <1>0. base' = base
    BY DEF ContainerStep, Create, Update, Remove, SplitRoot, PromoteChild
  <1>b. Ready /\ Ready'
    BY DEF ContainerStep, Create, Update, Remove, SplitRoot, PromoteChild, Ready
  <1>a. SUFFICES \E i, j \in SlabID, x, y \in Contents \cup {Absent} :
                    view' = [view EXCEPT ![i] = x, ![j] = y]
    BY <1>0, <1>b DEF Store!Write, Store!Slots, view
  <1>1. ASSUME NEW a \in Address, NEW o \in Objects, NEW v \in Contents,
               Create(a, o, v)
        PROVE  \E i, j \in SlabID, x, y \in Contents \cup {Absent} :
                  view' = [view EXCEPT ![i] = x, ![j] = y]
    <2> DEFINE id == <<a, nextIndex[a] + 1>>
    <2>1. id \in SlabID
      BY <1>1, NextIDIsSlabID DEF Create
    <2>2. /\ heap' = [heap EXCEPT ![o] = [id |-> id, val |-> v]]
          /\ deltas' = [deltas EXCEPT ![id] = o]
          /\ heap[o] = Absent
      BY <1>1 DEF Create, Unused
    <2> HIDE DEF id
    <2>3. \A i \in SlabID : View(i)' = IF i = id THEN v ELSE View(i)
      BY <1>0, <2>1, <2>2 DEF View, EncodeSlab, TypeOK, DeltasAreFiled
    <2>4. view' = [view EXCEPT ![id] = v, ![id] = v]
      BY <2>1, <2>3 DEF view
    <2> QED  BY <2>1, <2>4
  <1>2. ASSUME NEW o \in Objects, NEW v \in Contents, Update(o, v)
        PROVE  \E i, j \in SlabID, x, y \in Contents \cup {Absent} :
                  view' = [view EXCEPT ![i] = x, ![j] = y]
    <2> DEFINE id == heap[o].id
    <2>1. id \in SlabID /\ heap[o] \in Slab
      BY <1>2, AliveIsSlab DEF Update, Alive, Unused
    <2>2. /\ heap' = [heap EXCEPT ![o].val = v]
          /\ deltas' = [deltas EXCEPT ![id] = o]
      BY <1>2 DEF Update
    <2>3. heap'[o].val = v /\ \A r \in Objects \ {o} : heap'[r] = heap[r]
      BY <2>1, <2>2 DEF TypeOK, Slab
    <2>4. \A i \in SlabID : View(i)' = IF i = id THEN v ELSE View(i)
      BY <1>0, <2>1, <2>2, <2>3 DEF View, EncodeSlab, TypeOK, DeltasAreFiled
    <2> HIDE DEF id
    <2>5. view' = [view EXCEPT ![id] = v, ![id] = v]
      BY <2>1, <2>4 DEF view
    <2> QED  BY <2>1, <2>5
  <1>3. ASSUME NEW id \in SlabID, Remove(id)
        PROVE  \E i, j \in SlabID, x, y \in Contents \cup {Absent} :
                  view' = [view EXCEPT ![i] = x, ![j] = y]
    <2>1. \A i \in SlabID : View(i)' = IF i = id THEN Absent ELSE View(i)
      BY <1>0, <1>3 DEF Remove, View, TypeOK
    <2>2. view' = [view EXCEPT ![id] = Absent, ![id] = Absent]
      BY <2>1 DEF view
    <2> QED  BY <2>2
  <1>4. ASSUME NEW o \in Objects, NEW r \in Objects,
               NEW v \in Contents, NEW w \in Contents, SplitRoot(o, r, v, w)
        PROVE  \E i, j \in SlabID, x, y \in Contents \cup {Absent} :
                  view' = [view EXCEPT ![i] = x, ![j] = y]
    <2> DEFINE root == heap[o].id
               a    == root[1]
               id   == <<a, nextIndex[a] + 1>>
    <2>1. /\ heap[o] # Absent /\ heap[r] = Absent /\ root \in SlabID
          /\ a \in Address /\ root[2] <= nextIndex[a]
          /\ root[2] \in Nat /\ nextIndex[a] \in Nat
      BY <1>4, AliveIsSlab, SlabIDParts
         DEF SplitRoot, Alive, Unused, UnallocatedIsUnused, TypeOK
    <2>2. id \in SlabID
      BY <1>4, <2>1, NextIDIsSlabID DEF SplitRoot
    <2>3. id # root
      <3>1. id[2] # root[2]
        BY <2>1
      <3> QED  BY <3>1
    <2>4. /\ heap' = [heap EXCEPT ![o] = [id |-> id, val |-> v],
                                  ![r] = [id |-> root, val |-> w]]
          /\ deltas' = [deltas EXCEPT ![id] = o, ![root] = r]
      BY <1>4 DEF SplitRoot
    <2> HIDE DEF id, a
    <2>5. \A i \in SlabID : View(i)' = IF i = id THEN v
                                       ELSE IF i = root THEN w ELSE View(i)
      BY <1>0, <2>1, <2>2, <2>3, <2>4
         DEF View, EncodeSlab, TypeOK, DeltasAreFiled
    <2> HIDE DEF root
    <2>6. view' = [view EXCEPT ![id] = v, ![root] = w]
      BY <2>1, <2>2, <2>3, <2>5 DEF view
    <2> QED  BY <2>1, <2>2, <2>6
  <1>5. ASSUME NEW c \in Objects, NEW root \in SlabID, NEW v \in Contents,
               PromoteChild(c, root, v)
        PROVE  \E i, j \in SlabID, x, y \in Contents \cup {Absent} :
                  view' = [view EXCEPT ![i] = x, ![j] = y]
    <2> DEFINE old == heap[c].id
    <2>1. old \in SlabID /\ old # root /\ heap[c] # Absent
      BY <1>5, AliveIsSlab DEF PromoteChild, Alive, Unused
    <2>2. /\ heap' = [heap EXCEPT ![c] = [id |-> root, val |-> v]]
          /\ deltas' = [deltas EXCEPT ![root] = c, ![old] = Nil]
      BY <1>5 DEF PromoteChild
    <2>3. \A i \in SlabID : View(i)' = IF i = root THEN v
                                       ELSE IF i = old THEN Absent ELSE View(i)
      BY <1>0, <2>1, <2>2 DEF View, EncodeSlab, TypeOK, DeltasAreFiled
    <2> HIDE DEF old
    <2>4. view' = [view EXCEPT ![root] = v, ![old] = Absent]
      BY <2>1, <2>3 DEF view
    <2> QED  BY <2>1, <2>4
  <1> QED  BY <1>1, <1>2, <1>3, <1>4, <1>5 DEF ContainerStep

\* Reading is invisible: the object that is filled was not in use.
LEMMA ReadRefines ==
    ASSUME StorageInv, ReadStep
    PROVE  Store!Begin \/ Store!End \/ UNCHANGED <<view, base, Ready>>
  <1> USE DEF StorageInv
  <1>1. base' = base /\ deltas' = deltas
    BY DEF ReadStep, Retrieve, RetrieveIgnoringDeltas, BatchPreloadBegin,
           BatchPreloadSlab, BatchPreloadSkip, BatchPreloadEnd
  <1>2. \A o \in Objects : heap[o] # Absent => heap'[o] = heap[o]
    BY DEF ReadStep, Retrieve, RetrieveIgnoringDeltas, BatchPreloadBegin,
           BatchPreloadSlab, BatchPreloadSkip, BatchPreloadEnd, Unused, TypeOK
  <1>3. \A id \in SlabID : View(id)' = View(id)
    BY <1>1, <1>2 DEF View, EncodeSlab, DeltasAreFiled
  <1>4. UNCHANGED <<view, base>>
    BY <1>1, <1>3 DEF view
  <1>5. (Ready /\ ~ Ready') \/ (~ Ready /\ Ready') \/ Ready' = Ready
    BY DEF Ready
  <1> QED  BY <1>4, <1>5 DEF Store!Begin, Store!End, view

\* Saving a slab, in whichever order, is invisible to callers.
LEMMA SaveRefines ==
    ASSUME StorageInv, phase = "committing", NEW k \in pending,
           SaveRemoved(k) \/ SaveChanged(k)
    PROVE  Store!Save
  <1> USE ConstantsAssumption DEF StorageInv
  <1>1. /\ k \in OwnedIDs /\ k \in SlabID
        /\ deltas' = [deltas EXCEPT ![k] = Absent]
        /\ heap' = heap
    BY DEF SaveRemoved, SaveChanged, Applied, CommitIsOnCourse, OwnedDeltas, OwnedIDs
  <1>2. base' = [base EXCEPT ![k] = View(k)]
    BY DEF SaveRemoved, SaveChanged, View
  <1>3. \A id \in SlabID : View(id)' = View(id)
    BY <1>1, <1>2 DEF View, TypeOK
  <1>4. ~ Ready /\ ~ Ready'
    BY DEF SaveRemoved, SaveChanged, Ready
  <1> QED  BY <1>1, <1>2, <1>3, <1>4 DEF Store!Save, view

\* Every step of the storage is a step of WriteBackStore, or invisible.
LEMMA StepRefines ==
    StorageInv /\ [Next]_vars => [Store!Next]_<<view, base, ~ Ready>>
  <1> SUFFICES ASSUME StorageInv, [Next]_vars
               PROVE  Store!Next \/ UNCHANGED <<view, base, Ready>>
    BY DEF view
  <1>1. CASE ContainerStep
    BY <1>1, ContainerRefines DEF Store!Next
  <1>2. CASE ReadStep
    BY <1>2, ReadRefines DEF Store!Next
  <1>3. ASSUME NEW id \in SlabID, CommitRemoved(id) \/ CommitChanged(id)
        PROVE  Store!Next
    BY <1>3, SaveRefines DEF CommitRemoved, CommitChanged, NextKey, Store!Next
  <1>4. CASE CommitBegin \/ CommitError \/ CommitEnd
    <2>1. UNCHANGED <<view, base>>
      BY <1>4 DEF CommitBegin, CommitError, CommitEnd, view, View
    <2>2. (Ready /\ ~ Ready') \/ (~ Ready /\ Ready')
      BY <1>4 DEF CommitBegin, CommitError, CommitEnd, Ready
    <2> QED  BY <2>1, <2>2 DEF Store!Next, Store!Begin, Store!End, view
  <1>5. CASE DropCache \/ UNCHANGED vars
    BY <1>5 DEF DropCache, vars, view, View, Ready
  <1>6. CASE DropDeltas \/ Restart
    BY <1>6 DEF DropDeltas, Restart, Store!Next, Store!Revert, view, View,
                StorageInv, TypeOK, Ready
  <1>7. ASSUME NEW o \in Objects, Collect(o)
        PROVE  UNCHANGED <<view, base, Ready>>
    <2>1. \A id \in SlabID : View(id)' = View(id)
      BY <1>7 DEF Collect, View, StorageInv, TypeOK
    <2> QED  BY <1>7, <2>1 DEF Collect, view, Ready
  <1> QED  BY <1>1, <1>2, <1>3, <1>4, <1>5, <1>6, <1>7 DEF Next, CommitStep, DropStep

\* SlabStorage implements WriteBackStore, for any number of addresses, slabs
\* and objects.
THEOREM Refinement == Spec => ImplementsStore
  <1>1. Init => Store!Init
    BY DEF Init, Store!Init, Store!Slots, View, OwnedIDs, Ready
  <1>2. StorageInv /\ [Next]_vars
          => [Store!Next]_<<[id \in SlabID |-> View(id)], base, ~ Ready>>
    BY StepRefines DEF view
  <1> QED  BY <1>1, <1>2, StorageInvariant, PTL DEF Spec, ImplementsStore, Store!Spec

-----------------------------------------------------------------------------
(* The goroutine pool.                                                     *)

\* The head and the tail of a channel, by index.
LEMMA ChannelParts ==
    ASSUME NEW S, NEW c \in Seq(S), c # <<>>
    PROVE  /\ Head(c) = c[1] /\ c[1] \in S
           /\ Tail(c) \in Seq(S)
           /\ 1 \in DOMAIN c
           /\ DOMAIN Tail(c) = 1..(Len(c) - 1) /\ DOMAIN c = 1..Len(c)
           /\ Len(c) \in Nat /\ Len(c) > 0
           /\ \A i \in DOMAIN Tail(c) : i + 1 \in DOMAIN c /\ Tail(c)[i] = c[i + 1]
  <1>1. Len(c) \in Nat /\ Len(c) > 0 /\ DOMAIN c = 1..Len(c)
    BY EmptySeq, LenProperties
  <1>2. /\ Tail(c) \in Seq(S) /\ Len(Tail(c)) = Len(c) - 1
        /\ \A i \in 1..Len(Tail(c)) : Tail(c)[i] = c[i + 1]
    BY HeadTailProperties
  <1>3. DOMAIN Tail(c) = 1..(Len(c) - 1)
    BY <1>2, LenProperties
  <1>4. Head(c) = c[1] /\ c[1] \in S
    BY <1>1, ElementOfSeq
  <1> QED  BY <1>1, <1>2, <1>3, <1>4

\* A channel after a send, by index.
LEMMA ChannelAppend ==
    ASSUME NEW S, NEW c \in Seq(S), NEW e \in S
    PROVE  /\ Append(c, e) \in Seq(S)
           /\ Len(c) \in Nat /\ DOMAIN c = 1..Len(c)
           /\ DOMAIN Append(c, e) = 1..(Len(c) + 1)
           /\ \A i \in DOMAIN c : Append(c, e)[i] = c[i]
           /\ Append(c, e)[Len(c) + 1] = e
  BY AppendProperties, LenProperties

\* The error of a result is a truth value.
LEMMA ErrField ==
    ASSUME NEW a, NEW b, NEW v, NEW S, NEW r,
           r = [slabID |-> a, data |-> b, err |-> v \in S]
    PROVE  r.err <=> v \in S
  BY Zenon

-----------------------------------------------------------------------------
(* One lemma per step of the pool.                                         *)

\* A worker that takes a job keeps every key in the pool exactly once.
LEMMA ReceiveKeeps ==
    ASSUME NEW J, NEW R, PoolHolds(J, R), EachKeyOnce,
           NEW w \in Workers, Receive(w)
    PROVE  /\ PoolHolds(J, R)' /\ EachKeyOnce'
           /\ \A id : InPool(id)' <=> InPool(id)
  <1> DEFINE took == [at |-> "check", job |-> jobs[1]]
  <1>1. /\ worker[w] = Waiting /\ jobs # <<>>
        /\ worker' = [worker EXCEPT ![w] = took]
        /\ jobs' = Tail(jobs)
        /\ UNCHANGED <<open, results, done>>
        /\ worker \in [Workers -> {Gone, Waiting} \cup [at : {"check", "work"}, job : J]]
        /\ jobs \in Seq(J)
    BY DEF Receive, PoolHolds, took
  <1>2. /\ jobs[1] \in J /\ jobs' \in Seq(J) /\ 1 \in DOMAIN jobs
        /\ DOMAIN jobs' = 1..(Len(jobs) - 1) /\ DOMAIN jobs = 1..Len(jobs)
        /\ Len(jobs) \in Nat /\ Len(jobs) > 0
        /\ \A i \in DOMAIN jobs' : i + 1 \in DOMAIN jobs /\ jobs'[i] = jobs[i + 1]
    BY <1>1, ChannelParts
  <1>3. PoolHolds(J, R)'
    BY <1>1, <1>2 DEF PoolHolds
  <1>4. /\ Busy(w)' /\ ~ Busy(w) /\ worker'[w].job = jobs[1]
        /\ \A v \in Workers : v # w => worker'[v] = worker[v] /\ (Busy(v)' <=> Busy(v))
    BY <1>1 DEF Busy, Waiting
  <1>5. EachKeyOnce'
    BY <1>1, <1>2, <1>4 DEF EachKeyOnce
  <1>6. ASSUME NEW id PROVE InPool(id)' <=> InPool(id)
    <2>1. ASSUME InPool(id)' PROVE InPool(id)
      BY <1>1, <1>2, <1>4, <2>1 DEF InPool
    <2>2. ASSUME NEW i \in DOMAIN jobs, jobs[i].slabID = id PROVE InPool(id)'
      <3>1. CASE i = 1
        BY <1>4, <2>2, <3>1 DEF InPool
      <3>2. CASE i # 1
        <4>1. i - 1 \in DOMAIN jobs' /\ jobs'[i - 1] = jobs[i]
          BY <1>2, <3>2
        <4> QED  BY <2>2, <4>1 DEF InPool
      <3> QED  BY <3>1, <3>2
    <2>3. ASSUME InPool(id) PROVE InPool(id)'
      BY <1>1, <1>4, <2>2, <2>3 DEF InPool
    <2> QED  BY <2>1, <2>3
  <1> QED  BY <1>3, <1>5, <1>6

\* A worker that finds the channel closed and empty had no key.
LEMMA FinishKeeps ==
    ASSUME NEW J, NEW R, PoolHolds(J, R), EachKeyOnce,
           NEW w \in Workers, Finish(w)
    PROVE  /\ PoolHolds(J, R)' /\ EachKeyOnce'
           /\ \A id : InPool(id)' <=> InPool(id)
  <1>1. /\ worker[w] = Waiting
        /\ worker' = [worker EXCEPT ![w] = Gone]
        /\ UNCHANGED <<jobs, open, results, done>>
        /\ worker \in [Workers -> {Gone, Waiting} \cup [at : {"check", "work"}, job : J]]
    BY DEF Finish, PoolHolds
  <1>2. PoolHolds(J, R)'
    BY <1>1 DEF PoolHolds
  <1>3. /\ ~ Busy(w)' /\ ~ Busy(w)
        /\ \A v \in Workers : v # w => worker'[v] = worker[v] /\ (Busy(v)' <=> Busy(v))
    BY <1>1 DEF Busy, Waiting, Gone
  <1>4. EachKeyOnce'
    BY <1>1, <1>3 DEF EachKeyOnce
  <1>5. ASSUME NEW id PROVE InPool(id)' <=> InPool(id)
    BY <1>1, <1>3 DEF InPool
  <1> QED  BY <1>2, <1>4, <1>5

\* The select statement loses a key only when done is closed.
LEMMA CheckKeeps ==
    ASSUME NEW J, NEW R, PoolHolds(J, R), EachKeyOnce,
           NEW w \in Workers, Check(w)
    PROVE  /\ PoolHolds(J, R)' /\ EachKeyOnce'
           /\ \A id : InPool(id)' => InPool(id)
           /\ ~ done => /\ \A id : InPool(id) => InPool(id)'
                       /\ worker'[w] # Gone
  <1> DEFINE next == IF done THEN Gone ELSE [at |-> "work", job |-> worker[w].job]
  <1>1. /\ worker[w].at = "check"
        /\ worker' = [worker EXCEPT ![w] = next]
        /\ UNCHANGED <<jobs, open, results, done>>
        /\ worker \in [Workers -> {Gone, Waiting} \cup [at : {"check", "work"}, job : J]]
    BY DEF Check, PoolHolds
  <1>2. worker[w] \in [at : {"check", "work"}, job : J] /\ worker[w].job \in J
    BY <1>1 DEF Gone, Waiting
  <1>3. PoolHolds(J, R)'
    BY <1>1, <1>2 DEF PoolHolds
  <1>4. /\ Busy(w) /\ (Busy(w)' => worker'[w].job = worker[w].job)
        /\ ~ done => Busy(w)' /\ worker'[w] # Gone
        /\ \A v \in Workers : v # w => worker'[v] = worker[v] /\ (Busy(v)' <=> Busy(v))
    BY <1>1 DEF Busy, Gone
  <1>5. EachKeyOnce'
    BY <1>1, <1>4 DEF EachKeyOnce
  <1>6. ASSUME NEW id, InPool(id)' PROVE InPool(id)
    BY <1>1, <1>4, <1>6 DEF InPool
  <1>7. ASSUME NEW id, ~ done, InPool(id) PROVE InPool(id)'
    BY <1>1, <1>4, <1>7 DEF InPool
  <1> QED  BY <1>3, <1>4, <1>5, <1>6, <1>7

\* A worker that sends the answer to its job keeps every key exactly once.
LEMMA SendKeeps ==
    ASSUME NEW J, NEW R, PoolHolds(J, R), EachKeyOnce,
           NEW w \in Workers, NEW r \in R, r.slabID = worker[w].job.slabID,
           Send(w, r)
    PROVE  /\ PoolHolds(J, R)' /\ EachKeyOnce'
           /\ \A id : InPool(id)' <=> InPool(id)
  <1>1. /\ worker[w].at = "work"
        /\ worker' = [worker EXCEPT ![w] = Waiting]
        /\ results' = Append(results, r)
        /\ UNCHANGED <<jobs, open, done>>
        /\ worker \in [Workers -> {Gone, Waiting} \cup [at : {"check", "work"}, job : J]]
        /\ results \in Seq(R)
    BY DEF Send, PoolHolds
  <1> DEFINE n == Len(results) + 1
  <1>2. /\ results' \in Seq(R)
        /\ Len(results) \in Nat /\ DOMAIN results = 1..Len(results)
        /\ DOMAIN results' = 1..n
        /\ \A i \in DOMAIN results : results'[i] = results[i]
        /\ results'[n] = r
    BY <1>1, ChannelAppend
  <1>3. PoolHolds(J, R)'
    BY <1>1, <1>2 DEF PoolHolds
  <1>4. /\ Busy(w) /\ ~ Busy(w)'
        /\ \A v \in Workers : v # w => worker'[v] = worker[v] /\ (Busy(v)' <=> Busy(v))
    BY <1>1 DEF Busy, Waiting
  <1>5. /\ n \in DOMAIN results' /\ n \notin DOMAIN results
        /\ \A i \in DOMAIN results' : i = n \/ i \in DOMAIN results
    BY <1>2
  <1> HIDE DEF n
  <1>6. EachKeyOnce'
    <2>1. \A i, j \in DOMAIN results' : results'[i].slabID = results'[j].slabID => i = j
      BY <1>2, <1>4, <1>5 DEF EachKeyOnce
    <2>2. \A i \in DOMAIN jobs, j \in DOMAIN results' : jobs[i].slabID # results'[j].slabID
      BY <1>2, <1>4, <1>5 DEF EachKeyOnce
    <2>3. \A v \in Workers : Busy(v)' =>
            /\ \A i \in DOMAIN jobs : jobs[i].slabID # worker'[v].job.slabID
            /\ \A i \in DOMAIN results' : results'[i].slabID # worker'[v].job.slabID
      BY <1>2, <1>4, <1>5 DEF EachKeyOnce
    <2>4. \A v, u \in Workers :
            Busy(v)' /\ Busy(u)' /\ worker'[v].job.slabID = worker'[u].job.slabID => v = u
      BY <1>4 DEF EachKeyOnce
    <2> QED  BY <1>1, <2>1, <2>2, <2>3, <2>4 DEF EachKeyOnce
  <1>7. ASSUME NEW id PROVE InPool(id)' <=> InPool(id)
    <2>1. ASSUME InPool(id)' PROVE InPool(id)
      BY <1>1, <1>2, <1>4, <1>5, <2>1 DEF InPool
    <2>2. ASSUME InPool(id) PROVE InPool(id)'
      BY <1>1, <1>2, <1>4, <1>5, <2>2 DEF InPool
    <2> QED  BY <2>1, <2>2
  <1> QED  BY <1>3, <1>6, <1>7

\* A pool that was just started has no key in it, and some goroutine unless
\* there is none to start.
LEMMA LaunchStarts ==
    ASSUME NEW J, NEW R, NEW n \in Nat, n > 0, Launch(n),
           jobs' = <<>>, results' = <<>>, open' \in BOOLEAN, done' \in BOOLEAN
    PROVE  /\ PoolHolds(J, R)' /\ EachKeyOnce'
           /\ \A id : ~ InPool(id)'
           /\ Workers # {} => \E w \in Workers : worker'[w] # Gone
  <1>1. PICK W \in SUBSET Workers :
          /\ Cardinality(W) = IF Cardinality(Workers) > n THEN n ELSE Cardinality(Workers)
          /\ worker' = [w \in Workers |-> IF w \in W THEN Waiting ELSE Gone]
    BY DEF Launch
  <1>2. \A w \in Workers : worker'[w] \in {Gone, Waiting} /\ ~ Busy(w)'
    BY <1>1 DEF Busy, Gone, Waiting
  <1>3. Workers # {} => \E w \in Workers : worker'[w] # Gone
    <2> SUFFICES ASSUME Workers # {} PROVE W # {}
      BY <1>1 DEF Gone, Waiting
    <2>1. Cardinality(Workers) \in Nat /\ Cardinality(Workers) # 0
      BY WorkersAssumption, FS_CardinalityType, FS_EmptySet
    <2>2. Cardinality(W) # 0
      BY <1>1, <2>1
    <2> QED  BY <2>2, FS_EmptySet
  <1>4. PoolHolds(J, R)'
    <2>1. worker' \in [Workers -> {Gone, Waiting} \cup [at : {"check", "work"}, job : J]]
      BY <1>1
    <2> QED  BY <2>1, EmptySeq DEF PoolHolds
  <1>5. EachKeyOnce' /\ \A id : ~ InPool(id)'
    BY <1>2 DEF EachKeyOnce, InPool
  <1> QED  BY <1>3, <1>4, <1>5

\* The caller queues a job for a key that is not in the pool.
LEMMA QueueKeeps ==
    ASSUME NEW J, NEW R, PoolHolds(J, R), EachKeyOnce,
           NEW j \in J, ~ InPool(j.slabID),
           jobs' = Append(jobs, j), open' \in BOOLEAN,
           UNCHANGED <<results, done, worker>>
    PROVE  /\ PoolHolds(J, R)' /\ EachKeyOnce'
           /\ \A id : InPool(id)' <=> InPool(id) \/ id = j.slabID
  <1> DEFINE n == Len(jobs) + 1
             k == j.slabID
  <1>1. /\ jobs' \in Seq(J) /\ n \in Nat
        /\ Len(jobs) \in Nat /\ DOMAIN jobs = 1..Len(jobs) /\ DOMAIN jobs' = 1..n
        /\ \A i \in DOMAIN jobs : jobs'[i] = jobs[i]
        /\ jobs'[n] = j
    BY ChannelAppend DEF PoolHolds
  <1>2. /\ n \in DOMAIN jobs' /\ n \notin DOMAIN jobs
        /\ \A i \in DOMAIN jobs' : i = n \/ i \in DOMAIN jobs
        /\ \A i \in DOMAIN jobs : i \in DOMAIN jobs'
    BY <1>1
  <1> HIDE DEF n
  <1>3. PoolHolds(J, R)'
    BY <1>1 DEF PoolHolds
  <1>4. \A w \in Workers : Busy(w)' <=> Busy(w)
    BY DEF Busy
  <1>5. EachKeyOnce'
    <2>1. \A i \in DOMAIN jobs : jobs[i].slabID # k
      BY DEF InPool
    <2>2. \A i \in DOMAIN results : results[i].slabID # k
      BY DEF InPool
    <2>3. \A w \in Workers : Busy(w) => worker[w].job.slabID # k
      BY DEF InPool
    <2>4. \A i, m \in DOMAIN jobs' : jobs'[i].slabID = jobs'[m].slabID => i = m
      BY <1>1, <1>2, <2>1 DEF EachKeyOnce
    <2>5. \A i \in DOMAIN jobs', m \in DOMAIN results : jobs'[i].slabID # results[m].slabID
      BY <1>1, <1>2, <2>2 DEF EachKeyOnce
    <2>6. \A w \in Workers : Busy(w) =>
            \A i \in DOMAIN jobs' : jobs'[i].slabID # worker[w].job.slabID
      BY <1>1, <1>2, <2>3 DEF EachKeyOnce
    <2> QED  BY <1>4, <2>4, <2>5, <2>6 DEF EachKeyOnce
  <1>6. ASSUME NEW id PROVE InPool(id)' <=> InPool(id) \/ id = k
    BY <1>1, <1>2, <1>4 DEF InPool
  <1> QED  BY <1>3, <1>5, <1>6

\* The caller takes a result, and with it one key, out of the pool.
LEMMA CollectedKeeps ==
    ASSUME NEW J, NEW R, PoolHolds(J, R), EachKeyOnce,
           Collected, UNCHANGED <<jobs, open, worker>>, done' \in BOOLEAN
    PROVE  /\ Head(results) \in R
           /\ InPool(Head(results).slabID)
           /\ PoolHolds(J, R)' /\ EachKeyOnce'
           /\ \A id : InPool(id)' <=> InPool(id) /\ id # Head(results).slabID
  <1>1. /\ results # <<>> /\ results' = Tail(results) /\ results \in Seq(R)
    BY DEF Collected, PoolHolds
  <1>2. /\ Head(results) = results[1] /\ Head(results) \in R
        /\ results' \in Seq(R) /\ 1 \in DOMAIN results
        /\ DOMAIN results' = 1..(Len(results) - 1) /\ DOMAIN results = 1..Len(results)
        /\ Len(results) \in Nat /\ Len(results) > 0
        /\ \A i \in DOMAIN results' :
              i + 1 \in DOMAIN results /\ results'[i] = results[i + 1]
    BY <1>1, ChannelParts
  <1>3. PoolHolds(J, R)'
    BY <1>2 DEF PoolHolds
  <1>4. \A w \in Workers : Busy(w)' <=> Busy(w)
    BY DEF Busy
  <1>5. EachKeyOnce'
    BY <1>2, <1>4 DEF EachKeyOnce
  <1>6. ASSUME NEW id, InPool(id)' PROVE InPool(id) /\ id # Head(results).slabID
    <2>1. CASE \E i \in DOMAIN results' : results'[i].slabID = id
      <3>1. PICK i \in DOMAIN results' : results'[i].slabID = id
        BY <2>1
      <3>2. i + 1 \in DOMAIN results /\ results[i + 1].slabID = id /\ i + 1 # 1
        BY <1>2, <3>1
      <3> QED  BY <1>2, <3>2 DEF InPool, EachKeyOnce
    <2>2. CASE ~ \E i \in DOMAIN results' : results'[i].slabID = id
      BY <1>2, <1>4, <1>6, <2>2 DEF InPool, EachKeyOnce
    <2> QED  BY <2>1, <2>2
  <1>7. ASSUME NEW id, InPool(id), id # Head(results).slabID PROVE InPool(id)'
    <2>1. ASSUME NEW i \in DOMAIN results, results[i].slabID = id PROVE InPool(id)'
      <3>1. i - 1 \in DOMAIN results' /\ results'[i - 1] = results[i]
        BY <1>2, <1>7, <2>1
      <3> QED  BY <2>1, <3>1 DEF InPool
    <2> QED  BY <1>4, <1>7, <2>1 DEF InPool
  <1> QED  BY <1>2, <1>3, <1>5, <1>6, <1>7 DEF InPool

-----------------------------------------------------------------------------
(* Facts about states of the pool.                                         *)

\* A pool with no key in it is empty.
LEMMA NoKeysNoWork ==
    ASSUME NEW J, NEW R, PoolHolds(J, R), \A id : ~ InPool(id)
    PROVE  jobs = <<>> /\ results = <<>> /\ \A w \in Workers : ~ Busy(w)
  <1>1. jobs = <<>>
    <2> SUFFICES ASSUME jobs # <<>> PROVE FALSE
      OBVIOUS
    <2>1. 1 \in DOMAIN jobs
      BY ChannelParts DEF PoolHolds
    <2> QED  BY <2>1 DEF InPool
  <1>2. results = <<>>
    <2> SUFFICES ASSUME results # <<>> PROVE FALSE
      OBVIOUS
    <2>1. 1 \in DOMAIN results
      BY ChannelParts DEF PoolHolds
    <2> QED  BY <2>1 DEF InPool
  <1> QED  BY <1>1, <1>2 DEF InPool

\* What the pool holds are jobs and answers for the keys in it.
LEMMA PoolNarrows ==
    ASSUME NEW J, NEW R, NEW K, NEW Q, PoolHolds(J, R),
           \A j \in J : InPool(j.slabID) => j \in K,
           \A r \in R : InPool(r.slabID) => r \in Q
    PROVE  PoolHolds(K, Q)
  <1>1. jobs \in Seq(K)
    <2>1. jobs \in [1..Len(jobs) -> J] /\ Len(jobs) \in Nat /\ DOMAIN jobs = 1..Len(jobs)
      BY LenProperties DEF PoolHolds
    <2>2. \A i \in 1..Len(jobs) : jobs[i] \in K
      BY <2>1 DEF InPool
    <2> QED  BY <2>1, <2>2, SeqDef
  <1>2. results \in Seq(Q)
    <2>1. results \in [1..Len(results) -> R] /\ Len(results) \in Nat
          /\ DOMAIN results = 1..Len(results)
      BY LenProperties DEF PoolHolds
    <2>2. \A i \in 1..Len(results) : results[i] \in Q
      BY <2>1 DEF InPool
    <2> QED  BY <2>1, <2>2, SeqDef
  <1>3. ASSUME NEW w \in Workers
        PROVE  worker[w] \in {Gone, Waiting} \cup [at : {"check", "work"}, job : K]
    <2>1. CASE worker[w] \in {Gone, Waiting}
      BY <2>1
    <2>2. CASE worker[w] \in [at : {"check", "work"}, job : J]
      <3>1. InPool(worker[w].job.slabID) /\ worker[w].job \in J
        BY <2>2 DEF InPool, Busy
      <3> QED  BY <2>2, <3>1
    <2> QED  BY <2>1, <2>2 DEF PoolHolds
  <1> QED  BY <1>1, <1>2, <1>3 DEF PoolHolds

\* The same as one formula, so that it can be used of the next state.
Narrowing ==
    \A J, R, K, Q :
        (/\ PoolHolds(J, R)
         /\ \A j \in J : InPool(j.slabID) => j \in K
         /\ \A r \in R : InPool(r.slabID) => r \in Q) => PoolHolds(K, Q)

\* It holds in every state.
LEMMA NarrowingHolds == Narrowing
  BY PoolNarrows DEF Narrowing

\* What the pool holds after a step are jobs and answers for the keys in it.
LEMMA PoolNarrowsTo ==
    ASSUME NEW J, NEW R, NEW K, NEW Q, PoolHolds(J, R)',
           \A j \in J : InPool(j.slabID)' => j \in K,
           \A r \in R : InPool(r.slabID)' => r \in Q
    PROVE  PoolHolds(K, Q)'
  <1>1. Narrowing'
    BY NarrowingHolds, PTL
  <1> QED  BY <1>1 DEF Narrowing

\* With one place per key in the results channel no worker blocks on it.
LEMMA ResultsFit ==
    ASSUME NEW J, NEW R, PoolHolds(J, R), EachKeyOnce,
           NEW S, IsFiniteSet(S), \A id : InPool(id) => id \in S
    PROVE  Len(results) + Cardinality({w \in Workers : worker[w].at = "work"})
             <= Cardinality(S)
  <1> DEFINE n == Len(results)
             W == {w \in Workers : worker[w].at = "work"}
             A == {results[i].slabID : i \in 1..n}
             B == {worker[w].job.slabID : w \in W}
             f == [i \in 1..n |-> results[i].slabID]
             g == [w \in W |-> worker[w].job.slabID]
  <1>1. n \in Nat /\ DOMAIN results = 1..n
    BY LenProperties DEF PoolHolds
  <1>2. \A w \in W : w \in Workers /\ Busy(w)
    BY DEF Busy
  <1>3. A \subseteq S /\ B \subseteq S
    BY <1>1, <1>2 DEF InPool
  <1>4. A \cap B = {}
    BY <1>1, <1>2 DEF EachKeyOnce
  <1>5. IsFiniteSet(A) /\ Cardinality(A) = n
    <2>1. f \in Bijection(1..n, A)
      BY <1>1 DEF Bijection, Injection, IsInjective, Surjection, EachKeyOnce
    <2>2. ExistsBijection(1..n, A)
      BY <2>1 DEF ExistsBijection
    <2> HIDE DEF n, A, f
    <2>3. IsFiniteSet(1..n)
      BY <1>1, FS_Interval, 1 \in Int, n \in Int
    <2> QED  BY <1>1, <2>2, <2>3, FS_Bijection, FS_CountingElements
  <1>6. IsFiniteSet(W) /\ Cardinality(W) \in Nat
    BY WorkersAssumption, FS_Subset, FS_CardinalityType
  <1>7. IsFiniteSet(B) /\ Cardinality(B) = Cardinality(W)
    <2>1. g \in Bijection(W, B)
      BY <1>2 DEF Bijection, Injection, IsInjective, Surjection, EachKeyOnce
    <2>2. ExistsBijection(W, B)
      BY <2>1 DEF ExistsBijection
    <2> HIDE DEF W, B
    <2> QED  BY <1>6, <2>2, FS_Bijection
  <1> HIDE DEF n, A, B, W
  <1>8. Cardinality(A \cup B) = n + Cardinality(W)
    <2>1. Cardinality(A \cup B)
            = Cardinality(A) + Cardinality(B) - Cardinality(A \cap B)
      BY <1>5, <1>7, FS_Union
    <2>2. Cardinality(A \cap B) = 0
      BY <1>4, FS_EmptySet
    <2> QED  BY <1>1, <1>5, <1>6, <1>7, <2>1, <2>2
  <1>9. Cardinality(A \cup B) <= Cardinality(S)
    BY <1>3, FS_Subset
  <1> QED  BY <1>8, <1>9 DEF n, W

\* With one place per key in the job queue the caller does not block on it.
LEMMA JobsFit ==
    ASSUME NEW J, NEW R, PoolHolds(J, R), EachKeyOnce,
           NEW S, IsFiniteSet(S), \A id : InPool(id) => id \in S
    PROVE  Len(jobs) \in Nat /\ Len(jobs) <= Cardinality(S)
  <1> DEFINE n == Len(jobs)
             A == {jobs[i].slabID : i \in 1..n}
             f == [i \in 1..n |-> jobs[i].slabID]
  <1>1. n \in Nat /\ DOMAIN jobs = 1..n
    BY LenProperties DEF PoolHolds
  <1>2. A \subseteq S
    BY <1>1 DEF InPool
  <1>3. IsFiniteSet(A) /\ Cardinality(A) = n
    <2>1. f \in Bijection(1..n, A)
      BY <1>1 DEF Bijection, Injection, IsInjective, Surjection, EachKeyOnce
    <2>2. ExistsBijection(1..n, A)
      BY <2>1 DEF ExistsBijection
    <2> HIDE DEF n, A, f
    <2>3. IsFiniteSet(1..n)
      BY <1>1, FS_Interval, 1 \in Int, n \in Int
    <2> QED  BY <1>1, <2>2, <2>3, FS_Bijection, FS_CountingElements
  <1> HIDE DEF A
  <1>4. Cardinality(A) <= Cardinality(S)
    BY <1>2, FS_Subset
  <1> QED  BY <1>1, <1>3, <1>4

=============================================================================
