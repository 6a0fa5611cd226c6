------------------------------ MODULE ArrayTree -----------------------------
(***************************************************************************)
(* Array (array.go): a B+ tree of slabs in the slab storage.  Metadata     *)
(* slabs keep a copy of the header of every child and cumulative element   *)
(* counts, data slabs keep elements and the ID of the next data slab.  An  *)
(* operation goes down to one data slab, and on the way back every slab    *)
(* splits, merges or rebalances a child whose size left the limits.        *)
(***************************************************************************)
EXTENDS ArraySlabs

CONSTANTS MaxCount,     \* bound on the elements of the array
          ElementSizes  \* sizes of elements

ASSUME TreeAssumption == ElementSizes \subseteq 1..MaxInlineElementSize

VARIABLES slabs,    \* ID -> slab object or Absent
          root,     \* ID of the root slab
          unsaved,  \* slabs changed in memory and not handed to the storage
          contents  \* history: the sequence that the calls add up to

vars == <<slabs, root, unsaved, contents>>

-----------------------------------------------------------------------------
(* Headers, which a metadata slab keeps of its children.                   *)

Header(st, id) ==
    [id |-> id, count |-> st.slabs[id].count, size |-> st.slabs[id].size]

Headers(st, ids) ==
    LET heads[i \in 0..Len(ids)] ==
          IF i = 0 THEN <<>> ELSE Append(heads[i-1], Header(st, ids[i]))
    IN heads[Len(ids)]

-----------------------------------------------------------------------------
(* ArrayMetaDataSlab: keeping children within the limits.                  *)

SplitChildSlab(st, id, k) ==
    LET meta  == st.slabs[id]
        left  == meta.children[k].id
        right == GenerateSlabID(st)
        parts == Split(st.slabs[left], right)
        st1   == Put(Put(st, left, parts.left), right, parts.right)
    IN storeSlab(
         Put(st1, id, ChildSplit(meta, k, Header(st1, left), Header(st1, right))),
         {left, right, id})

\* Children k and k+1 become the two parts.
RebalanceChildren(st, id, k, parts) ==
    LET meta  == st.slabs[id]
        left  == meta.children[k].id
        right == meta.children[k+1].id
        st1   == Put(Put(st, left, parts.left), right, parts.right)
    IN storeSlab(
         Put(st1, id, ChildrenRebalanced(meta, k, st.slabs[left].count,
                                         Header(st1, left), Header(st1, right))),
         {left, right, id})

\* Child k+1 is merged into child k.
MergeChildren(st, id, k) ==
    LET meta  == st.slabs[id]
        left  == meta.children[k].id
        right == meta.children[k+1].id
        st1   == Put(st, left, Merge(st.slabs[left], st.slabs[right]))
        st2   == Put(st1, id, ChildrenMerged(meta, k, Header(st1, left)))
    IN RemoveSlab(storeSlab(st2, {left, id}), right)

MergeOrRebalanceChildSlab(st, id, k) ==
    LET children     == st.slabs[id].children
        Sibling(i)   == st.slabs[children[i].id]
        need         == MinThreshold - Sibling(k).size
        hasLeft      == k > 1
        hasRight     == k < Len(children)
        leftCanLend  == hasLeft /\ CanLendToRight(Sibling(k-1), need)
        rightCanLend == hasRight /\ CanLendToLeft(Sibling(k+1), need)
    IN CASE leftCanLend /\ (rightCanLend => Sibling(k-1).size > Sibling(k+1).size)
              -> RebalanceChildren(st, id, k-1, LendToRight(Sibling(k-1), Sibling(k)))
         [] rightCanLend /\ (leftCanLend => Sibling(k-1).size <= Sibling(k+1).size)
              -> RebalanceChildren(st, id, k, BorrowFromRight(Sibling(k), Sibling(k+1)))
         [] ~ leftCanLend /\ ~ rightCanLend ->
              IF hasLeft /\ (hasRight => Sibling(k-1).size < Sibling(k+1).size)
                THEN MergeChildren(st, id, k-1)
                ELSE MergeChildren(st, id, k)

-----------------------------------------------------------------------------
(* ArraySlab: Get, Set, Insert, Remove, PopIterate.                        *)

RECURSIVE SlabGet(_, _, _)
SlabGet(st, id, index) ==
    LET slab == st.slabs[id]
        k    == ChildIndex(slab, index)
    IN IF IsData(slab) THEN slab.elements[index + 1]
       ELSE SlabGet(st, slab.children[k].id, AdjustedIndex(slab, k, index))

\* What a metadata slab notes about child k once the child has changed;
\* "added" is the change of the child's count.
NoteChild(st, id, k, added) ==
    LET meta == st.slabs[id]
    IN Put(st, id, ChildChanged(meta, k, Header(st, meta.children[k].id), added))

RECURSIVE SlabSet(_, _, _, _)
SlabSet(st, id, index, e) ==
    LET slab  == st.slabs[id]
        k     == ChildIndex(slab, index)
        child == slab.children[k].id
        st1   == NoteChild(SlabSet(st, child, AdjustedIndex(slab, k, index), e), id, k, 0)
    IN IF IsData(slab) THEN storeSlab(Put(st, id, DataSet(slab, index, e)), {id})
       ELSE IF IsFull(st1.slabs[child]) THEN SplitChildSlab(st1, id, k)
       ELSE IF IsUnderflow(st1.slabs[child]) THEN MergeOrRebalanceChildSlab(st1, id, k)
       ELSE storeSlab(st1, {id})

RECURSIVE SlabInsert(_, _, _, _)
SlabInsert(st, id, index, e) ==
    LET slab     == st.slabs[id]
        append   == index = slab.count
        k        == IF append THEN Len(slab.children) ELSE ChildIndex(slab, index)
        adjusted == IF append THEN slab.children[k].count ELSE AdjustedIndex(slab, k, index)
        child    == slab.children[k].id
        st1      == NoteChild(SlabInsert(st, child, adjusted, e), id, k, 1)
    IN IF IsData(slab) THEN storeSlab(Put(st, id, DataInsert(slab, index, e)), {id})
       ELSE IF IsFull(st1.slabs[child]) THEN SplitChildSlab(st1, id, k)
       ELSE storeSlab(st1, {id})

RECURSIVE SlabRemove(_, _, _)
SlabRemove(st, id, index) ==
    LET slab  == st.slabs[id]
        k     == ChildIndex(slab, index)
        child == slab.children[k].id
        st1   == NoteChild(SlabRemove(st, child, AdjustedIndex(slab, k, index)), id, k, -1)
        st2   == IF IsUnderflow(st1.slabs[child])
                   THEN MergeOrRebalanceChildSlab(st1, id, k) ELSE st1
    IN IF IsData(slab) THEN storeSlab(Put(st, id, DataRemove(slab, index)), {id})
       ELSE storeSlab(st2, {id})

\* The slabs below a slab, last child first, are emptied and removed.
RECURSIVE SlabPopIterate(_, _)
SlabPopIterate(st, id) ==
    LET slab == st.slabs[id]
        PopChild(s, k) == LET child == slab.children[k].id
                          IN RemoveSlab(SlabPopIterate(s, child), child)
        loop[k \in 0..Len(slab.children)] ==
            IF k = 0 THEN st ELSE PopChild(loop[k-1], Len(slab.children) - k + 1)
    IN IF IsData(slab)
         THEN Put(st, id, [slab EXCEPT !.elements = <<>>, !.count = 0,
                                       !.size = PrefixSize(slab)])
         ELSE Put(loop[Len(slab.children)], id, [slab EXCEPT !.children = <<>>,
                     !.countSum = <<>>, !.count = 0, !.size = MetaPrefixSize])

-----------------------------------------------------------------------------
(* Array: the root.                                                        *)

\* The old root gets a new ID and is split; a new root takes its ID over.
splitRoot(st, id) ==
    LET old   == st.slabs[id]
        left  == GenerateSlabID(st)
        moved == [old EXCEPT !.extra = FALSE,
                             !.size = IF IsData(old)
                                        THEN @ - RootDataPrefixSize + DataPrefixSize ELSE @]
        st1   == Put(st, left, moved)
        right == GenerateSlabID(st1)
        parts == Split(moved, right)
        st2   == Put(Put(st1, left, parts.left), right, parts.right)
        new   == MetaSlab(<<Header(st2, left), Header(st2, right)>>,
                          parts.left.count + parts.right.count,
                          MetaPrefixSize + 2 * HeaderSize)
    IN storeSlab(Put(st2, id, [new EXCEPT !.extra = old.extra]), {left, right, id})

\* An only child takes the root's place and ID.
promoteChildAsNewRoot(st, id) ==
    LET childID == st.slabs[id].children[1].id
        child   == st.slabs[childID]
        new     == [child EXCEPT !.extra = st.slabs[id].extra,
                                 !.size = IF IsData(child)
                                            THEN @ - DataPrefixSize + RootDataPrefixSize ELSE @]
    IN RemoveSlab(storeSlab(Put(st, id, new), {id}), childID)

SplitRootIfFull(st, id) == IF IsFull(st.slabs[id]) THEN splitRoot(st, id) ELSE st

PromoteIfOnlyChild(st, id) ==
    IF ~ IsData(st.slabs[id]) /\ Len(st.slabs[id].children) = 1
      THEN promoteChildAsNewRoot(st, id) ELSE st

-----------------------------------------------------------------------------
(* NewArrayFromBatchData: a tree is built level by level from a list of    *)
(* elements.                                                               *)

EmptyStore == [slabs |-> NoSlabs, stored |-> {}]

RECURSIVE BatchAppend(_, _, _)

\* A data slab is closed when it has reached the target size.
BatchAppend(st, ids, elements) ==
    LET cur  == Last(ids)
        slab == st.slabs[cur]
        next == GenerateSlabID(st)
        st1  == Put(Put(st, cur, [slab EXCEPT !.next = next]),
                    next, DataSlab(<<>>, DataPrefixSize, Undefined))
    IN IF elements = <<>> THEN [st |-> st, ids |-> ids]
       ELSE IF slab.size >= TargetThreshold
         THEN BatchAppend(st1, Append(ids, next), elements)
         ELSE BatchAppend(Put(st, cur, DataInsert(slab, slab.count, Head(elements))),
                          ids, Tail(elements))

\* nextLevelArraySlabs.
RECURSIVE nextLevelArraySlabs(_, _, _)
nextLevelArraySlabs(st, ids, metas) ==
    LET maxHeaders == (MaxThreshold - MetaPrefixSize) \div HeaderSize
        n     == IF Len(ids) > maxHeaders THEN maxHeaders ELSE Len(ids)
        heads == Headers(st, SubSeq(ids, 1, n))
        id    == GenerateSlabID(st)
    IN IF ids = <<>> THEN [st |-> st, ids |-> metas]
       ELSE nextLevelArraySlabs(
              Put(st, id, MetaSlab(heads, ChildCount(heads), MetaPrefixSize + n * HeaderSize)),
              SubSeq(ids, n + 1, Len(ids)), Append(metas, id))

\* The last slab of a level may be too small.
RebalanceLast(level) ==
    LET st    == level.st
        right == Last(level.ids)
        left  == level.ids[Len(level.ids) - 1]
        parts == LendToRight(st.slabs[left], st.slabs[right])
    IN IF ~ IsUnderflow(st.slabs[right]) THEN level
       ELSE IF CanLendToRight(st.slabs[left], MinThreshold - st.slabs[right].size)
         THEN [level EXCEPT !.st = Put(Put(st, left, parts.left), right, parts.right)]
         ELSE [st  |-> Put(Put(st, left, Merge(st.slabs[left], st.slabs[right])), right, Absent),
               ids |-> Front(level.ids)]

RECURSIVE BuildLevels(_)

\* A bug: the last slab of a level is not stored.
BuildLevelsUnsaved(level) ==
    LET last == RebalanceLast(level)
        st   == storeSlab(last.st, Range(Front(last.ids)))
    IN IF Len(level.ids) = 1 THEN level
       ELSE IF Len(last.ids) = 1 THEN last
       ELSE BuildLevels(nextLevelArraySlabs(st, last.ids, <<>>))

BuildLevels(level) ==
    LET last == RebalanceLast(level)
        st   == storeSlab(last.st, Range(last.ids))
    IN IF Len(level.ids) = 1 THEN level
       ELSE IF Len(last.ids) = 1 THEN last
       ELSE BuildLevels(nextLevelArraySlabs(st, last.ids, <<>>))

NewArrayFromBatchData(elements) ==
    LET first == GenerateSlabID(EmptyStore)
        st0   == Put(EmptyStore, first, DataSlab(<<>>, DataPrefixSize, Undefined))
        top   == BuildLevels(BatchAppend(st0, <<first>>, elements))
        id    == Head(top.ids)
        slab  == top.st.slabs[id]
        new   == [slab EXCEPT !.extra = TRUE,
                              !.size = IF IsData(slab)
                                         THEN @ - DataPrefixSize + RootDataPrefixSize ELSE @]
    IN [st |-> storeSlab(Put(top.st, id, new), {id}), root |-> id]

-----------------------------------------------------------------------------
(* The operations of an array as steps.                                    *)

\* The storage has seen what it was given; another slab that differs from
\* before has changed behind its back.
Apply(st) ==
    /\ slabs' = st.slabs
    /\ unsaved' = (unsaved \cup {id \in ID : st.slabs[id] # slabs[id]}) \ st.stored
    /\ UNCHANGED root

Memory == [slabs |-> slabs, stored |-> {}]

ArrayInsert(index, e) ==
    /\ Len(contents) < MaxCount
    /\ index <= slabs[root].count
    /\ Apply(SplitRootIfFull(SlabInsert(Memory, root, index, e), root))
    /\ contents' = InsertAt(contents, index + 1, e)

ArraySet(index, e) ==
    /\ index < slabs[root].count
    /\ Apply(PromoteIfOnlyChild(
               SplitRootIfFull(SlabSet(Memory, root, index, e), root), root))
    /\ contents' = ReplaceAt(contents, index + 1, e)

ArrayRemove(index) ==
    /\ index < slabs[root].count
    /\ Apply(PromoteIfOnlyChild(SlabRemove(Memory, root, index), root))
    /\ contents' = RemoveAt(contents, index + 1)

ArrayPopIterate ==
    /\ Apply(storeSlab(
               Put(SlabPopIterate(Memory, root), root,
                   [DataSlab(<<>>, RootDataPrefixSize, Undefined) EXCEPT
                      !.extra = slabs[root].extra]),
               {root}))
    /\ contents' = <<>>

\* NewArray, and NewArrayFromBatchData of any list in a set.
Init ==
    /\ root = 1
    /\ slabs = [id \in ID |-> IF id = 1
                  THEN [DataSlab(<<>>, RootDataPrefixSize, Undefined) EXCEPT !.extra = TRUE]
                  ELSE Absent]
    /\ unsaved = {}
    /\ contents = <<>>

InitFromBatch(lists) ==
    \E list \in lists :
        LET array == NewArrayFromBatchData(list) IN
          /\ root = array.root
          /\ slabs = array.st.slabs
          /\ unsaved = {id \in ID : slabs[id] # Absent} \ array.st.stored
          /\ contents = list

Next ==
    \/ \E index \in 0..MaxCount, e \in ElementSizes : ArrayInsert(index, e)
    \/ \E index \in 0..MaxCount, e \in ElementSizes : ArraySet(index, e)
    \/ \E index \in 0..MaxCount : ArrayRemove(index)
    \/ ArrayPopIterate

Spec == Init /\ [][Next]_vars

-----------------------------------------------------------------------------
(* VerifyArray (array_verify.go).                                          *)

\* The data slabs from left to right, and all slabs that can be reached.
RECURSIVE DataSlabIDs(_)
DataSlabIDs(id) ==
    IF IsData(slabs[id]) THEN <<id>>
    ELSE FlattenSeq([k \in DOMAIN slabs[id].children |-> DataSlabIDs(slabs[id].children[k].id)])

RECURSIVE SlabIDs(_)
SlabIDs(id) ==
    IF IsData(slabs[id]) THEN <<id>>
    ELSE <<id>> \o FlattenSeq([k \in DOMAIN slabs[id].children |-> SlabIDs(slabs[id].children[k].id)])

RECURSIVE verifySlab(_, _)
verifySlab(id, header) ==
    LET slab == slabs[id] IN
      /\ slab # Absent
      /\ header = Header(Memory, id)
      /\ slab.extra <=> id = root
      /\ id # root => ~ IsUnderflow(slab)
      /\ ~ IsFull(slab)
      /\ IF IsData(slab) THEN verifyDataSlab(slab)
         ELSE /\ verifyMetaDataSlab(slab)
              /\ id = root => Len(slab.children) >= 2
              /\ \A k \in DOMAIN slab.children :
                    verifySlab(slab.children[k].id, slab.children[k])

VerifyArray ==
    /\ verifySlab(root, Header(Memory, root))
    /\ IsInjective(SlabIDs(root))
    /\ LET leaves == DataSlabIDs(root) IN
         \A i \in DOMAIN leaves :
             slabs[leaves[i]].next = IF i = Len(leaves) THEN Undefined ELSE leaves[i+1]

-----------------------------------------------------------------------------
(* Properties.                                                             *)

\* After every operation the tree passes VerifyArray: no slab but the root is
\* too small and none too big, headers in parents, cumulative counts, sizes
\* and next links are those of the slabs, although each is adjusted in place
\* by splits, merges and rebalances (array_metadata_slab.go).
ArrayIsValid == VerifyArray

\* The array reads as the sequence its operations add up to, by index through
\* childrenCountSum (Get) and in order through the data slabs (iterators).
ReadsContents ==
    /\ FlattenSeq([i \in DOMAIN DataSlabIDs(root) |-> slabs[DataSlabIDs(root)[i]].elements])
         = contents
    /\ \A index \in 0..(Len(contents) - 1) : SlabGet(Memory, root, index) = contents[index + 1]

\* A slab that an operation changed was handed to the storage, so a commit
\* saves it, and a slab that left the tree was removed: none is lost, none
\* stays behind (storage_health_check.go counts the latter).  A new process
\* decodes the very slabs that are in memory: no count, size or cumulative
\* count that was kept by increments differs from the one worked out anew.
NothingUnsavedOrOrphaned ==
    /\ unsaved = {}
    /\ {id \in ID : slabs[id] # Absent} = Range(SlabIDs(root))
    /\ \A id \in Range(SlabIDs(root)) : DecodeSlab(EncodeSlab(slabs[id])) = slabs[id]
=============================================================================
