--------------------------- MODULE ArrayIterators ---------------------------
(***************************************************************************)
(* The read-only iterators of an array (array_iterator.go), run to their   *)
(* end.  They bypass Get: the range iterator follows the links between     *)
(* data slabs, and the loaded value iterator walks the tree with a stack   *)
(* of its own and leaves out what is not in memory.  The mutable iterator  *)
(* calls Get for one index after the other (ReadsContents).                *)
(***************************************************************************)
EXTENDS ArrayTree

RECURSIVE firstArrayDataSlab(_)
firstArrayDataSlab(id) ==
    IF IsData(slabs[id]) THEN id ELSE firstArrayDataSlab(Head(slabs[id].children).id)

RECURSIVE getArrayDataSlabWithIndex(_, _)

\* A bug: the index is not made relative to the child.
ArrayDataSlabWithRootIndex(id, index) ==
    LET slab == slabs[id]
        k    == ChildIndex(slab, index)
    IN IF IsData(slab) THEN [slab |-> id, index |-> index]
       ELSE [slab  |-> getArrayDataSlabWithIndex(slab.children[k].id,
                                                 AdjustedIndex(slab, k, index)).slab,
             index |-> index]

\* The data slab with the element at an index, and the index in that slab.
getArrayDataSlabWithIndex(id, index) ==
    LET slab == slabs[id]
        k    == ChildIndex(slab, index)
    IN IF IsData(slab) THEN [slab |-> id, index |-> index]
       ELSE getArrayDataSlabWithIndex(slab.children[k].id, AdjustedIndex(slab, k, index))

\* What readOnlyArrayIterator.Next returns until it returns nil.
RECURSIVE ReadOnlyValues(_, _)
ReadOnlyValues(at, remainingCount) ==
    LET slab == slabs[at.slab] IN
      IF remainingCount = 0 THEN <<>>
      ELSE IF at.index < Len(slab.elements)
        THEN <<slab.elements[at.index + 1]>>
               \o ReadOnlyValues([at EXCEPT !.index = @ + 1], remainingCount - 1)
      ELSE IF slab.next = Undefined THEN <<>>
      ELSE ReadOnlyValues([slab |-> slab.next, index |-> 0], remainingCount)

ReadOnlyRangeIterator(startIndex, endIndex) ==
    IF endIndex = startIndex THEN <<>>
    ELSE ReadOnlyValues(
           IF IsData(slabs[root]) THEN [slab |-> root, index |-> startIndex]
           ELSE IF startIndex = 0 THEN [slab |-> firstArrayDataSlab(root), index |-> 0]
           ELSE getArrayDataSlabWithIndex(root, startIndex),
           endIndex - startIndex)

-----------------------------------------------------------------------------
(* ArrayLoadedValueIterator, with a stack of metadata slabs and positions. *)

\* A bug: a child that is not in memory ends the slab.
LoadedChildrenInRow(parent, unloaded) ==
    {k \in {parent.index + 1} \cap DOMAIN slabs[parent.slab].children :
        slabs[parent.slab].children[k].id \notin unloaded}

\* Positions of the children that arrayLoadedSlabIterator.next can return.
LoadedChildren(parent, unloaded) ==
    {k \in DOMAIN slabs[parent.slab].children :
        k > parent.index /\ slabs[parent.slab].children[k].id \notin unloaded}

RECURSIVE LoadedValues(_, _)

NextLoadedChild(parents, unloaded, k) ==
    LET top   == Last(parents)
        child == slabs[top.slab].children[k].id
        rest  == Append(Front(parents), [top EXCEPT !.index = k])
    IN IF IsData(slabs[child]) THEN slabs[child].elements \o LoadedValues(rest, unloaded)
       ELSE LoadedValues(Append(rest, [slab |-> child, index |-> 0]), unloaded)

LoadedValues(parents, unloaded) ==
    IF parents = <<>> THEN <<>>
    ELSE IF LoadedChildren(Last(parents), unloaded) = {}
      THEN LoadedValues(Front(parents), unloaded)
      ELSE NextLoadedChild(parents, unloaded, Min(LoadedChildren(Last(parents), unloaded)))

\* What it returns while the slabs "unloaded" are not in memory.
ReadOnlyLoadedValueIterator(unloaded) ==
    IF IsData(slabs[root]) THEN slabs[root].elements
    ELSE LoadedValues(<<[slab |-> root, index |-> 0]>>, unloaded)

-----------------------------------------------------------------------------
\* A read-only iterator over any range returns that part of the contents: it
\* starts inside a data slab found through the counts in metadata slabs, and
\* goes on along the next links, which every split and merge rewrites.
RangesReadContents ==
    \A startIndex \in 0..Len(contents) : \A endIndex \in startIndex..Len(contents) :
        ReadOnlyRangeIterator(startIndex, endIndex) = SubSeq(contents, startIndex + 1, endIndex)

\* Whatever slab below the root is not in memory, the loaded value iterator
\* returns, in order, all elements that are not below it.
LoadedValuesAreAllLoaded ==
    LET leaves == DataSlabIDs(root) IN
      \A id \in Range(SlabIDs(root)) \ {root} :
         ReadOnlyLoadedValueIterator({id}) =
            FlattenSeq([i \in DOMAIN leaves |->
                IF leaves[i] \in Range(DataSlabIDs(id)) THEN <<>>
                ELSE slabs[leaves[i]].elements])
=============================================================================
