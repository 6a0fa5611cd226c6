---------------------------- MODULE MapIterators ----------------------------
(***************************************************************************)
(* The iterators of a map (map_iterator.go), run to their end.  The        *)
(* mutable iterator looks every key up anew to find the next one; the      *)
(* read-only iterator follows the links between data slabs; the loaded     *)
(* value iterator walks the tree with a stack of its own and leaves out    *)
(* what is not in memory.                                                  *)
(***************************************************************************)
EXTENDS MapTree

Entry(elem) == [key |-> elem.key, value |-> elem.value]

\* At most n keys from one on, each found by getNextKey from the one before.
RECURSIVE KeysFrom(_, _)
KeysFrom(key, n) ==
    IF key = None \/ n = 0 THEN <<>>
    ELSE <<key>> \o KeysFrom(SlabNextKey(Memory, root, key), n - 1)

\* What the mutable iterator returns; a walk that does not end is cut off
\* with one key too many.
MutableKeys == KeysFrom(firstKeyInMapSlab(Memory, root), Cardinality(Key) + 1)

-----------------------------------------------------------------------------
(* readOnlyMapIterator.                                                    *)

\* What mapElementIterator.next returns from element i on.  An iterator just
\* made for a group is asked at once: nil from it would end the walk.
RECURSIVE ElementEntries(_, _)
ElementEntries(els, i) ==
    IF i > Len(els.elems) THEN <<>>
    ELSE IF ~ IsGroup(els.elems[i])
      THEN <<Entry(els.elems[i])>> \o ElementEntries(els, i + 1)
    ELSE LET nested == ElementEntries(GroupElements(els.elems[i]), 1)
         IN IF nested = <<>> THEN <<>> ELSE nested \o ElementEntries(els, i + 1)

RECURSIVE firstMapDataSlab(_)
firstMapDataSlab(id) ==
    IF IsData(slabs[id]) THEN id ELSE firstMapDataSlab(Head(slabs[id].children).id)

RECURSIVE EntriesFrom(_)
EntriesFrom(id) ==
    IF id = Undefined THEN <<>>
    ELSE ElementEntries(slabs[id].elements, 1) \o EntriesFrom(slabs[id].next)

ReadOnlyIterator == EntriesFrom(firstMapDataSlab(root))

-----------------------------------------------------------------------------
(* MapLoadedValueIterator, with a stack of metadata slabs and positions.   *)

RECURSIVE LoadedElementEntries(_, _)
LoadedElementEntries(els, unloaded) ==
    FlattenSeq([i \in DOMAIN els.elems |->
        LET elem == els.elems[i] IN
          IF ~ IsGroup(elem) THEN <<Entry(elem)>>
          ELSE IF elem.kind = "external" /\ elem.id \in unloaded THEN <<>>
          ELSE LoadedElementEntries(GroupElements(elem), unloaded)])

\* A bug: a child that is not in memory ends the slab.
LoadedChildrenInRow(parent, unloaded) ==
    {k \in {parent.index + 1} \cap DOMAIN slabs[parent.slab].children :
        slabs[parent.slab].children[k].id \notin unloaded}

\* Positions of the children that mapLoadedSlabIterator.next can return.
LoadedChildren(parent, unloaded) ==
    {k \in DOMAIN slabs[parent.slab].children :
        k > parent.index /\ slabs[parent.slab].children[k].id \notin unloaded}

RECURSIVE LoadedEntries(_, _)

NextLoadedChild(parents, unloaded, k) ==
    LET top   == Last(parents)
        child == slabs[top.slab].children[k].id
        rest  == Append(Front(parents), [top EXCEPT !.index = k])
    IN IF IsData(slabs[child])
         THEN LoadedElementEntries(slabs[child].elements, unloaded) \o LoadedEntries(rest, unloaded)
         ELSE LoadedEntries(Append(rest, [slab |-> child, index |-> 0]), unloaded)

LoadedEntries(parents, unloaded) ==
    IF parents = <<>> THEN <<>>
    ELSE IF LoadedChildren(Last(parents), unloaded) = {}
      THEN LoadedEntries(Front(parents), unloaded)
      ELSE NextLoadedChild(parents, unloaded, Min(LoadedChildren(Last(parents), unloaded)))

\* What it returns while the slabs "unloaded" are not in memory.
ReadOnlyLoadedValueIterator(unloaded) ==
    IF IsData(slabs[root]) THEN LoadedElementEntries(slabs[root].elements, unloaded)
    ELSE LoadedEntries(<<[slab |-> root, index |-> 0]>>, unloaded)

-----------------------------------------------------------------------------
\* The mutable iterator visits every key once, within and across groups and
\* slabs, in the order of the first digests, and the read-only iterator
\* returns the same keys in the same order, with their values.
IterationVisitsAll ==
    LET keys == MutableKeys IN
      /\ IsInjective(keys)
      /\ Range(keys) = {key \in Key : contents[key] # None}
      /\ \A i \in 1..(Len(keys) - 1) : Digest(keys[i], 0) <= Digest(keys[i+1], 0)
      /\ ReadOnlyIterator = [i \in DOMAIN keys |-> [key |-> keys[i], value |-> contents[keys[i]]]]

\* For every key in the map, the key that follows it in a store.
NextKeys(st) == [key \in {k \in Key : contents[k] # None} |-> SlabNextKey(st, root, key)]

\* Overwriting a value never changes the order of the keys, although a group
\* may leave its slab and slabs may split or merge: so the key that a mutable
\* iterator has in hand still leads to all that are left, as the comment on
\* OrderedMap.Iterator (map.go:1149) promises.
KeyOrderIsStable ==
    \A key \in DOMAIN NextKeys(Memory), value \in ValueSizes :
        \E st \in {FixRoot(SlabSet(Memory, root, key, value), root)} :
            NextKeys(st) = NextKeys(Memory)

\* The keys below a slab of the tree or of a group.
KeysBelow(id) ==
    LET leaves == DataSlabIDs(id)
        all    == FlattenSeq([i \in DOMAIN leaves |-> ElementEntries(slabs[leaves[i]].elements, 1)])
    IN {all[i].key : i \in DOMAIN all}

\* Whatever slab below the root is not in memory, that of a group included,
\* the loaded value iterator returns, in order, all keys that are not below it.
LoadedValuesAreAllLoaded ==
    LET entries == ReadOnlyIterator IN
      \A id \in Range(SlabIDs) \ {root} :
         ReadOnlyLoadedValueIterator({id}) =
            SelectSeq(entries, LAMBDA entry : entry.key \notin KeysBelow(id))
=============================================================================
