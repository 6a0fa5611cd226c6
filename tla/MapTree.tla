------------------------------- MODULE MapTree ------------------------------
(***************************************************************************)
(* OrderedMap (map.go): a B+ tree of slabs ordered by the first digest of  *)
(* the keys.  A metadata slab keeps the header of every child, with the    *)
(* smallest digest below it (firstKey), by which keys are looked up; the   *)
(* number of keys is kept in the extra data of the root.                   *)
(***************************************************************************)
EXTENDS MapSlabs

CONSTANT ValueSizes \* sizes of values

ASSUME MapTreeAssumption ==
    ValueSizes \subseteq 1..(MaxInlineMapElementSize - KeySize - SinglePrefixSize)

VARIABLES slabs,    \* ID -> slab object or Absent
          root,     \* ID of the root slab
          unsaved,  \* slabs changed in memory and not handed to the storage
          contents  \* history: key -> the value the calls gave it, or None

vars == <<slabs, root, unsaved, contents>>

Memory == [slabs |-> slabs, stored |-> {}, old |-> None, failed |-> FALSE]

Header(st, id) ==
    [id |-> id, size |-> st.slabs[id].size, firstKey |-> st.slabs[id].firstKey]

Headers(st, ids) ==
    LET heads[i \in 0..Len(ids)] ==
          IF i = 0 THEN <<>> ELSE Append(heads[i-1], Header(st, ids[i]))
    IN heads[Len(ids)]

-----------------------------------------------------------------------------
(* MapMetaDataSlab: keeping children within the limits.                    *)

SplitChildSlab(st, id, k) ==
    LET left  == st.slabs[id].children[k].id
        right == GenerateSlabID(st)
        parts == Split(st.slabs[left], right)
        st1   == Put(Put(st, left, parts.left), right, parts.right)
    IN storeSlab(
         Put(st1, id,
             [st.slabs[id] EXCEPT
                !.children = InsertAt(ReplaceAt(@, k, Header(st1, left)),
                                      k + 1, Header(st1, right)),
                !.size = @ + HeaderSize]),
         {left, right, id})

\* The first key of a metadata slab follows its first child's.
FollowFirstChild(meta, k) ==
    IF k = 1 THEN [meta EXCEPT !.firstKey = meta.children[1].firstKey] ELSE meta

\* A bug: the header of the right slab is not refreshed.
RebalanceChildrenStale(st, id, k, child, parts) ==
    LET left  == st.slabs[id].children[k].id
        right == st.slabs[id].children[k+1].id
        st1   == Put(Put(st, left, parts.left), right, parts.right)
        meta  == [st.slabs[id] EXCEPT !.children = ReplaceAt(@, k, Header(st1, left))]
    IN storeSlab(Put(st1, id, FollowFirstChild(meta, child)), {left, right, id})

\* Children k and k+1 become the two parts; "child" is the one that was too
\* small, and was empty if it is the first one.
RebalanceChildren(st, id, k, child, parts) ==
    LET left  == st.slabs[id].children[k].id
        right == st.slabs[id].children[k+1].id
        st1   == Put(Put(st, left, parts.left), right, parts.right)
        meta  == [st.slabs[id] EXCEPT
                    !.children = ReplaceAt(ReplaceAt(@, k, Header(st1, left)),
                                           k + 1, Header(st1, right))]
    IN storeSlab(Put(st1, id, FollowFirstChild(meta, child)), {left, right, id})

\* Child k+1 is merged into child k.
MergeChildren(st, id, k, child) ==
    LET left  == st.slabs[id].children[k].id
        right == st.slabs[id].children[k+1].id
        st1   == Put(st, left, Merge(st.slabs[left], st.slabs[right]))
        meta  == [st.slabs[id] EXCEPT
                    !.children = RemoveAt(ReplaceAt(@, k, Header(st1, left)), k + 1),
                    !.size = @ - HeaderSize]
    IN RemoveSlab(storeSlab(Put(st1, id, FollowFirstChild(meta, child)), {left, id}), right)

MergeOrRebalanceChildSlab(st, id, k) ==
    LET children     == st.slabs[id].children
        Sibling(i)   == st.slabs[children[i].id]
        need         == MinThreshold - Sibling(k).size
        hasLeft      == k > 1
        hasRight     == k < Len(children)
        leftCanLend  == hasLeft /\ CanLendToRight(Sibling(k-1), need)
        rightCanLend == hasRight /\ CanLendToLeft(Sibling(k+1), need)
    IN CASE leftCanLend /\ (rightCanLend => Sibling(k-1).size > Sibling(k+1).size)
              -> RebalanceChildren(st, id, k-1, k, LendToRight(Sibling(k-1), Sibling(k)))
         [] rightCanLend /\ (leftCanLend => Sibling(k-1).size <= Sibling(k+1).size)
              -> RebalanceChildren(st, id, k, k, BorrowFromRight(Sibling(k), Sibling(k+1)))
         [] ~ leftCanLend /\ ~ rightCanLend ->
              IF hasLeft /\ (hasRight => Sibling(k-1).size < Sibling(k+1).size)
                THEN MergeChildren(st, id, k-1, k)
                ELSE MergeChildren(st, id, k, k)

-----------------------------------------------------------------------------
(* MapSlab: Get, getElementAndNextKey, Set, Remove, PopIterate.            *)

\* A bug: the smallest digest of a child is looked for on its left.
ChildByDigestStrict(meta, key) ==
    Max({0} \cup {k \in DOMAIN meta.children : meta.children[k].firstKey < Digest(key, 0)})

\* The last child whose first key is not above the digest; none if the
\* digest is below all of them.
ChildByDigest(meta, key) ==
    Max({0} \cup {k \in DOMAIN meta.children : meta.children[k].firstKey <= Digest(key, 0)})

RECURSIVE SlabGet(_, _, _)
SlabGet(st, id, key) ==
    LET slab == st.slabs[id]
        k    == ChildByDigest(slab, key)
    IN IF IsData(slab) THEN ElementsGet(st, slab.elements, key)
       ELSE IF k = 0 THEN None ELSE SlabGet(st, slab.children[k].id, key)

RECURSIVE firstKeyInMapSlab(_, _)
firstKeyInMapSlab(st, id) ==
    IF IsData(st.slabs[id]) THEN firstKeyInElements(st, st.slabs[id].elements)
    ELSE firstKeyInMapSlab(st, Head(st.slabs[id].children).id)

RECURSIVE SlabNextKey(_, _, _)

\* A bug: the walk ends with the child.
SlabNextKeyInside(st, id, key) ==
    LET slab == st.slabs[id]
    IN IF IsData(slab) THEN NextKeyInElements(st, slab.elements, key)
       ELSE SlabNextKey(st, slab.children[ChildByDigest(slab, key)].id, key)

SlabNextKey(st, id, key) ==
    LET slab   == st.slabs[id]
        k      == ChildByDigest(slab, key)
        inside == SlabNextKey(st, slab.children[k].id, key)
    IN IF IsData(slab) THEN NextKeyInElements(st, slab.elements, key)
       ELSE IF inside # None THEN inside
       ELSE IF k < Len(slab.children) THEN firstKeyInMapSlab(st, slab.children[k+1].id)
       ELSE None

\* What a metadata slab notes about child k once the child has changed.
NoteChild(st, id, k) ==
    Put(st, id, FollowFirstChild([st.slabs[id] EXCEPT !.children[k] = Header(st, @.id)], k))

\* Both after Set and after Remove a child may be too big or too small: a
\* group may move to its own slab, or come back.
FixChild(st, id, k) ==
    LET child == st.slabs[st.slabs[id].children[k].id]
    IN IF IsFull(child) THEN SplitChildSlab(st, id, k)
       ELSE IF IsUnderflow(child) THEN MergeOrRebalanceChildSlab(st, id, k)
       ELSE storeSlab(st, {id})

DataSet(st, id, key, value) ==
    LET r == ElementsSet(st, st.slabs[id].elements, key, value)
    IN IF r.st.failed THEN r.st ELSE PutElements(r.st, id, r.els)

\* A digest below all first keys goes to the first child.
RECURSIVE SlabSet(_, _, _, _)
SlabSet(st, id, key, value) ==
    LET slab == st.slabs[id]
        k    == Max({1, ChildByDigest(slab, key)})
        st1  == SlabSet(st, slab.children[k].id, key, value)
    IN IF IsData(slab) THEN DataSet(st, id, key, value)
       ELSE IF st1.failed THEN st1 ELSE FixChild(NoteChild(st1, id, k), id, k)

DataRemove(st, id, key) ==
    LET r == ElementsRemove(st, st.slabs[id].elements, key)
    IN IF r.st.failed THEN r.st ELSE PutElements(r.st, id, r.els)

RECURSIVE SlabRemove(_, _, _)
SlabRemove(st, id, key) ==
    LET slab == st.slabs[id]
        k    == ChildByDigest(slab, key)
        st1  == SlabRemove(st, slab.children[k].id, key)
    IN IF IsData(slab) THEN DataRemove(st, id, key)
       ELSE IF k = 0 THEN Fail(st)
       ELSE IF st1.failed THEN st1 ELSE FixChild(NoteChild(st1, id, k), id, k)

\* The slabs below a slab, last child first, are emptied and removed.
RECURSIVE SlabPopIterate(_, _)
SlabPopIterate(st, id) ==
    LET slab == st.slabs[id]
        PopChild(child, s) == RemoveSlab(SlabPopIterate(s, child.id), child.id)
    IN IF IsData(slab) THEN ElementsPopIterate(st, slab.elements)
       ELSE FoldRight(PopChild, slab.children, st)

-----------------------------------------------------------------------------
(* OrderedMap: the root.                                                   *)

RootPrefixChange(slab, change) == IF IsData(slab) THEN slab.size + change ELSE slab.size

\* The old root gets a new ID and is split; a new root takes its ID over.
splitRoot(st, id) ==
    LET old   == st.slabs[id]
        left  == GenerateSlabID(st)
        moved == [old EXCEPT !.extra = None,
                             !.size = RootPrefixChange(old, DataPrefixSize - RootDataPrefixSize)]
        st1   == Put(st, left, moved)
        right == GenerateSlabID(st1)
        parts == Split(moved, right)
        st2   == Put(Put(st1, left, parts.left), right, parts.right)
        new   == MetaSlab(<<Header(st2, left), Header(st2, right)>>)
    IN storeSlab(Put(st2, id, [new EXCEPT !.extra = old.extra]), {left, right, id})

\* An only child takes the root's place and ID.
promoteChildAsNewRoot(st, id) ==
    LET childID == Head(st.slabs[id].children).id
        child   == st.slabs[childID]
        new     == [child EXCEPT !.extra = st.slabs[id].extra,
                                 !.size = RootPrefixChange(child, RootDataPrefixSize - DataPrefixSize)]
    IN RemoveSlab(storeSlab(Put(st, id, new), {id}), childID)

\* The end of set and of remove.
FixRoot(st, id) ==
    LET only == ~ IsData(st.slabs[id]) /\ Len(st.slabs[id].children) = 1
        st1  == IF only THEN promoteChildAsNewRoot(st, id) ELSE st
    IN IF IsFull(st1.slabs[id]) THEN splitRoot(st1, id) ELSE st1

\* incrementCount and decrementCount change the root's extra data in place.
AddToCount(st, id, n) == [st EXCEPT !.slabs[id].extra = @ + n]

-----------------------------------------------------------------------------
(* NewMapFromBatchData: a tree is built level by level from a list of keys *)
(* and values in the order of their first digests.                         *)

EmptyStore == [slabs |-> NoSlabs, stored |-> {}, old |-> None, failed |-> FALSE]

\* A level of the tree: a store, and the IDs of the slabs from left to right.
\* The elements of the last data slab are still being collected.
LastElements(level) == level.st.slabs[Last(level.ids)].elements

PutLast(level, els) ==
    [level EXCEPT !.st = Put(@, Last(level.ids), DataSlab(els, Undefined))]

\* A key with the digest of the previous one joins its element.
JoinLast(level, els, r) ==
    PutLast([level EXCEPT !.st = r.st], AdjustElement(els, Len(els.elems), r.elem))

BatchCollision(level, key, value) ==
    JoinLast(level, LastElements(level),
             ElementSet(level.st, Last(LastElements(level).elems), 0, key, value))

\* A data slab is closed when it has reached the target size, or would get
\* too big.
IsClosed(els, elem) ==
    \/ DataPrefixSize + els.size >= TargetThreshold
    \/ DataPrefixSize + els.size + DigestSize + ElementSize(elem) > MaxThreshold

OpenNext(level, next) ==
    [st  |-> Put(Put(level.st, Last(level.ids), DataSlab(LastElements(level), next)),
                 next, DataSlab(NewElements(0), Undefined)),
     ids |-> Append(level.ids, next)]

AppendSingle(level, key, value) ==
    PutLast(level, InsertSingle(LastElements(level), key, value))

BatchElement(level, key, value) ==
    IF Digest(key, 0) \in {Last(LastElements(level).hkeys) : i \in DOMAIN LastElements(level).hkeys}
      THEN BatchCollision(level, key, value)
    ELSE IF IsClosed(LastElements(level), Single(key, value))
      THEN AppendSingle(OpenNext(level, GenerateSlabID(level.st)), key, value)
    ELSE AppendSingle(level, key, value)

RECURSIVE BatchAppend(_, _)
BatchAppend(level, list) ==
    IF list = <<>> THEN level
    ELSE BatchAppend(BatchElement(level, Head(list).key, Head(list).value), Tail(list))

MaxHeaders == (MaxThreshold - MetaPrefixSize) \div HeaderSize

RECURSIVE nextLevelMapSlabs(_, _, _)
nextLevelMapSlabs(st, ids, metas) ==
    LET n  == Min({Len(ids), MaxHeaders})
        id == GenerateSlabID(st)
    IN IF ids = <<>> THEN [st |-> st, ids |-> metas]
       ELSE nextLevelMapSlabs(Put(st, id, MetaSlab(Headers(st, SubSeq(ids, 1, n)))),
                              SubSeq(ids, n + 1, Len(ids)), Append(metas, id))

\* The last slab of a level may be too small.
RebalanceLast(level, left, right) ==
    LET Shared(parts) == Put(Put(level.st, left, parts.left), right, parts.right)
        Merged(slab)  == Put(Put(level.st, left, slab), right, Absent)
        L == level.st.slabs[left]
        R == level.st.slabs[right]
    IN IF ~ IsUnderflow(R) THEN level
       ELSE IF CanLendToRight(L, MinThreshold - R.size)
         THEN [level EXCEPT !.st = Shared(LendToRight(L, R))]
         ELSE [st |-> Merged(Merge(L, R)), ids |-> Front(level.ids)]

RECURSIVE BuildLevels(_)

\* A bug: the last slab of a level is not stored.
BuildAboveUnsaved(level) ==
    IF Len(level.ids) = 1 THEN level
    ELSE BuildLevels(nextLevelMapSlabs(storeSlab(level.st, Range(Front(level.ids))),
                                       level.ids, <<>>))

\* The slabs of a level are stored before the next one is built.
BuildAbove(level) ==
    IF Len(level.ids) = 1 THEN level
    ELSE BuildLevels(nextLevelMapSlabs(storeSlab(level.st, Range(level.ids)), level.ids, <<>>))

BuildLevels(level) ==
    IF Len(level.ids) = 1 THEN level
    ELSE BuildAbove(RebalanceLast(level, level.ids[Len(level.ids) - 1], Last(level.ids)))

\* The slab that is left gets the extra data.
MakeRoot(st, id, count) ==
    storeSlab(Put(st, id, [st.slabs[id] EXCEPT
                             !.extra = count,
                             !.size = RootPrefixChange(st.slabs[id],
                                                       RootDataPrefixSize - DataPrefixSize)]),
              {id})

NewMapFromBatchData(list) ==
    LET id == GenerateSlabID(EmptyStore)
    IN BuildLevels(BatchAppend(
           [st  |-> Put(EmptyStore, id, DataSlab(NewElements(0), Undefined)),
            ids |-> <<id>>], list))

-----------------------------------------------------------------------------
(* The operations of a map as steps.  A call that fails changes nothing.   *)

Apply(st) ==
    /\ slabs' = st.slabs
    /\ unsaved' = (unsaved \cup {id \in ID : st.slabs[id] # slabs[id]}) \ st.stored
    /\ UNCHANGED root

MapSet(key, value) ==
    \E st \in {SlabSet(Memory, root, key, value)} :
        /\ ~ st.failed
        /\ Apply(FixRoot(AddToCount(st, root, IF st.old = None THEN 1 ELSE 0), root))
        /\ contents' = [contents EXCEPT ![key] = value]

MapRemove(key) ==
    \E st \in {SlabRemove(Memory, root, key)} :
        /\ ~ st.failed
        /\ Apply(FixRoot(AddToCount(st, root, -1), root))
        /\ contents' = [contents EXCEPT ![key] = None]

EmptyRoot == [DataSlab(NewElements(0), Undefined) EXCEPT
                 !.extra = 0, !.size = RootDataPrefixSize + HkeyPrefixSize]

MapPopIterate ==
    /\ Apply(storeSlab(Put(SlabPopIterate(Memory, root), root, EmptyRoot), {root}))
    /\ contents' = [key \in Key |-> None]

\* NewMap.
Init ==
    /\ root = 1
    /\ slabs = [NoSlabs EXCEPT ![root] = EmptyRoot]
    /\ unsaved = {}
    /\ contents = [key \in Key |-> None]

\* The calls for some of the keys.
NextOn(keys) ==
    \/ \E key \in keys, value \in ValueSizes : MapSet(key, value)
    \/ \E key \in keys : MapRemove(key)
    \/ MapPopIterate

Next == NextOn(Key)

Spec == Init /\ [][Next]_vars

\* A map made by NewMapFromBatchData, in a storage of its own, takes the place
\* of the empty one.
MapFromBatchData(list) ==
    \E top \in {NewMapFromBatchData(list)} :
      \E st \in {MakeRoot(top.st, Head(top.ids), Len(list))} :
        /\ root' = Head(top.ids)
        /\ slabs' = st.slabs
        /\ unsaved' = {id \in ID : st.slabs[id] # Absent} \ st.stored
        /\ contents' = [key \in Key |->
              LET at == {i \in DOMAIN list : list[i].key = key}
              IN IF at = {} THEN None ELSE list[Min(at)].value]

-----------------------------------------------------------------------------
(* VerifyMap (map_verify.go).                                              *)

RECURSIVE DataSlabIDs(_)
DataSlabIDs(id) ==
    IF IsData(slabs[id]) THEN <<id>>
    ELSE FlattenSeq([k \in DOMAIN slabs[id].children |-> DataSlabIDs(slabs[id].children[k].id)])

RECURSIVE TreeIDs(_)
TreeIDs(id) ==
    IF IsData(slabs[id]) THEN <<id>>
    ELSE <<id>> \o FlattenSeq([k \in DOMAIN slabs[id].children |-> TreeIDs(slabs[id].children[k].id)])

GroupElements(elem) ==
    IF elem.kind = "inline" THEN elem.elements ELSE slabs[elem.id].elements

\* Slabs of external groups below elements.
RECURSIVE GroupIDs(_)
GroupIDs(els) ==
    FlattenSeq([i \in DOMAIN els.elems |->
        (IF els.elems[i].kind = "external" THEN <<els.elems[i].id>> ELSE <<>>) \o
        (IF IsGroup(els.elems[i]) THEN GroupIDs(GroupElements(els.elems[i])) ELSE <<>>)])

SlabIDs ==
    TreeIDs(root) \o FlattenSeq([i \in DOMAIN DataSlabIDs(root) |->
                                    GroupIDs(slabs[DataSlabIDs(root)[i]].elements)])

StrictlySorted(s) == \A i \in 1..(Len(s) - 1) : s[i] < s[i+1]

\* The keys of elements are in the groups of their digests, and all sizes
\* add up.
RECURSIVE verifyElements(_, _, _)
verifyElements(els, level, prefix) ==
    /\ els.level = level
    /\ els.size = PrefixOf(level) + Total(ElementSizes(els))
    /\ ~ IsSingles(els) => Len(els.hkeys) = Len(els.elems) /\ StrictlySorted(els.hkeys)
    /\ \A i \in DOMAIN els.elems :
         LET elem    == els.elems[i]
             digests == IF IsSingles(els) THEN prefix ELSE Append(prefix, els.hkeys[i])
         IN /\ level = 0 => ElementSize(elem) <= MaxInlineMapElementSize
            /\ IF IsGroup(elem) THEN verifyElements(GroupElements(elem), level + 1, digests)
               ELSE \A l \in DOMAIN digests : Digests[elem.key][l] = digests[l]
            \* Not in VerifyMap: the slab of a group has a current header, and
            \* no group is left with a single key.
            /\ elem.kind = "external" =>
                  /\ slabs[elem.id].collisionGroup
                  /\ slabs[elem.id] = [DataSlab(GroupElements(elem), Undefined) EXCEPT
                                          !.collisionGroup = TRUE]
            /\ IsGroup(elem) => LET in == GroupElements(elem).elems
                                IN Len(in) > 1 \/ (Len(in) = 1 /\ IsGroup(in[1]))

RECURSIVE verifySlab(_, _)
verifySlab(id, header) ==
    LET slab == slabs[id] IN
      /\ slab # Absent
      /\ header = Header(Memory, id)
      /\ slab.extra = None <=> id # root
      /\ id # root => ~ IsUnderflow(slab)
      /\ ~ IsFull(slab)
      /\ IF IsData(slab)
           THEN /\ slab.firstKey = firstKey(slab.elements)
                /\ slab.size = PrefixSize(slab) + slab.elements.size
                /\ ~ slab.collisionGroup
                /\ verifyElements(slab.elements, 0, <<>>)
           ELSE /\ slab.firstKey = Head(slab.children).firstKey
                /\ slab.size = MetaPrefixSize + Len(slab.children) * HeaderSize
                /\ id = root => Len(slab.children) >= 2
                /\ StrictlySorted([k \in DOMAIN slab.children |-> slab.children[k].firstKey])
                /\ \A k \in DOMAIN slab.children :
                      verifySlab(slab.children[k].id, slab.children[k])

verifyMap ==
    /\ verifySlab(root, Header(Memory, root))
    /\ IsInjective(SlabIDs)
    /\ slabs[root].extra = Cardinality({key \in Key : contents[key] # None})
    /\ LET leaves == DataSlabIDs(root) IN
         /\ StrictlySorted([i \in DOMAIN leaves |-> slabs[leaves[i]].firstKey])
         /\ \A i \in DOMAIN leaves :
               slabs[leaves[i]].next = IF i = Len(leaves) THEN Undefined ELSE leaves[i+1]

-----------------------------------------------------------------------------
(* Properties.                                                             *)

\* After every operation the map passes VerifyMap: sizes within limits,
\* digests sorted at every level, every key in the group of its digests, and
\* first keys, headers, links and the count of keys are current, although
\* each is adjusted in place (map_metadata_slab.go, map_element.go).
MapIsValid == verifyMap

\* The map reads as the function its operations add up to: Get descends by
\* first keys and then by the digests of one level after the other
\* (getChildSlabByDigest, hkeyElements.Get).
ReadsContents == \A key \in Key : SlabGet(Memory, root, key) = contents[key]

\* A slab that an operation changed was handed to the storage, and one that
\* left the map was removed, the slabs of collision groups included: nothing
\* is lost at a commit and nothing stays behind.  A new process decodes the
\* very slabs that are in memory, first keys and sizes of groups in groups
\* included.
NothingUnsavedOrOrphaned ==
    /\ unsaved = {}
    /\ {id \in ID : slabs[id] # Absent} = Range(SlabIDs)
    /\ \A id \in Range(SlabIDs) : DecodeSlab(EncodeSlab(slabs[id])) = slabs[id]

\* MaxCollisionLimitPerDigest (map_elements_hashkey.go:27): in one map no more
\* keys than that collide with another one in their first digest.
CollisionLimitIsEnforced ==
    \A d \in {Digest(key, 0) : key \in Key} :
        Cardinality({key \in Key : contents[key] # None /\ Digest(key, 0) = d})
            <= MaxCollisionLimit + 1

\* One first-level digest has at most MaxCollisionLimit + 1 digests of the
\* second level under it, through every order of inserts, updates and removals
\* and every change of its group between inline and external: inserts are
\* refused at the limit and updates never are (map_elements_hashkey.go:281).
GroupsAreLimited ==
    LET Present == {key \in Key : contents[key] # None} IN
      /\ \A d \in {Digest(key, 0) : key \in Present} :
            Cardinality({Digest(key, 1) : key \in {k \in Present : Digest(k, 0) = d}})
                <= MaxCollisionLimit + 1
      /\ \A key \in Present, value \in ValueSizes :
            ~ SlabSet(Memory, root, key, value).failed
=============================================================================
