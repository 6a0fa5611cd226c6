----------------------------- MODULE MapElements ----------------------------
(***************************************************************************)
(* The elements of a map data slab: hkeyElements                           *)
(* (map_elements_hashkey.go), singleElements (map_elements_nokey.go) and   *)
(* the three kinds of element (map_element.go).  Keys with equal digests   *)
(* form a collision group, which orders them by the digest of the next     *)
(* level and nests until digests differ; below the last level a group is   *)
(* an unordered list.  A group right in a data slab moves to a slab of its *)
(* own when it grows too big.                                              *)
(*                                                                         *)
(* A value is its encoded size.  Sizes of elements are kept as the code    *)
(* keeps them, by adding and subtracting.                                  *)
(***************************************************************************)
EXTENDS SlabStore

CONSTANTS Key,                 \* keys, of KeySize bytes each
          Digests,             \* the digests of a key, one per level
          Levels,              \* Digester.Levels
          MaxCollisionLimit,   \* MaxCollisionLimitPerDigest
          KeySize,
          DigestSize,          \* digestSize
          DataPrefixSize,      \* mapDataSlabPrefixSize
          RootDataPrefixSize,  \* mapRootDataSlabPrefixSize
          HkeyPrefixSize,      \* hkeyElementsPrefixSize
          SinglesPrefixSize,   \* singleElementsPrefixSize
          SinglePrefixSize,    \* singleElementPrefixSize
          InlinePrefixSize,    \* inlineCollisionGroupPrefixSize
          ExternalSize,        \* size of an externalCollisionGroup
          None                 \* Go's nil

\* SetThreshold; at least two elements fit in a data slab of the target size.
MaxInlineMapElementSize ==
    (TargetThreshold - DataPrefixSize - HkeyPrefixSize) \div 2 - DigestSize

ASSUME MapSizesAssumption ==
    /\ {Levels, KeySize, DigestSize, DataPrefixSize, RootDataPrefixSize,
        HkeyPrefixSize, SinglesPrefixSize, SinglePrefixSize, InlinePrefixSize,
        ExternalSize} \subseteq Nat \ {0}
    /\ MaxCollisionLimit \in Nat
    /\ Digests \in [Key -> [1..Levels -> Nat]]
    /\ RootDataPrefixSize < DataPrefixSize
    /\ DataPrefixSize + HkeyPrefixSize < MinThreshold
    /\ ExternalSize <= MaxInlineMapElementSize

\* Digester.Digest.
Digest(key, level) == Digests[key][level + 1]

-----------------------------------------------------------------------------
(* Elements: below the last level there are no digests to order them by.   *)

IsSingles(els) == els.level = Levels

Overhead(level) == IF level = Levels THEN 0 ELSE DigestSize

PrefixOf(level) == IF level = Levels THEN SinglesPrefixSize ELSE HkeyPrefixSize

ElementSize(elem) ==
    CASE elem.kind = "single"   -> SinglePrefixSize + KeySize + elem.value
      [] elem.kind = "inline"   -> InlinePrefixSize + elem.elements.size
      [] elem.kind = "external" -> ExternalSize

IsGroup(elem) == elem.kind # "single"

Single(key, value) == [kind |-> "single", key |-> key, value |-> value]

\* What each element takes in els.
ElementSizes(els) ==
    [i \in DOMAIN els.elems |-> ElementSize(els.elems[i]) + Overhead(els.level)]

NewElements(level) ==
    [level |-> level, hkeys |-> <<>>, elems |-> <<>>, size |-> PrefixOf(level)]

firstKey(els) == IF els.hkeys = <<>> THEN 0 ELSE Head(els.hkeys)

\* singleElements are searched one by one, hkeyElements by digest.
IndexInList(els, key) == {i \in DOMAIN els.elems : els.elems[i].key = key}

IndexByDigest(els, key) == {i \in DOMAIN els.elems : els.hkeys[i] = Digest(key, els.level)}

IndexOf(els, key) ==
    IF IsSingles(els) THEN IndexInList(els, key) ELSE IndexByDigest(els, key)

\* A new element goes to the end of a list, or where the digests stay sorted.
AppendToList(els, elem) ==
    [els EXCEPT !.elems = Append(@, elem), !.size = @ + ElementSize(elem)]

InsertByDigest(els, elem) ==
    LET d == Digest(elem.key, els.level)
        i == 1 + Cardinality({j \in DOMAIN els.hkeys : els.hkeys[j] < d})
    IN [els EXCEPT !.elems = InsertAt(@, i, elem), !.hkeys = InsertAt(@, i, d),
                   !.size = @ + DigestSize + ElementSize(elem)]

InsertSingle(els, key, value) ==
    IF IsSingles(els) THEN AppendToList(els, Single(key, value))
                      ELSE InsertByDigest(els, Single(key, value))

\* A bug: a changed element of a list goes to its end.
ReplaceElementAtEnd(els, i, elem) ==
    LET new == IF IsSingles(els) THEN [els EXCEPT !.elems = Append(RemoveAt(@, i), elem)]
               ELSE [els EXCEPT !.elems = ReplaceAt(@, i, elem)]
    IN [new EXCEPT !.size = PrefixOf(els.level) + Total(ElementSizes(new))]

\* A changed element, with all sizes added up anew.
ReplaceElement(els, i, elem) ==
    LET new == [els EXCEPT !.elems = ReplaceAt(@, i, elem)]
    IN [new EXCEPT !.size = PrefixOf(els.level) + Total(ElementSizes(new))]

\* A removed element, with the size adjusted.
DropFromList(els, i) ==
    [els EXCEPT !.elems = RemoveAt(@, i), !.size = @ - ElementSize(els.elems[i])]

DropElement(els, i) ==
    IF IsSingles(els) THEN DropFromList(els, i)
    ELSE [els EXCEPT !.elems = RemoveAt(@, i), !.hkeys = RemoveAt(@, i),
                     !.size = @ - (DigestSize + ElementSize(els.elems[i]))]

\* A changed element, with the size adjusted.
AdjustElement(els, i, elem) ==
    [els EXCEPT !.elems = ReplaceAt(@, i, elem),
                !.size = @ + ElementSize(elem) - ElementSize(els.elems[i])]

-----------------------------------------------------------------------------
(* Data slabs, which are also the slabs of external groups.                *)

PrefixSize(slab) == IF slab.extra = None THEN DataPrefixSize ELSE RootDataPrefixSize

DataSlab(els, next) ==
    [kind |-> "data", elements |-> els, size |-> DataPrefixSize + els.size,
     firstKey |-> firstKey(els), next |-> next, extra |-> None, collisionGroup |-> FALSE]

\* After a change the header follows the elements and the slab is stored.
PutElements(st, id, els) ==
    LET slab == st.slabs[id]
    IN storeSlab(Put(st, id, [slab EXCEPT !.elements = els,
                                          !.firstKey = firstKey(els),
                                          !.size = PrefixSize(slab) + els.size]),
                 {id})

\* element.Count: of a group, the elements right in it.
Count(st, elem) ==
    CASE elem.kind = "single"   -> 1
      [] elem.kind = "inline"   -> Len(elem.elements.elems)
      [] elem.kind = "external" -> Len(st.slabs[elem.id].elements.elems)

-----------------------------------------------------------------------------
(* Get.                                                                    *)

RECURSIVE ElementsGet(_, _, _)

\* A bug: a digest that matches is taken for the key.
ElementGetByDigest(st, elem, key) ==
    CASE elem.kind = "single"   -> elem.value
      [] elem.kind = "inline"   -> ElementsGet(st, elem.elements, key)
      [] elem.kind = "external" -> ElementsGet(st, st.slabs[elem.id].elements, key)

ElementGet(st, elem, key) ==
    CASE elem.kind = "single"   -> IF elem.key = key THEN elem.value ELSE None
      [] elem.kind = "inline"   -> ElementsGet(st, elem.elements, key)
      [] elem.kind = "external" -> ElementsGet(st, st.slabs[elem.id].elements, key)

ElementsGet(st, els, key) ==
    IF IndexOf(els, key) = {} THEN None
    ELSE ElementGet(st, els.elems[Min(IndexOf(els, key))], key)

-----------------------------------------------------------------------------
(* Set.  The store's "old" is the value that was there, and "failed" is    *)
(* set when the call returns an error.                                     *)

Fail(st) == [st EXCEPT !.failed = TRUE]

\* A bug: one collision too many.
CollisionLimitPassed(st, els, elem, key) ==
    /\ els.level = 0
    /\ Count(st, elem) - 1 > MaxCollisionLimit
    /\ ElementGet(st, elem, key) = None

\* Inserts are refused when the digest has too many collisions already.
CollisionLimitReached(st, els, elem, key) ==
    /\ els.level = 0
    /\ Count(st, elem) - 1 >= MaxCollisionLimit
    /\ ElementGet(st, elem, key) = None

RECURSIVE ElementsSet(_, _, _, _)

\* A bug: the existing key gets the digest of the level it comes from.
NewGroupStale(elem, level) ==
    LET els == NewElements(level + 1)
    IN [els EXCEPT !.elems = <<elem>>,
                   !.size  = @ + ElementSize(elem) + Overhead(level + 1),
                   !.hkeys = IF IsSingles(els) THEN <<>> ELSE <<Digest(elem.key, level)>>]

\* A single element meets another key: its own digest of the next level is
\* computed, for only the digests that are needed are kept.
NewGroup(elem, level) ==
    LET els == NewElements(level + 1)
    IN [els EXCEPT !.elems = <<elem>>,
                   !.size  = @ + ElementSize(elem) + Overhead(level + 1),
                   !.hkeys = IF IsSingles(els) THEN <<>> ELSE <<Digest(elem.key, level + 1)>>]

\* A group in a data slab that has become too big moves to its own slab.
ExportIfBig(st, group, level) ==
    LET id == GenerateSlabID(st)
    IN IF level = 0 /\ ElementSize(group) > MaxInlineMapElementSize
         THEN [st |-> storeSlab(Put(st, id, [DataSlab(group.elements, Undefined) EXCEPT
                                               !.collisionGroup = TRUE]), {id}),
               elem |-> [kind |-> "external", id |-> id]]
         ELSE [st |-> st, elem |-> group]

\* Set of a group in an element of "level".
GroupSet(st, els, level, key, value) ==
    LET r == ElementsSet(st, els, key, value)
    IN ExportIfBig(r.st, [kind |-> "inline", elements |-> r.els], level)

ElementSet(st, elem, level, key, value) ==
    CASE elem.kind = "single" /\ elem.key = key ->
           [st |-> [st EXCEPT !.old = elem.value], elem |-> [elem EXCEPT !.value = value]]
      [] elem.kind = "single" /\ elem.key # key ->
           GroupSet(st, NewGroup(elem, level), level, key, value)
      [] elem.kind = "inline" -> GroupSet(st, elem.elements, level, key, value)
      [] elem.kind = "external" ->
           LET r == ElementsSet(st, st.slabs[elem.id].elements, key, value)
           IN [st |-> PutElements(r.st, elem.id, r.els), elem |-> elem]

ElementsSet(st, els, key, value) ==
    LET i    == Min(IndexOf(els, key))
        elem == els.elems[i]
        r    == ElementSet(st, elem, els.level, key, value)
    IN IF IndexOf(els, key) = {} THEN [st |-> st, els |-> InsertSingle(els, key, value)]
       ELSE IF CollisionLimitReached(st, els, elem, key) THEN [st |-> Fail(st), els |-> els]
       ELSE [st |-> r.st, els |-> ReplaceElement(els, i, r.elem)]

-----------------------------------------------------------------------------
(* Remove.                                                                 *)

RECURSIVE ElementsRemove(_, _, _)

\* A group with one single element left is that element; the group then
\* loses the slab it may have.
Collapse(els, group) ==
    IF Len(els.elems) = 1 /\ ~ IsGroup(Head(els.elems)) THEN Head(els.elems) ELSE group

\* A bug: the slab of a group that is gone stays.
DropExternalNot(st, id) == st

DropExternal(st, id) == RemoveSlab(st, id)

\* The element without the key: None when it was the only one.
ElementRemove(st, elem, key) ==
    CASE elem.kind = "single" ->
           [st |-> IF elem.key = key THEN [st EXCEPT !.old = elem.value] ELSE Fail(st),
            elem |-> None]
      [] elem.kind = "inline" ->
           LET r == ElementsRemove(st, elem.elements, key)
           IN [st |-> r.st, elem |-> Collapse(r.els, [elem EXCEPT !.elements = r.els])]
      [] elem.kind = "external" ->
           LET r   == ElementsRemove(st, st.slabs[elem.id].elements, key)
               new == Collapse(r.els, elem)
               st1 == PutElements(r.st, elem.id, r.els)
           IN [st |-> IF new = elem THEN st1 ELSE DropExternal(st1, elem.id), elem |-> new]

ElementsRemove(st, els, key) ==
    LET i == Min(IndexOf(els, key))
        r == ElementRemove(st, els.elems[i], key)
    IN IF IndexOf(els, key) = {} THEN [st |-> Fail(st), els |-> els]
       ELSE [st  |-> r.st,
             els |-> IF r.elem = None THEN DropElement(els, i)
                     ELSE AdjustElement(els, i, r.elem)]

-----------------------------------------------------------------------------
(* PopIterate: every element is taken out; slabs of groups are removed.    *)

RECURSIVE ElementsPopIterate(_, _)

ElementPopIterate(st, elem) ==
    CASE elem.kind = "single"   -> st
      [] elem.kind = "inline"   -> ElementsPopIterate(st, elem.elements)
      [] elem.kind = "external" ->
           RemoveSlab(ElementsPopIterate(st, st.slabs[elem.id].elements), elem.id)

ElementsPopIterate(st, els) ==
    FoldRight(LAMBDA elem, s : ElementPopIterate(s, elem), els.elems, st)

-----------------------------------------------------------------------------
(* getElementAndNextKey.                                                   *)

RECURSIVE firstKeyInElements(_, _)

firstKeyInElement(st, elem) ==
    CASE elem.kind = "single"   -> elem.key
      [] elem.kind = "inline"   -> firstKeyInElements(st, elem.elements)
      [] elem.kind = "external" -> firstKeyInElements(st, st.slabs[elem.id].elements)

firstKeyInElements(st, els) ==
    IF els.elems = <<>> THEN None ELSE firstKeyInElement(st, Head(els.elems))

RECURSIVE NextKeyInElements(_, _, _)

NextKeyInElement(st, elem, key) ==
    CASE elem.kind = "single"   -> None
      [] elem.kind = "inline"   -> NextKeyInElements(st, elem.elements, key)
      [] elem.kind = "external" -> NextKeyInElements(st, st.slabs[elem.id].elements, key)

\* A bug: the keys that follow in the same group are skipped.
NextKeyAfterElement(st, els, key) ==
    LET i == Min(IndexOf(els, key))
    IN IF i < Len(els.elems) THEN firstKeyInElement(st, els.elems[i + 1]) ELSE None

\* The next key is in the same element, or the first of the next one.
NextKeyInElements(st, els, key) ==
    LET i      == Min(IndexOf(els, key))
        inside == NextKeyInElement(st, els.elems[i], key)
    IN IF inside # None THEN inside
       ELSE IF i < Len(els.elems) THEN firstKeyInElement(st, els.elems[i + 1])
       ELSE None
=============================================================================
