---------------------------- MODULE SlabEncoding ----------------------------
(***************************************************************************)
(* How a slab with inlined containers is written and read back             *)
(* (array_data_slab_encode.go, map_data_slab_encode.go and their decoders, *)
(* extradata.go).  What inlined containers have in common is written once, *)
(* in a table in front of the elements: type infos that occur twice, the   *)
(* extra data of arrays of one type, and for composite maps with the same  *)
(* type and keys also seed, digests and keys ("compact maps").  So a map   *)
(* can come back with the seed, and the order of keys, of another map.     *)
(***************************************************************************)
EXTENDS Integers, Sequences, FiniteSets, SequencesExt, Functions, TLC

CONSTANTS Container,          \* numbers of inlined containers
          Key,                \* keys of maps: numbers, for an order
          Comparable,         \* the ones that compare, and have no slab of their own
          Types,              \* type infos: numbers
          Composite,          \* the types with IsComposite
          Seeds,              \* seeds of maps
          Digests,            \* digests of a key under a seed, one per level
          Levels,             \* Digester.Levels
          RootTypes,          \* bound on the types of the root, which no one shares
          RootSeeds,          \* bound on its seeds
          MaxElements,        \* bound on the elements of a container
          MaxExtraDataIndex,  \* maxInlinedExtraDataIndex
          None

Root == 0

ASSUME EncodingAssumption ==
    /\ {Key, Types} \subseteq SUBSET Nat /\ Container \subseteq Nat \ {Root}
    /\ Composite \subseteq Types /\ Comparable \subseteq Key
    /\ RootTypes \subseteq Types /\ RootSeeds \subseteq Seeds
    /\ Digests \in [Seeds -> [Key -> [1..Levels -> Nat]]]

VARIABLE slab  \* the root and the containers inlined in it, or None

Sorted(set) == SetToSortSeq(set, <)

Merged(functions) == FoldLeft(LAMBDA f, g : f @@ g, <<>>, functions)

-----------------------------------------------------------------------------
(* Maps in memory, see MapElements.                                        *)

Digest(seed, key, level) == Digests[seed][key][level + 1]

Single(key, value) == [kind |-> "single", key |-> key, value |-> value]

RECURSIVE ElementsOf(_, _, _), ContentOf(_)

\* The elements of a map from keys to values.
ElementsOf(seed, level, content) ==
    LET keys      == DOMAIN content
        list      == Sorted(keys)
        hkeys     == Sorted({Digest(seed, key, level) : key \in keys})
        With(d)   == {key \in keys : Digest(seed, key, level) = d}
        Element(d) == IF Cardinality(With(d)) = 1
                        THEN LET key == CHOOSE k \in With(d) : TRUE IN Single(key, content[key])
                        ELSE [kind |-> "inline",
                              elements |-> ElementsOf(seed, level + 1, Restrict(content, With(d)))]
    IN IF level = Levels
         THEN [level |-> level, hkeys |-> <<>>,
               elems |-> [i \in DOMAIN list |-> Single(list[i], content[list[i]])]]
         ELSE [level |-> level, hkeys |-> hkeys,
               elems |-> [i \in DOMAIN hkeys |-> Element(hkeys[i])]]

ContentOf(els) ==
    Merged([i \in DOMAIN els.elems |->
              LET e == els.elems[i] IN
                IF e.kind = "single" THEN e.key :> e.value ELSE ContentOf(e.elements)])

-----------------------------------------------------------------------------
(* InlinedExtraData: a table of what the inlined containers share.         *)

\* The entry that matches, or a new one.
Shared(table, entry, Matches(_)) ==
    LET i == SelectInSeq(table, Matches) IN
      IF i # 0 THEN [table |-> table, index |-> i]
               ELSE [table |-> Append(table, entry), index |-> Len(table) + 1]

addArrayExtraData(table, s) ==
    Shared(table, [kind |-> "array", type |-> s.type],
           LAMBDA x : x.kind = "array" /\ x.type = s.type)

\* Not shared: it has a seed.
addMapExtraData(table, s) ==
    Shared(table, [kind |-> "map", type |-> s.type, count |-> s.count, seed |-> s.seed],
           LAMBDA x : FALSE)

KeysOf(s) == [i \in DOMAIN s.elements.elems |-> s.elements.elems[i].key]

\* Type and sorted keys.
makeCompactMapTypeID(type, keys) == <<type, Sorted(ToSet(keys))>>

addCompactMapExtraData(table, s) ==
    Shared(table, [kind |-> "compact", type |-> s.type, count |-> s.count, seed |-> s.seed,
                   hkeys |-> s.elements.hkeys, keys |-> KeysOf(s)],
           LAMBDA x : /\ x.kind = "compact"
                      /\ makeCompactMapTypeID(x.type, x.keys)
                           = makeCompactMapTypeID(s.type, KeysOf(s)))

\* The type infos of several entries are written once.
findDuplicateTypeInfo(table) ==
    Sorted({t \in Types : \E i, j \in DOMAIN table : i # j /\ t = table[i].type /\ t = table[j].type})

EncodedType(typeInfos, type) ==
    IF Contains(typeInfos, type) THEN [ref |-> SelectInSeq(typeInfos, LAMBDA t : t = type)]
                                 ELSE [type |-> type]

\* decodeTypeInfoRefIfNeeded.
DecodedType(typeInfos, type) ==
    IF "ref" \in DOMAIN type THEN typeInfos[type.ref] ELSE type.type

\* An entry: all but its type is written as it is.
EncodeEntry(typeInfos, entry) == [entry EXCEPT !.type = EncodedType(typeInfos, @)]

DecodeEntry(typeInfos, entry) == [entry EXCEPT !.type = DecodedType(typeInfos, @)]

\* InlinedExtraData.Encode.
EncodeExtraData(table) ==
    LET typeInfos == findDuplicateTypeInfo(table) IN
      [typeInfos |-> typeInfos,
       extraData |-> [i \in DOMAIN table |-> EncodeEntry(typeInfos, table[i])]]

newInlinedExtraDataFromData(data) ==
    [i \in DOMAIN data.extraData |-> DecodeEntry(data.typeInfos, data.extraData[i])]

-----------------------------------------------------------------------------
(* Encode, in the order of the elements; the table grows on the way.       *)

canBeEncodedAsCompactMap(s) ==
    /\ s.type \in Composite
    /\ \A i \in DOMAIN s.elements.elems :
          s.elements.elems[i].kind = "single" /\ s.elements.elems[i].key \in Comparable

\* A bug: values are written in the order of the map's own keys.
CompactValuesInOwnOrder(s, cachedKeys) ==
    [i \in DOMAIN cachedKeys |-> ContentOf(s.elements)[KeysOf(s)[i]]]

\* encodeCompactMapValues: in the order of the keys in the table.
CompactValues(s, cachedKeys) ==
    [i \in DOMAIN cachedKeys |-> ContentOf(s.elements)[cachedKeys[i]]]

\* A fold over a sequence that carries the table along.
EncodeEach(Encode(_, _), table, items) ==
    FoldLeft(LAMBDA r, item : LET x == Encode(r.table, item)
                              IN [table |-> x.table, data |-> Append(r.data, x.data)],
             [table |-> table, data |-> <<>>], items)

\* Extra data index, slab index and elements.
Inlined(kind, index, id, r) ==
    [table |-> r.table, data |-> [kind |-> kind, index |-> index, id |-> id, elems |-> r.data]]

RECURSIVE EncodeStorable(_, _, _), EncodeElements(_, _, _)

EncodeAll(slabs, table, items) ==
    EncodeEach(LAMBDA t, e : EncodeStorable(slabs, t, e), table, items)

encodeAsInlinedArray(slabs, table, id) ==
    LET x == addArrayExtraData(table, slabs[id])
    IN Inlined("array", x.index, id, EncodeAll(slabs, x.table, slabs[id].elems))

encodeAsInlinedMap(slabs, table, id) ==
    LET x == addMapExtraData(table, slabs[id])
    IN Inlined("map", x.index, id, EncodeElements(slabs, x.table, slabs[id].elements))

encodeAsInlinedCompactMap(slabs, table, id) ==
    LET x      == addCompactMapExtraData(table, slabs[id])
        values == CompactValues(slabs[id], x.table[x.index].keys)
    IN Inlined("compact", x.index, id, EncodeAll(slabs, x.table, values))

EncodeStorable(slabs, table, e) ==
    CASE e.kind = "plain" -> [table |-> table, data |-> e]
      [] e.kind = "slab" /\ slabs[e.id].kind = "array" -> encodeAsInlinedArray(slabs, table, e.id)
      [] e.kind = "slab" /\ slabs[e.id].kind = "map" ->
           IF canBeEncodedAsCompactMap(slabs[e.id])
             THEN encodeAsInlinedCompactMap(slabs, table, e.id)
             ELSE encodeAsInlinedMap(slabs, table, e.id)

\* singleElement.Encode, inlineCollisionGroup.Encode.
EncodeElement(slabs, table, e) ==
    LET r == IF e.kind = "single" THEN EncodeStorable(slabs, table, e.value)
                                  ELSE EncodeElements(slabs, table, e.elements)
    IN [table |-> r.table,
        data  |-> IF e.kind = "single" THEN [e EXCEPT !.value = r.data]
                                       ELSE [e EXCEPT !.elements = r.data]]

EncodeElements(slabs, table, els) ==
    LET r == EncodeEach(LAMBDA t, e : EncodeElement(slabs, t, e), table, els.elems)
    IN [table |-> r.table, data |-> [els EXCEPT !.elems = r.data]]

\* The root's own extra data is written as it is, and is never shared.
EncodedSlab(kind, extra, r) ==
    IF Len(r.table) > MaxExtraDataIndex + 1 THEN None
    ELSE [kind |-> kind, extra |-> extra, inlined |-> EncodeExtraData(r.table), elems |-> r.data]

EncodeArrayDataSlab(slabs) ==
    LET root == slabs[Root]
    IN EncodedSlab("array", [type |-> root.type], EncodeAll(slabs, <<>>, root.elems))

EncodeMapDataSlab(slabs) ==
    LET root == slabs[Root]
    IN EncodedSlab("map", [type |-> root.type, count |-> root.count, seed |-> root.seed],
                   EncodeElements(slabs, <<>>, root.elements))

EncodeSlab(slabs) ==
    IF slabs[Root].kind = "array" THEN EncodeArrayDataSlab(slabs) ELSE EncodeMapDataSlab(slabs)

-----------------------------------------------------------------------------
(* Decode.  An operator returns what is decoded with the slabs in it.      *)

RECURSIVE DecodeStorable(_, _), newElementsFromData(_, _)

DecodeEach(table, items) == [i \in DOMAIN items |-> DecodeStorable(table, items[i])]

SlabsOf(decoded)     == Merged([i \in DOMAIN decoded |-> decoded[i].slabs])
StorablesOf(decoded) == [i \in DOMAIN decoded |-> decoded[i].storable]
AnyError(decoded)    == \E i \in DOMAIN decoded : decoded[i].err

DecodeInlinedArray(table, data) ==
    LET elems == DecodeEach(table, data.elems) IN
      [elems |-> elems,
       slab  |-> [kind |-> "array", type |-> table[data.index].type, elems |-> StorablesOf(elems)]]

DecodeInlinedMap(table, data) ==
    LET x == table[data.index]
        r == newElementsFromData(table, data.elems)
    IN [elems |-> r.elems,
        slab  |-> [kind |-> "map", type |-> x.type, count |-> x.count, seed |-> x.seed,
                   elements |-> r.elements]]

\* A map with the seed and the digests of the table's entry.
CompactMap(x, keys, elems) ==
    [elems |-> elems,
     slab  |-> [kind |-> "map", type |-> x.type, count |-> x.count, seed |-> x.seed,
                elements |-> [level |-> 0, hkeys |-> x.hkeys,
                              elems |-> [i \in DOMAIN elems |-> Single(keys[i], elems[i].storable)]]]]

\* A bug: keys are taken in their own order, not that of the digests.
DecodeInlinedCompactMapSorted(table, data) ==
    LET x == table[data.index]
    IN CompactMap(x, Sorted(ToSet(x.keys)), DecodeEach(table, data.elems))

\* Seed, digests and keys are copies of the shared ones.
DecodeInlinedCompactMap(table, data) ==
    LET x == table[data.index]
    IN CompactMap(x, x.keys, DecodeEach(table, data.elems))

\* An index that is not in the table, extra data of another kind, or values
\* that are more or fewer than the keys, are an error.
DecodeStorable(table, data) ==
    LET known == data.index \in DOMAIN table /\ table[data.index].kind = data.kind
        fits  == known /\ (data.kind = "compact" => Len(data.elems) = Len(table[data.index].keys))
        r     == CASE data.kind = "array"   -> DecodeInlinedArray(table, data)
                   [] data.kind = "map"     -> DecodeInlinedMap(table, data)
                   [] data.kind = "compact" -> DecodeInlinedCompactMap(table, data)
    IN IF data.kind = "plain" THEN [err |-> FALSE, slabs |-> <<>>, storable |-> data]
       ELSE IF ~ fits THEN [err |-> TRUE, slabs |-> <<>>, storable |-> None]
       ELSE [err      |-> AnyError(r.elems),
             slabs    |-> (data.id :> r.slab) @@ SlabsOf(r.elems),
             storable |-> [kind |-> "slab", id |-> data.id]]

\* newSingleElementFromData, newInlineCollisionGroupFromData.
newElementFromData(table, e) ==
    LET group == newElementsFromData(table, e.elements)
        value == DecodeStorable(table, e.value)
    IN IF e.kind = "inline"
         THEN [elems |-> group.elems, element |-> [e EXCEPT !.elements = group.elements]]
         ELSE [elems |-> <<value>>, element |-> [e EXCEPT !.value = value.storable]]

newElementsFromData(table, data) ==
    LET r == [i \in DOMAIN data.elems |-> newElementFromData(table, data.elems[i])]
    IN [elems    |-> FlattenSeq([i \in DOMAIN r |-> r[i].elems]),
        elements |-> [data EXCEPT !.elems = [i \in DOMAIN r |-> r[i].element]]]

\* The root and the slabs inlined in it, None after an error.
DecodedSlab(root, elems) ==
    IF AnyError(elems) THEN None
    ELSE (Root :> root) @@ SlabsOf(elems) @@ [c \in Container |-> None]

newArrayDataSlabFromData(data) ==
    LET elems == DecodeEach(newInlinedExtraDataFromData(data.inlined), data.elems)
    IN DecodedSlab([kind |-> "array", type |-> data.extra.type, elems |-> StorablesOf(elems)], elems)

newMapDataSlabFromData(data) ==
    LET r == newElementsFromData(newInlinedExtraDataFromData(data.inlined), data.elems)
    IN DecodedSlab([kind |-> "map", type |-> data.extra.type, count |-> data.extra.count,
                    seed |-> data.extra.seed, elements |-> r.elements], r.elems)

DecodeSlab(data) ==
    IF data.kind = "array" THEN newArrayDataSlabFromData(data) ELSE newMapDataSlabFromData(data)

-----------------------------------------------------------------------------
(* A program fills the root and its containers, and reads them anew after  *)
(* a commit.                                                               *)

New(kind, type, seed) ==
    IF kind = "array" THEN [kind |-> kind, type |-> type, elems |-> <<>>]
    ELSE [kind |-> kind, type |-> type, count |-> 0, seed |-> seed,
          elements |-> ElementsOf(seed, 0, <<>>)]

Exists(c) == slab[c] # None

\* Places for one more element.
Places(p) ==
    IF slab[p].kind = "array" THEN {Len(slab[p].elems) + 1} \cap 1..MaxElements
    ELSE {at \in Key : slab[p].count < MaxElements /\ at \notin DOMAIN ContentOf(slab[p].elements)}

With(s, at, value) ==
    IF s.kind = "array" THEN [s EXCEPT !.elems = Append(@, value)]
    ELSE [s EXCEPT !.count    = @ + 1,
                   !.elements = ElementsOf(s.seed, 0, (at :> value) @@ ContentOf(s.elements))]

AddPlain(p) ==
    /\ Exists(p)
    /\ \E at \in Places(p) :
          slab' = [slab EXCEPT ![p] = With(@, at, [kind |-> "plain", place |-> <<p, at>>])]

AddContainer(p) ==
    LET unused == {c \in Container : ~ Exists(c)}
        c      == CHOOSE x \in unused : \A y \in unused : x <= y
    IN /\ Exists(p) /\ unused # {}
       /\ \E at \in Places(p), kind \in {"array", "map"}, type \in Types, seed \in Seeds :
             slab' = [slab EXCEPT ![p] = With(@, at, [kind |-> "slab", id |-> c]),
                                  ![c] = New(kind, type, seed)]

Reload ==
    /\ EncodeSlab(slab) # None
    /\ DecodeSlab(EncodeSlab(slab)) # None
    /\ slab' = DecodeSlab(EncodeSlab(slab))

Init == \E kind \in {"array", "map"}, type \in RootTypes, seed \in RootSeeds :
           slab = (Root :> New(kind, type, seed)) @@ [c \in Container |-> None]

Next == \/ \E p \in Container \cup {Root} : AddPlain(p) \/ AddContainer(p)
        \/ Reload

Spec == Init /\ [][Next]_slab

-----------------------------------------------------------------------------
(* Properties.                                                             *)

\* Extra data and elements are equal but for the seed and the order of a map
\* that was decoded from a compact one.
mapExtraDataEqual(s, t, compact) ==
    /\ <<t.kind, t.type, t.count>> = <<s.kind, s.type, s.count>>
    /\ ~ compact => t.seed = s.seed

mapElementsEqual(s, t, compact) ==
    IF compact THEN ContentOf(t.elements) = ContentOf(s.elements) ELSE t.elements = s.elements

mapDataSlabEqual(s, t, inlined) ==
    LET compact == inlined /\ canBeEncodedAsCompactMap(s)
    IN mapExtraDataEqual(s, t, compact) /\ mapElementsEqual(s, t, compact)

\* A slab comes back as it was (mapDataSlabEqual, arrayDataSlabEqual): every
\* container with its value ID, type and contents, and every map in order of
\* its digests under the seed that it now has, so that all keys are found,
\* even if seed and order are those of a map it shares its extra data with.
DecodingIsFaithful ==
    LET decoded == DecodeSlab(EncodeSlab(slab)) IN
      /\ decoded # None /\ DOMAIN decoded = DOMAIN slab
      /\ \A c \in DOMAIN slab :
           IF slab[c] = None \/ slab[c].kind = "array" THEN decoded[c] = slab[c]
           ELSE /\ mapDataSlabEqual(slab[c], decoded[c], c # Root)
                /\ decoded[c].elements =
                      ElementsOf(decoded[c].seed, 0, ContentOf(decoded[c].elements))

\* VerifyArraySerialization and VerifyMapSerialization: "Verify encoding is
\* deterministic (encoded data of original slab is same as encoded data of
\* decoded slab)" (array_serialization_verify.go:90), for any containers in one
\* another, whichever of them comes first and gives its seed to the others.
EncodingIsDeterministic ==
    EncodeSlab(DecodeSlab(EncodeSlab(slab))) = EncodeSlab(slab)
=============================================================================
