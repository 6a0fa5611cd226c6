------------------------------ MODULE MapSlabs ------------------------------
(***************************************************************************)
(* One map slab, or two neighbours, as values: how MapDataSlab             *)
(* (map_data_slab.go, with the hkeyElements in it) and MapMetaDataSlab     *)
(* (map_metadata_slab.go) split, merge, lend and borrow.                   *)
(***************************************************************************)
EXTENDS MapElements

CONSTANTS MetaPrefixSize,  \* mapMetaDataSlabPrefixSize
          HeaderSize       \* mapSlabHeaderSize

\* A metadata slab needs two children to reach the minimum, and holds four.
ASSUME MapMetaAssumption ==
    /\ {MetaPrefixSize, HeaderSize} \subseteq Nat \ {0}
    /\ MetaPrefixSize + HeaderSize < MinThreshold
    /\ MetaPrefixSize + 4 * HeaderSize <= MaxThreshold

-----------------------------------------------------------------------------
(* hkeyElements: positions are found by size without the prefix.           *)

ContentSize(els) == els.size - HkeyPrefixSize

\* els with the elements from one position to another, and their size.
Part(els, from, to, contentSize) ==
    [els EXCEPT !.hkeys = SubSeq(@, from, to), !.elems = SubSeq(@, from, to),
                !.size = HkeyPrefixSize + contentSize]

Joined(left, right) ==
    [left EXCEPT !.hkeys = @ \o right.hkeys, !.elems = @ \o right.elems,
                 !.size = @ + ContentSize(right)]

\* The element that crosses the middle goes to the smaller side.
SplitCount(els) ==
    LET midPoint == (ContentSize(els) + 1) \div 2
        sums     == Sums(ElementSizes(els))
        i        == Min({j \in DOMAIN els.elems : sums[j] >= midPoint})
    IN IF sums[i-1] <= ContentSize(els) - sums[i] THEN i ELSE i - 1

\* The first n elements, which take leftSize bytes, and the rest.
Parts(els, n, leftSize) ==
    [left  |-> Part(els, 1, n, leftSize),
     right |-> Part(els, n + 1, Len(els.elems), ContentSize(els) - leftSize)]

ElementsSplit(els) ==
    LET n == SplitCount(els) IN Parts(els, n, Sums(ElementSizes(els))[n])

MinContentSize == MinThreshold - DataPrefixSize - HkeyPrefixSize

\* From the last element on, until the left side would fall below the middle
\* and the right side has the minimum.
ElementsLendToRight(left, right) ==
    LET size     == ContentSize(left) + ContentSize(right)
        midPoint == (size + 1) \div 2
        sums     == Sums(ElementSizes(left))
        LeftSize(n) == ContentSize(left) - (sums[Len(left.elems)] - sums[n])
        Stop(n)  == /\ LeftSize(n) - ElementSizes(left)[n] < midPoint
                    /\ size - LeftSize(n) >= MinContentSize
        n        == Max({0} \cup {m \in DOMAIN left.elems : Stop(m)})
    IN Parts(Joined(left, right), n, LeftSize(n))

\* Up to the middle, and across if the right side can do without.
ElementsBorrowFromRight(left, right) ==
    LET size     == ContentSize(left) + ContentSize(right)
        midPoint == (size + 1) \div 2
        sums     == Sums(ElementSizes(right))
        LeftSize(n) == ContentSize(left) + sums[n]
        cross    == {n \in DOMAIN right.elems : LeftSize(n) > midPoint}
        moved    == IF cross = {} THEN Len(right.elems)
                    ELSE IF size - LeftSize(Min(cross)) >= MinContentSize
                           THEN Min(cross) ELSE Min(cross) - 1
    IN Parts(Joined(left, right), Len(left.elems) + moved, LeftSize(moved))

\* Some elements at the end in question add up to "need" bytes, and the slab
\* keeps the minimum without them.
ElementsCanLend(els, sizes, need) ==
    LET minSize == MinThreshold - DataPrefixSize IN
      /\ Len(els.elems) >= 2
      /\ els.size - need >= minSize
      /\ \E n \in DOMAIN sizes :
            Sums(sizes)[n] >= need /\ els.size - Sums(sizes)[n] >= minSize

-----------------------------------------------------------------------------
(* MapDataSlab.  The first key is left alone where the code leaves it.     *)

WithElements(slab, els) ==
    [slab EXCEPT !.elements = els, !.size = DataPrefixSize + els.size]

FirstKeyToo(slab) == [slab EXCEPT !.firstKey = firstKey(slab.elements)]

DataSplit(slab, rightID) ==
    LET parts == ElementsSplit(slab.elements)
    IN [left  |-> [WithElements(slab, parts.left) EXCEPT !.next = rightID],
        right |-> DataSlab(parts.right, slab.next)]

DataMerge(left, right) ==
    [FirstKeyToo(WithElements(left, Joined(left.elements, right.elements)))
        EXCEPT !.next = right.next]

DataLendToRight(left, right) ==
    LET parts == ElementsLendToRight(left.elements, right.elements)
    IN [left  |-> WithElements(left, parts.left),
        right |-> FirstKeyToo(WithElements(right, parts.right))]

DataBorrowFromRight(left, right) ==
    LET parts == ElementsBorrowFromRight(left.elements, right.elements)
    IN [left  |-> FirstKeyToo(WithElements(left, parts.left)),
        right |-> FirstKeyToo(WithElements(right, parts.right))]

-----------------------------------------------------------------------------
(* MapMetaDataSlab.                                                        *)

MetaSlab(children) ==
    [kind |-> "meta", children |-> children, firstKey |-> Head(children).firstKey,
     size |-> MetaPrefixSize + Len(children) * HeaderSize, extra |-> None]

\* The left half gets the odd child.
MetaSplit(slab) ==
    LET n == (Len(slab.children) + 1) \div 2
    IN [left  |-> [slab EXCEPT !.children = SubSeq(@, 1, n),
                               !.size = MetaPrefixSize + n * HeaderSize],
        right |-> [MetaSlab(SubSeq(slab.children, n + 1, Len(slab.children))) EXCEPT
                      !.size = slab.size - n * HeaderSize]]

MetaMerge(left, right) ==
    [left EXCEPT !.children = @ \o right.children,
                 !.size = @ + (right.size - MetaPrefixSize)]

\* LendToRight and BorrowFromRight: half of the children, rounded down, end
\* up on the left, whose first key stays.
MetaShare(left, right) ==
    LET children == left.children \o right.children
        n        == Len(children) \div 2
    IN [left  |-> [MetaSlab(SubSeq(children, 1, n)) EXCEPT !.firstKey = left.firstKey],
        right |-> MetaSlab(SubSeq(children, n + 1, Len(children)))]

MetaCanLend(slab, need) ==
    slab.size - HeaderSize * ((need + HeaderSize - 1) \div HeaderSize) > MinThreshold

-----------------------------------------------------------------------------
(* MapSlab: either kind.                                                   *)

Split(slab, rightID) == IF IsData(slab) THEN DataSplit(slab, rightID) ELSE MetaSplit(slab)

Merge(left, right) == IF IsData(left) THEN DataMerge(left, right) ELSE MetaMerge(left, right)

LendToRight(left, right) ==
    IF IsData(left) THEN DataLendToRight(left, right) ELSE MetaShare(left, right)

BorrowFromRight(left, right) ==
    IF IsData(left) THEN DataBorrowFromRight(left, right) ELSE MetaShare(left, right)

CanLendToLeft(slab, need) ==
    IF IsData(slab) THEN ElementsCanLend(slab.elements, ElementSizes(slab.elements), need)
                    ELSE MetaCanLend(slab, need)

CanLendToRight(slab, need) ==
    IF IsData(slab)
      THEN ElementsCanLend(slab.elements, Reverse(ElementSizes(slab.elements)), need)
      ELSE MetaCanLend(slab, need)
-----------------------------------------------------------------------------
(* Encoding.  Bytes leave out sizes and first keys, and what kind of       *)
(* elements they are: elements without digests are a list.                 *)

EncodedHeader(header) == [header EXCEPT !.size = @ % 65536]

RECURSIVE EncodeElements(_), newElementsFromData(_)

EncodeElement(elem) ==
    IF elem.kind = "inline" THEN [elem EXCEPT !.elements = EncodeElements(@)] ELSE elem

EncodeElements(els) ==
    [level |-> els.level, hkeys |-> IF IsSingles(els) THEN <<>> ELSE els.hkeys,
     elems |-> [i \in DOMAIN els.elems |-> EncodeElement(els.elems[i])]]

newElementFromData(data) ==
    IF data.kind = "inline" THEN [data EXCEPT !.elements = newElementsFromData(@)] ELSE data

newElementsFromData(data) ==
    LET list  == data.hkeys = <<>> /\ data.elems # <<>>
        elems == [i \in DOMAIN data.elems |-> newElementFromData(data.elems[i])]
        sizes == [i \in DOMAIN elems |-> ElementSize(elems[i]) + IF list THEN 0 ELSE DigestSize]
    IN [level |-> data.level, hkeys |-> data.hkeys, elems |-> elems,
        size  |-> (IF list THEN SinglesPrefixSize ELSE HkeyPrefixSize) + Total(sizes)]

EncodeDataSlab(slab) ==
    [kind |-> "data", extra |-> slab.extra, next |-> slab.next,
     collisionGroup |-> slab.collisionGroup, elements |-> EncodeElements(slab.elements)]

EncodeMetaSlab(slab) ==
    [kind |-> "meta", extra |-> slab.extra,
     children |-> [i \in DOMAIN slab.children |-> EncodedHeader(slab.children[i])]]

EncodeSlab(slab) == IF IsData(slab) THEN EncodeDataSlab(slab) ELSE EncodeMetaSlab(slab)

newMapDataSlabFromData(data) ==
    LET els == newElementsFromData(data.elements)
    IN [DataSlab(els, data.next) EXCEPT !.size  = PrefixSize(data) + els.size,
                                        !.extra = data.extra,
                                        !.collisionGroup = data.collisionGroup]

newMapMetaDataSlabFromData(data) == [MetaSlab(data.children) EXCEPT !.extra = data.extra]

DecodeSlab(data) == IF IsData(data) THEN newMapDataSlabFromData(data)
                                    ELSE newMapMetaDataSlabFromData(data)
=============================================================================
