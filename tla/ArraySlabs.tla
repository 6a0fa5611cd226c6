----------------------------- MODULE ArraySlabs -----------------------------
(***************************************************************************)
(* One array slab, or two neighbours, as values: what ArrayDataSlab        *)
(* (array_data_slab.go) and ArrayMetaDataSlab (array_metadata_slab.go) do  *)
(* to themselves when they split, merge, lend and borrow.                  *)
(*                                                                         *)
(* An element is its encoded size: nothing else about it matters here.     *)
(* Counts and sizes in a slab are kept the way the code keeps them, by     *)
(* adding and subtracting, not recomputed from the contents.               *)
(***************************************************************************)
EXTENDS SlabStore

CONSTANTS DataPrefixSize,      \* arrayDataSlabPrefixSize
          RootDataPrefixSize,  \* arrayRootDataSlabPrefixSize
          MetaPrefixSize,      \* arrayMetaDataSlabPrefixSize
          HeaderSize,          \* arraySlabHeaderSize
          LinearScanThreshold  \* linearScanThreshold

\* SetThreshold.
MaxInlineElementSize == (TargetThreshold - DataPrefixSize) \div 2

\* A metadata slab needs two children to reach the minimum, and holds at
\* least four; a data slab has room for two elements of any size.
ASSUME SizesAssumption ==
    /\ {DataPrefixSize, RootDataPrefixSize,
        MetaPrefixSize, HeaderSize, LinearScanThreshold} \subseteq Nat \ {0}
    /\ RootDataPrefixSize < DataPrefixSize
    /\ DataPrefixSize < MinThreshold
    /\ MetaPrefixSize + HeaderSize < MinThreshold
    /\ MetaPrefixSize + 4 * HeaderSize <= MaxThreshold

-----------------------------------------------------------------------------
\* getPrefixSize: only the root has extra data.
PrefixSize(slab) == IF slab.extra THEN RootDataPrefixSize ELSE DataPrefixSize

DataSlab(elements, size, next) ==
    [kind |-> "data", count |-> Len(elements), size |-> size, next |-> next,
     elements |-> elements, extra |-> FALSE]

\* childrenCountSum is rebuilt from the headers of the children.
CountSums(children) ==
    LET sums[i \in 0..Len(children)] ==
          IF i = 0 THEN <<>>
          ELSE Append(sums[i-1], children[i].count + IF i = 1 THEN 0 ELSE Last(sums[i-1]))
    IN sums[Len(children)]

\* Every cumulative count from child k on is adjusted.
AddFrom(countSum, k, added) ==
    SubSeq(countSum, 1, k - 1) \o
    [i \in 1..(Len(countSum) - k + 1) |-> countSum[k + i - 1] + added]

MetaSlab(children, count, size) ==
    [kind |-> "meta", count |-> count, size |-> size, children |-> children,
     countSum |-> CountSums(children), extra |-> FALSE]

ChildCount(children) == Total([i \in DOMAIN children |-> children[i].count])

-----------------------------------------------------------------------------
(* ArrayDataSlab.                                                          *)

\* Set adds up all sizes; Insert and Remove adjust the size.
DataSet(slab, index, e) ==
    LET elements == ReplaceAt(slab.elements, index + 1, e)
    IN [slab EXCEPT !.elements = elements,
                    !.size = PrefixSize(slab) + Total(elements)]

DataInsert(slab, index, e) ==
    [slab EXCEPT !.elements = InsertAt(@, index + 1, e),
                 !.count = @ + 1, !.size = @ + e]

DataRemove(slab, index) ==
    [slab EXCEPT !.elements = RemoveAt(@, index + 1),
                 !.count = @ - 1, !.size = @ - slab.elements[index + 1]]

\* The element that crosses the middle goes to the smaller side.
DataSplitCount(slab) ==
    LET dataSize == slab.size - DataPrefixSize
        midPoint == (dataSize + 1) \div 2
        sums     == Sums(slab.elements)
        i        == Min({j \in DOMAIN slab.elements : sums[j] >= midPoint})
    IN IF sums[i-1] <= dataSize - sums[i] THEN i ELSE i - 1

DataSplit(slab, rightID) ==
    LET n        == DataSplitCount(slab)
        dataSize == slab.size - DataPrefixSize
        leftSize == Sums(slab.elements)[n]
    IN [left  |-> DataSlab(SubSeq(slab.elements, 1, n),
                           DataPrefixSize + leftSize, rightID),
        right |-> DataSlab(SubSeq(slab.elements, n + 1, Len(slab.elements)),
                           DataPrefixSize + dataSize - leftSize, slab.next)]

\* A bug: the elements of the right slab come first.
DataMergeSwapped(left, right) ==
    [left EXCEPT !.elements = right.elements \o @,
                 !.size = @ + right.size - DataPrefixSize,
                 !.count = @ + right.count,
                 !.next = right.next]

DataMerge(left, right) ==
    [left EXCEPT !.elements = @ \o right.elements,
                 !.size = @ + right.size - DataPrefixSize,
                 !.count = @ + right.count,
                 !.next = right.next]

\* After a rebalance the left slab has the first n elements and leftSize bytes.
DataShare(left, right, n, leftSize) ==
    LET elements == left.elements \o right.elements
    IN [left  |-> [left EXCEPT !.elements = SubSeq(elements, 1, n),
                               !.size = leftSize, !.count = n],
        right |-> [right EXCEPT
                     !.elements = SubSeq(elements, n + 1, Len(elements)),
                     !.size = left.size + right.size - leftSize,
                     !.count = left.count + right.count - n]]

\* The left slab gives elements away, from its last one, until it would fall
\* below the middle and the right slab has reached the minimum.
DataLendToRight(left, right) ==
    LET size     == left.size + right.size
        midPoint == (size + 1) \div 2
        sums     == Sums(left.elements)
        LeftSize(n) == left.size - (sums[left.count] - sums[n])
        Stop(n)  == /\ LeftSize(n) - left.elements[n] < midPoint
                    /\ size - LeftSize(n) >= MinThreshold
        n        == Max({0} \cup {m \in DOMAIN left.elements : Stop(m)})
    IN DataShare(left, right, n, LeftSize(n))

\* The left slab takes elements up to the middle, and the one that crosses it
\* if the right slab can do without.
DataBorrowFromRight(left, right) ==
    LET size     == left.size + right.size
        midPoint == (size + 1) \div 2
        sums     == Sums(right.elements)
        LeftSize(n) == left.size + sums[n]
        cross    == {n \in DOMAIN right.elements : LeftSize(n) > midPoint}
        moved    == IF cross = {} THEN right.count
                    ELSE IF size - LeftSize(Min(cross)) >= MinThreshold
                           THEN Min(cross) ELSE Min(cross) - 1
    IN DataShare(left, right, left.count + moved, LeftSize(moved))

\* Some elements at the end in question add up to "need" bytes, and the slab
\* keeps the minimum without them.
DataCanLend(slab, elements, need) ==
    /\ slab.count >= 2
    /\ slab.size - need >= MinThreshold
    /\ \E n \in DOMAIN elements :
          Sums(elements)[n] >= need /\ slab.size - Sums(elements)[n] >= MinThreshold

-----------------------------------------------------------------------------
(* ArrayMetaDataSlab.                                                      *)

\* The child that has the element: the first whose cumulative count exceeds
\* the index, found by a scan or, with many children, by bisection.
ChildByScan(countSum, index) ==
    Min({k \in DOMAIN countSum : index < countSum[k]})

ChildByBisection(countSum, index) ==
    LET search[w \in [low : 0..Len(countSum), high : 0..Len(countSum)]] ==
          LET mid == (w.low + w.high) \div 2 IN
            IF w.low >= w.high THEN w.low + 1
            ELSE IF countSum[mid + 1] < index THEN search[[low |-> mid + 1, high |-> w.high]]
            ELSE IF countSum[mid + 1] > index THEN search[[low |-> w.low, high |-> mid]]
            ELSE mid + 2
    IN search[[low |-> 0, high |-> Len(countSum)]]

ChildIndex(slab, index) ==
    IF Len(slab.countSum) < LinearScanThreshold
      THEN ChildByScan(slab.countSum, index)
      ELSE ChildByBisection(slab.countSum, index)

AdjustedIndex(slab, k, index) ==
    index + slab.children[k].count - slab.countSum[k]

\* The left half gets the odd child.
MetaSplit(slab) ==
    LET n         == (Len(slab.children) + 1) \div 2
        leftSize  == n * HeaderSize
        leftCount == ChildCount(SubSeq(slab.children, 1, n))
    IN [left  |-> [slab EXCEPT !.children = SubSeq(@, 1, n),
                               !.countSum = SubSeq(@, 1, n),
                               !.count = leftCount,
                               !.size = MetaPrefixSize + leftSize],
        right |-> MetaSlab(SubSeq(slab.children, n + 1, Len(slab.children)),
                           slab.count - leftCount, slab.size - leftSize)]

MetaMerge(left, right) ==
    LET base == Last(left.countSum)
        sums == CountSums(right.children)
    IN [left EXCEPT !.children = @ \o right.children,
                    !.size = @ + (right.size - MetaPrefixSize),
                    !.count = @ + right.count,
                    !.countSum = @ \o [i \in DOMAIN sums |-> base + sums[i]]]

\* Either way half of the children, rounded down, end up on the left.
MetaOf(children) ==
    MetaSlab(children, ChildCount(children),
             MetaPrefixSize + Len(children) * HeaderSize)

MetaLendToRight(left, right) ==
    LET children == left.children \o right.children
        n        == Len(children) \div 2
    IN [left  |-> [MetaOf(SubSeq(children, 1, n)) EXCEPT
                      !.countSum = SubSeq(left.countSum, 1, n)],
        right |-> MetaOf(SubSeq(children, n + 1, Len(children)))]

MetaBorrowFromRight(left, right) ==
    LET children == left.children \o right.children
        n        == Len(children) \div 2
        moved    == SubSeq(right.children, 1, n - Len(left.children))
        sums     == CountSums(moved)
    IN [left  |-> [left EXCEPT
                      !.children = @ \o moved,
                      !.countSum = @ \o [i \in DOMAIN sums |-> left.count + sums[i]],
                      !.count = @ + ChildCount(moved),
                      !.size = MetaPrefixSize + n * HeaderSize],
        right |-> MetaOf(SubSeq(children, n + 1, Len(children)))]

MetaCanLend(slab, need) ==
    slab.size - HeaderSize * ((need + HeaderSize - 1) \div HeaderSize) > MinThreshold

\* What a metadata slab notes about its children, by their new headers: child k
\* has "added" elements more; it was split; it had "count" elements and shared
\* those of child k+1 anew; it was merged with child k+1.
ChildChanged(meta, k, header, added) ==
    [meta EXCEPT !.count = @ + added,
                 !.countSum = AddFrom(@, k, added),
                 !.children = ReplaceAt(@, k, header)]

ChildSplit(meta, k, left, right) ==
    [meta EXCEPT !.children = InsertAt(ReplaceAt(@, k, left), k + 1, right),
                 !.countSum = InsertAt(@, k, @[k] - right.count),
                 !.size = @ + HeaderSize]

ChildrenRebalanced(meta, k, count, left, right) ==
    [meta EXCEPT !.children = ReplaceAt(ReplaceAt(@, k, left), k + 1, right),
                 !.countSum = ReplaceAt(@, k, @[k] - count + left.count)]

\* A bug: the cumulative count of the wrong child is dropped.
ChildrenMergedWrongSum(meta, k, left) ==
    [meta EXCEPT !.children = RemoveAt(ReplaceAt(@, k, left), k + 1),
                 !.countSum = RemoveAt(@, k + 1),
                 !.size = @ - HeaderSize]

ChildrenMerged(meta, k, left) ==
    [meta EXCEPT !.children = RemoveAt(ReplaceAt(@, k, left), k + 1),
                 !.countSum = RemoveAt(@, k),
                 !.size = @ - HeaderSize]

-----------------------------------------------------------------------------
(* ArraySlab: either kind.                                                 *)

Split(slab, rightID) == IF IsData(slab) THEN DataSplit(slab, rightID) ELSE MetaSplit(slab)

Merge(left, right) == IF IsData(left) THEN DataMerge(left, right) ELSE MetaMerge(left, right)

LendToRight(left, right) ==
    IF IsData(left) THEN DataLendToRight(left, right) ELSE MetaLendToRight(left, right)

BorrowFromRight(left, right) ==
    IF IsData(left) THEN DataBorrowFromRight(left, right)
                    ELSE MetaBorrowFromRight(left, right)

CanLendToLeft(slab, need) ==
    IF IsData(slab) THEN DataCanLend(slab, slab.elements, need) ELSE MetaCanLend(slab, need)

CanLendToRight(slab, need) ==
    IF IsData(slab) THEN DataCanLend(slab, Reverse(slab.elements), need)
                    ELSE MetaCanLend(slab, need)
-----------------------------------------------------------------------------
(* Encoding.  Bytes leave out what can be worked out: a data slab's count  *)
(* and size, a metadata slab's count, size and cumulative counts.          *)

\* A header keeps two bytes of a child's size.
EncodedHeader(header) == [header EXCEPT !.size = @ % 65536]

EncodeDataSlab(slab) ==
    [kind |-> "data", extra |-> slab.extra, next |-> slab.next, elements |-> slab.elements]

EncodeMetaSlab(slab) ==
    [kind |-> "meta", extra |-> slab.extra,
     children |-> [i \in DOMAIN slab.children |-> EncodedHeader(slab.children[i])]]

EncodeSlab(slab) == IF IsData(slab) THEN EncodeDataSlab(slab) ELSE EncodeMetaSlab(slab)

newArrayDataSlabFromData(data) ==
    [DataSlab(data.elements, PrefixSize(data) + Total(data.elements), data.next)
       EXCEPT !.extra = data.extra]

newArrayMetaDataSlabFromData(data) ==
    [MetaSlab(data.children, ChildCount(data.children),
              MetaPrefixSize + HeaderSize * Len(data.children))
       EXCEPT !.extra = data.extra]

DecodeSlab(data) == IF IsData(data) THEN newArrayDataSlabFromData(data)
                                    ELSE newArrayMetaDataSlabFromData(data)

-----------------------------------------------------------------------------
(* What VerifyArray (array_verify.go) demands of one slab by itself.       *)

verifyDataSlab(slab) ==
    /\ Len(slab.elements) = slab.count
    /\ slab.size = PrefixSize(slab) + Total(slab.elements)
    /\ Range(slab.elements) \subseteq 1..MaxInlineElementSize

verifyMetaDataSlab(slab) ==
    /\ slab.countSum = CountSums(slab.children)
    /\ slab.count = ChildCount(slab.children)
    /\ slab.size = MetaPrefixSize + Len(slab.children) * HeaderSize
=============================================================================
