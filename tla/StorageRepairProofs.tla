------------------------ MODULE StorageRepairProofs -------------------------
(***************************************************************************)
(* Proofs about StorageRepair, for any number of slabs: iteration, health  *)
(* check and repair are exact.  All of them walk the graph of slabs, and   *)
(* what a walk reaches is the smallest set that contains where it starts   *)
(* and is closed under its edges.                                          *)
(***************************************************************************)
EXTENDS StorageRepair, TLAPS, FiniteSetTheorems, WellFoundedInduction

-----------------------------------------------------------------------------
(* Walks.                                                                  *)

\* A nonempty set of natural numbers has a smallest one.
LEMMA SmallestNumber ==
    ASSUME NEW S \in SUBSET Nat, S # {}
    PROVE  \E m \in S : \A n \in S : m <= n
  <1>1. PICK m \in S : \A n \in S : ~ (<<n, m>> \in OpToRel(<, Nat))
    BY NatLessThanWellFounded, WFMin
  <1>2. \A n \in S : ~ (n < m)
    BY <1>1 DEF OpToRel
  <1> QED  BY <1>2

\* The number of slabs.
Size == Cardinality(SlabID)

\* There are finitely many slabs.
LEMMA SizeIsNat == Size \in Nat
  BY GraphAssumption, FS_CardinalityType DEF Size

\* Edges go from slabs to slabs, and a rank goes up along them.
Edges == [SlabID -> SUBSET SlabID]

GoesUp(rank, edges) ==
    /\ rank \in [SlabID -> 1..Size]
    /\ \A x \in SlabID : \A y \in edges[x] : rank[y] > rank[x]

\* A way is a sequence of one to Size slabs.
LEMMA WayIs ==
    ASSUME NEW way
    PROVE  way \in Ways <=> way \in Seq(SlabID) /\ Len(way) \in 1..Size
  <1>1. ASSUME way \in Ways
        PROVE  way \in Seq(SlabID) /\ Len(way) \in 1..Size
    <2>1. PICK m \in 0..Size : way \in [1..m -> SlabID]
      BY <1>1 DEF Ways, SeqOf, Size
    <2>2. way \in Seq(SlabID) /\ Len(way) = m
      BY <2>1, SizeIsNat
    <2>3. m # 0
      BY <1>1, <2>2 DEF Ways
    <2> QED  BY <2>2, <2>3, SizeIsNat
  <1>2. ASSUME way \in Seq(SlabID), Len(way) \in 1..Size
        PROVE  way \in Ways
    <2>1. way \in [1..Len(way) -> SlabID] /\ Len(way) \in 0..Size /\ way # <<>>
      BY <1>2, SizeIsNat
    <2> QED  BY <2>1 DEF Ways, SeqOf, Size
  <1> QED  BY <1>1, <1>2

\* The elements of a way.
LEMMA WayParts ==
    ASSUME NEW edges, NEW from, NEW way \in WaysThrough(edges, from)
    PROVE  /\ way \in Seq(SlabID) /\ Len(way) \in 1..Size /\ Len(way) \in Nat
           /\ \A i \in 1..Len(way) : way[i] \in SlabID
           /\ way[1] \in from /\ Last(way) = way[Len(way)]
           /\ \A i \in 1..(Len(way) - 1) : way[i+1] \in edges[way[i]]
  <1>1. way \in Ways
    BY DEF WaysThrough
  <1>2. way \in Seq(SlabID) /\ Len(way) \in 1..Size
    BY <1>1, WayIs
  <1> QED  BY <1>2, SizeIsNat DEF WaysThrough, Last

\* A walk reaches slabs only.
LEMMA ReachedAreSlabs ==
    ASSUME NEW edges, NEW from
    PROVE  Reached(edges, from) \subseteq SlabID
  <1> SUFFICES ASSUME NEW way \in WaysThrough(edges, from) PROVE Last(way) \in SlabID
    BY DEF Reached
  <1> QED  BY WayParts

\* A walk reaches where it starts.
LEMMA ReachesStart ==
    ASSUME NEW edges, NEW from \in SUBSET SlabID, NEW x \in from
    PROVE  x \in Reached(edges, from)
  <1>1. <<x>> \in Seq(SlabID) /\ Len(<<x>>) = 1 /\ <<x>>[1] = x
    OBVIOUS
  <1>2. Size # 0
    BY GraphAssumption, FS_EmptySet DEF Size
  <1> DEFINE w == <<x>>
  <1>3. w \in Seq(SlabID) /\ Len(w) = 1 /\ w[1] = x
    BY <1>1
  <1> HIDE DEF w
  <1>4. Len(w) \in 1..Size
    BY <1>2, <1>3, SizeIsNat
  <1>5. w \in Ways
    BY <1>3, <1>4, WayIs
  <1>6. w \in WaysThrough(edges, from) /\ Last(w) = x
    BY <1>3, <1>5 DEF WaysThrough, Last
  <1> QED  BY <1>6 DEF Reached

\* Along a way the rank is at least the number of steps.
LEMMA RankOfEnd ==
    ASSUME NEW edges \in Edges, NEW from \in SUBSET SlabID,
           NEW rank, GoesUp(rank, edges), NEW way \in WaysThrough(edges, from)
    PROVE  Len(way) <= rank[Last(way)]
  <1> DEFINE Bad == {i \in 1..Len(way) : ~ (i <= rank[way[i]])}
  <1>1. /\ Len(way) \in 1..Size /\ Len(way) \in Nat /\ Last(way) = way[Len(way)]
        /\ \A i \in 1..Len(way) : way[i] \in SlabID
        /\ \A i \in 1..(Len(way) - 1) : way[i+1] \in edges[way[i]]
    BY WayParts
  <1>2. \A i \in 1..Len(way) : rank[way[i]] \in 1..Size
    BY <1>1 DEF GoesUp
  <1>3. Bad = {}
    <2> SUFFICES ASSUME Bad # {} PROVE FALSE
      OBVIOUS
    <2>0. Bad \in SUBSET Nat
      BY <1>1
    <2> HIDE DEF Bad
    <2>1. PICK m \in Bad : \A n \in Bad : m <= n
      BY <2>0, SmallestNumber
    <2>2. m \in 1..Len(way) /\ ~ (m <= rank[way[m]])
      BY <2>1 DEF Bad
    <2>3. m # 1
      BY <1>1, <1>2, <2>2, SizeIsNat
    <2> DEFINE k == m - 1
    <2>4. k \in 1..(Len(way) - 1) /\ k \in 1..Len(way) /\ ~ (m <= k) /\ m = k + 1
      BY <1>1, <2>2, <2>3
    <2> HIDE DEF k
    <2>5. k <= rank[way[k]]
      BY <2>1, <2>4 DEF Bad
    <2>6. rank[way[m]] > rank[way[k]]
      BY <1>1, <2>4 DEF GoesUp
    <2> QED  BY <1>2, <2>2, <2>4, <2>5, <2>6, SizeIsNat
  <1>4. Len(way) \in 1..Len(way)
    BY <1>1
  <1> QED  BY <1>1, <1>3, <1>4

\* A walk goes on along the edges.
LEMMA ReachesOn ==
    ASSUME NEW edges \in Edges, NEW from \in SUBSET SlabID,
           NEW rank, GoesUp(rank, edges),
           NEW x \in Reached(edges, from), NEW y \in edges[x]
    PROVE  y \in Reached(edges, from)
  <1>1. PICK way \in WaysThrough(edges, from) : x = Last(way)
    BY DEF Reached
  <1> DEFINE n == Len(way)
             new == Append(way, y)
  <1>2. /\ way \in Seq(SlabID) /\ n \in 1..Size /\ n \in Nat /\ way[1] \in from /\ x = way[n]
        /\ x \in SlabID
        /\ \A i \in 1..(n - 1) : way[i+1] \in edges[way[i]]
    BY <1>1, WayParts
  <1>3. y \in SlabID
    BY <1>2 DEF Edges
  <1>4. n <= rank[x]
    BY <1>1, RankOfEnd
  <1>5. n + 1 <= Size
    <2>1. rank[y] > rank[x] /\ rank[x] \in 1..Size /\ rank[y] \in 1..Size
      BY <1>2, <1>3 DEF GoesUp
    <2> QED  BY <1>2, <1>4, <2>1, SizeIsNat
  <1>6. /\ new \in Seq(SlabID) /\ Len(new) = n + 1 /\ new[n+1] = y
        /\ \A i \in 1..n : new[i] = way[i]
    BY <1>2, <1>3
  <1> HIDE DEF new, n
  <1>7. new \in Ways
    BY <1>2, <1>5, <1>6, WayIs
  <1>8. new[1] \in from /\ Last(new) = y
    BY <1>2, <1>6 DEF Last
  <1>9. \A i \in 1..(Len(new) - 1) : new[i+1] \in edges[new[i]]
    <2> TAKE i \in 1..(Len(new) - 1)
    <2>1. i \in 1..n
      BY <1>2, <1>6
    <2>2. CASE i = n
      BY <1>2, <1>6, <2>1, <2>2
    <2>3. CASE i # n
      <3>1. i \in 1..(n - 1) /\ i + 1 \in 1..n
        BY <1>2, <2>1, <2>3
      <3> QED  BY <1>2, <1>6, <2>1, <3>1
    <2> QED  BY <2>2, <2>3
  <1>10. new \in WaysThrough(edges, from)
    BY <1>7, <1>8, <1>9 DEF WaysThrough
  <1> QED  BY <1>8, <1>10 DEF Reached

\* All slabs on a way are reached.
LEMMA OnTheWay ==
    ASSUME NEW edges \in Edges, NEW from \in SUBSET SlabID, NEW rank, GoesUp(rank, edges),
           NEW way \in WaysThrough(edges, from), NEW i \in 1..Len(way)
    PROVE  way[i] \in Reached(edges, from)
  <1> DEFINE R   == Reached(edges, from)
             Bad == {n \in Nat : n \in 1..Len(way) /\ way[n] \notin R}
  <1>1. /\ Len(way) \in Nat /\ way[1] \in from
        /\ \A n \in 1..(Len(way) - 1) : way[n+1] \in edges[way[n]]
    BY WayParts
  <1>2. SUFFICES ASSUME way[i] \notin R PROVE FALSE
    OBVIOUS
  <1>3. Bad # {} /\ Bad \in SUBSET Nat
    BY <1>1, <1>2
  <1>4. PICK n \in Bad : \A m \in Bad : n <= m
    <2> HIDE DEF Bad
    <2> QED  BY <1>3, SmallestNumber
  <1>5. n # 1
    BY <1>1, <1>4, ReachesStart
  <1>6. (n - 1) \in 1..(Len(way) - 1) /\ (n - 1) \in Nat /\ (n - 1) + 1 = n
    BY <1>1, <1>4, <1>5
  <1>7. way[n-1] \in R
    BY <1>1, <1>4, <1>6
  <1>8. way[n] \in edges[way[n-1]]
    BY <1>1, <1>6
  <1>9. way[n] \in R
    BY <1>7, <1>8, ReachesOn
  <1> QED  BY <1>4, <1>9

\* A walk stays in every set that it starts in and that its edges do not leave.
LEMMA ReachesLeast ==
    ASSUME NEW edges, NEW from, NEW S, from \subseteq S,
           \A x \in S \cap SlabID : edges[x] \subseteq S
    PROVE  Reached(edges, from) \subseteq S
  <1> SUFFICES ASSUME NEW way \in WaysThrough(edges, from) PROVE Last(way) \in S
    BY DEF Reached
  <1> DEFINE Bad == {i \in 1..Len(way) : way[i] \notin S}
  <1>1. /\ Len(way) \in Nat /\ Len(way) \in 1..Len(way) /\ Last(way) = way[Len(way)]
        /\ way[1] \in from
        /\ \A i \in 1..Len(way) : way[i] \in SlabID
        /\ \A i \in 1..(Len(way) - 1) : way[i+1] \in edges[way[i]]
    BY WayParts, SizeIsNat
  <1>2. Bad = {}
    <2> SUFFICES ASSUME Bad # {} PROVE FALSE
      OBVIOUS
    <2>0. Bad \in SUBSET Nat
      BY <1>1
    <2> HIDE DEF Bad
    <2>1. PICK m \in Bad : \A n \in Bad : m <= n
      BY <2>0, SmallestNumber
    <2>2. m \in 1..Len(way) /\ way[m] \notin S
      BY <2>1 DEF Bad
    <2>3. m # 1
      BY <1>1, <2>2
    <2> DEFINE k == m - 1
    <2>4. k \in 1..(Len(way) - 1) /\ k \in 1..Len(way) /\ ~ (m <= k) /\ m = k + 1
      BY <1>1, <2>2, <2>3
    <2> HIDE DEF k
    <2>5. way[k] \in S \cap SlabID
      BY <1>1, <2>1, <2>4 DEF Bad
    <2> QED  BY <1>1, <2>2, <2>4, <2>5
  <1> QED  BY <1>1, <1>2

\* What a walk reaches it starts from, or comes to along an edge.
LEMMA ReachesBack ==
    ASSUME NEW edges \in Edges, NEW from \in SUBSET SlabID,
           NEW rank, GoesUp(rank, edges), NEW y \in Reached(edges, from), y \notin from
    PROVE  \E x \in Reached(edges, from) : y \in edges[x]
  <1> DEFINE R == Reached(edges, from)
             S == {z \in R : z \in from \/ \E x \in R : z \in edges[x]}
  <1>1. from \subseteq S
    BY ReachesStart
  <1>2. \A x \in S \cap SlabID : edges[x] \subseteq S
    BY ReachesOn
  <1>3. R \subseteq S
    <2> HIDE DEF S
    <2> QED  BY <1>1, <1>2, ReachesLeast
  <1> QED  BY <1>3

\* A walk that starts in part of another one reaches part of it.
LEMMA ReachesLess ==
    ASSUME NEW edges \in Edges, NEW from \in SUBSET SlabID,
           NEW rank, GoesUp(rank, edges), NEW start, start \subseteq Reached(edges, from)
    PROVE  Reached(edges, start) \subseteq Reached(edges, from)
  <1> DEFINE S == Reached(edges, from)
  <1>1. start \subseteq S
    OBVIOUS
  <1>2. \A x \in S \cap SlabID : edges[x] \subseteq S
    BY ReachesOn
  <1> HIDE DEF S
  <1>3. Reached(edges, start) \subseteq S
    BY <1>1, <1>2, ReachesLeast
  <1> QED  BY <1>3 DEF S

\* A walk that starts at one slab is there, or goes on as a walk from the next.
LEMMA ReachesFromOne ==
    ASSUME NEW edges \in Edges, NEW rank, GoesUp(rank, edges), NEW x \in SlabID
    PROVE  /\ x \in Reached(edges, {x})
           /\ Reached(edges, {x}) = {x} \cup Reached(edges, edges[x])
  <1> DEFINE S == {x} \cup Reached(edges, edges[x])
  <1>0. edges[x] \in SUBSET SlabID /\ {x} \in SUBSET SlabID
    BY DEF Edges
  <1>1. x \in Reached(edges, {x})
    BY <1>0, ReachesStart
  <1>2. edges[x] \subseteq Reached(edges, {x})
    BY <1>0, <1>1, ReachesOn
  <1>3. Reached(edges, edges[x]) \subseteq Reached(edges, {x})
    BY <1>0, <1>2, ReachesLess
  <1>4. \A z \in S \cap SlabID : edges[z] \subseteq S
    <2> TAKE z \in S \cap SlabID
    <2>1. CASE z = x
      BY <1>0, <2>1, ReachesStart
    <2>2. CASE z \in Reached(edges, edges[x])
      BY <1>0, <2>2, ReachesOn
    <2> QED  BY <2>1, <2>2
  <1>5. {x} \subseteq S
    OBVIOUS
  <1>6. Reached(edges, {x}) \subseteq S
    <2> HIDE DEF S
    <2> QED  BY <1>4, <1>5, ReachesLeast
  <1> QED  BY <1>1, <1>3, <1>6

\* No walk comes back to where it started.
LEMMA ReachesNotBack ==
    ASSUME NEW edges \in Edges, NEW rank, GoesUp(rank, edges), NEW x \in SlabID
    PROVE  x \notin Reached(edges, edges[x])
  <1> DEFINE S == {y \in SlabID : rank[y] > rank[x]}
  <1>1. edges[x] \subseteq S
    BY DEF Edges, GoesUp
  <1>2. ASSUME NEW y \in S \cap SlabID, NEW z \in edges[y]
        PROVE  z \in S
    <2>1. z \in SlabID /\ rank[z] > rank[y] /\ rank[y] > rank[x]
      BY <1>2 DEF Edges, GoesUp
    <2>2. rank[x] \in Int /\ rank[y] \in Int /\ rank[z] \in Int
      BY <2>1, SizeIsNat DEF GoesUp
    <2> QED  BY <2>1, <2>2
  <1>3. rank[x] \in Int
    BY SizeIsNat DEF GoesUp
  <1>4. x \notin S
    BY <1>3
  <1>5. Reached(edges, edges[x]) \subseteq S
    <2> HIDE DEF S
    <2> QED  BY <1>1, <1>2, ReachesLeast
  <1> QED  BY <1>4, <1>5

\* Without its last step a way is a way.
LEMMA FrontOfWay ==
    ASSUME NEW edges, NEW from, NEW way \in WaysThrough(edges, from), Len(way) # 1
    PROVE  /\ Front(way) \in WaysThrough(edges, from) /\ Len(Front(way)) = Len(way) - 1
           /\ Last(way) \in edges[Last(Front(way))]
           /\ \A i \in 1..(Len(way) - 1) : way[i] = Front(way)[i]
  <1> DEFINE n == Len(way) - 1
             f == Front(way)
  <1>1. /\ way \in Seq(SlabID) /\ Len(way) \in 1..Size /\ Len(way) \in Nat
        /\ way[1] \in from /\ Last(way) = way[Len(way)]
        /\ \A i \in 1..(Len(way) - 1) : way[i+1] \in edges[way[i]]
    BY WayParts
  <1>2. n \in 1..Size /\ n \in 1..Len(way) /\ n + 1 = Len(way) /\ n \in 1..n /\ 1 \in 1..n /\ n \in Nat
    <2> DEFINE k == Len(way)
    <2>1. k \in 1..Size /\ k # 1
      BY <1>1
    <2> HIDE DEF k
    <2>2. k - 1 \in 1..Size /\ k - 1 \in 1..k /\ (k - 1) + 1 = k /\ k - 1 \in Nat /\ 1 \in 1..(k - 1)
          /\ k - 1 \in 1..(k - 1)
      BY <2>1, SizeIsNat
    <2> QED  BY <2>2 DEF k
  <1>3. f \in Seq(SlabID) /\ Len(f) = n /\ \A i \in 1..n : f[i] = way[i]
    BY <1>1, <1>2 DEF Front
  <1> HIDE DEF f, n
  <1>4. f \in Ways
    BY <1>2, <1>3, WayIs
  <1>5. f[1] \in from /\ Last(f) = way[n]
    BY <1>1, <1>2, <1>3 DEF Last
  <1>6. \A i \in 1..(Len(f) - 1) : f[i+1] \in edges[f[i]]
    <2> TAKE i \in 1..(Len(f) - 1)
    <2>1. i \in 1..n /\ i + 1 \in 1..n /\ i \in 1..(Len(way) - 1)
      BY <1>2, <1>3
    <2> QED  BY <1>1, <1>3, <2>1
  <1>7. f \in WaysThrough(edges, from)
    BY <1>4, <1>5, <1>6 DEF WaysThrough
  <1>8. Last(way) \in edges[way[n]]
    BY <1>1, <1>2 DEF n
  <1> QED  BY <1>3, <1>5, <1>7, <1>8 DEF f, n

\* Where every slab is entered by one edge at most, and none that the walk
\* starts from, there is one way to each slab.
LEMMA OneWay ==
    ASSUME NEW edges \in Edges, NEW from \in SUBSET SlabID,
           \A x \in from : \A y \in SlabID : x \notin edges[y],
           \A x, y \in Reached(edges, from) : edges[x] \cap edges[y] # {} => x = y,
           NEW v \in WaysThrough(edges, from), NEW w \in WaysThrough(edges, from),
           Last(v) = Last(w)
    PROVE  v = w
  <1> DEFINE W == WaysThrough(edges, from)
             Bad == {n \in Nat : \E a, b \in W : Len(a) = n /\ Last(a) = Last(b) /\ a # b}
  <1>1. Bad = {}
    <2> SUFFICES ASSUME Bad # {} PROVE FALSE
      OBVIOUS
    <2>0. Bad \in SUBSET Nat
      OBVIOUS
    <2>1. PICK n \in Bad : \A m \in Bad : n <= m
      <3> HIDE DEF Bad
      <3> QED  BY <2>0, SmallestNumber
    <2>2. PICK a \in W, b \in W : Len(a) = n /\ Last(a) = Last(b) /\ a # b
      BY <2>1
    <2> HIDE DEF Bad
    <2>3. /\ a \in Seq(SlabID) /\ Len(a) \in Nat /\ Len(a) \in 1..Size
          /\ a[1] \in from /\ Last(a) = a[Len(a)]
          /\ \A i \in 1..Len(a) : a[i] \in SlabID
          /\ \A i \in 1..(Len(a) - 1) : a[i+1] \in edges[a[i]]
      BY WayParts
    <2>4. /\ b \in Seq(SlabID) /\ Len(b) \in Nat /\ Len(b) \in 1..Size
          /\ b[1] \in from /\ Last(b) = b[Len(b)]
          /\ \A i \in 1..Len(b) : b[i] \in SlabID
          /\ \A i \in 1..(Len(b) - 1) : b[i+1] \in edges[b[i]]
      BY WayParts
    <2>5. ASSUME Len(a) = 1, Len(b) = 1
          PROVE  FALSE
      <3>1. a[1] = b[1]
        BY <2>2, <2>3, <2>4, <2>5
      <3>2. a = b
        BY <2>3, <2>4, <2>5, <3>1
      <3> QED  BY <2>2, <3>2
    <2>6. ASSUME Len(a) = 1, Len(b) # 1
          PROVE  FALSE
      <3>1. Last(b) \in edges[Last(Front(b))] /\ Last(Front(b)) \in Reached(edges, from)
        BY <2>6, FrontOfWay DEF Reached
      <3>2. Last(a) \in from
        BY <2>3, <2>6
      <3> QED  BY <2>2, <3>1, <3>2, ReachedAreSlabs
    <2>7. ASSUME Len(a) # 1, Len(b) = 1
          PROVE  FALSE
      <3>1. Last(a) \in edges[Last(Front(a))] /\ Last(Front(a)) \in Reached(edges, from)
        BY <2>7, FrontOfWay DEF Reached
      <3>2. Last(b) \in from
        BY <2>4, <2>7
      <3> QED  BY <2>2, <3>1, <3>2, ReachedAreSlabs
    <2>8. ASSUME Len(a) # 1, Len(b) # 1
          PROVE  FALSE
      <3>1. /\ Front(a) \in W /\ Len(Front(a)) = Len(a) - 1
            /\ Last(a) \in edges[Last(Front(a))]
            /\ \A i \in 1..(Len(a) - 1) : a[i] = Front(a)[i]
        BY <2>8, FrontOfWay
      <3>2. /\ Front(b) \in W /\ Len(Front(b)) = Len(b) - 1
            /\ Last(b) \in edges[Last(Front(b))]
            /\ \A i \in 1..(Len(b) - 1) : b[i] = Front(b)[i]
        BY <2>8, FrontOfWay
      <3>3. Last(Front(a)) \in Reached(edges, from) /\ Last(Front(b)) \in Reached(edges, from)
        BY <3>1, <3>2 DEF Reached
      <3>4. Last(Front(a)) = Last(Front(b))
        BY <2>2, <3>1, <3>2, <3>3
      <3>5. Len(a) - 1 \in Nat /\ ~ (n <= Len(a) - 1)
        BY <2>2, <2>3, SizeIsNat
      <3>6. Len(a) - 1 \notin Bad
        BY <2>1, <3>5
      <3>7. Front(a) = Front(b)
        BY <3>1, <3>2, <3>4, <3>5, <3>6 DEF Bad
      <3>8. Len(a) = Len(b)
        BY <2>3, <2>4, <3>1, <3>2, <3>7
      <3>9. \A i \in 1..Len(a) : a[i] = b[i]
        <4> TAKE i \in 1..Len(a)
        <4>1. CASE i = Len(a)
          BY <2>2, <2>3, <2>4, <3>8, <4>1
        <4>2. CASE i # Len(a)
          <5>1. i \in 1..(Len(a) - 1)
            BY <2>3, <4>2
          <5> QED  BY <3>1, <3>2, <3>7, <3>8, <5>1
        <4> QED  BY <4>1, <4>2
      <3>10. a = b
        BY <2>3, <2>4, <3>8, <3>9
      <3> QED  BY <2>2, <3>10
    <2> QED  BY <2>5, <2>6, <2>7, <2>8
  <1>2. Len(v) \in Nat
    BY WayParts
  <1> QED  BY <1>1, <1>2

-----------------------------------------------------------------------------
(* The graph.                                                              *)

Entries == [SlabID -> Slab \cup {Nil, Absent}]

\* A set with at most one element.
LEMMA AtMostOne ==
    ASSUME NEW S \in SUBSET SlabID, Cardinality(S) <= 1, NEW x \in S, NEW y \in S
    PROVE  x = y
  <1>1. IsFiniteSet(S)
    BY GraphAssumption, FS_Subset
  <1>2. Cardinality(S) \in Nat /\ IsFiniteSet(S \ {x}) /\ Cardinality(S \ {x}) = Cardinality(S) - 1
    BY <1>1, FS_CardinalityType, FS_RemoveElement
  <1>3. Cardinality(S \ {x}) = 0
    BY <1>2, FS_CardinalityType
  <1>4. S \ {x} = {}
    BY <1>2, <1>3, FS_EmptySet
  <1> QED  BY <1>4

\* The fields of a slab.
LEMMA SlabFields ==
    ASSUME NEW slab \in Slab
    PROVE  /\ slab \notin {Nil, Absent} /\ slab.refs \in SUBSET SlabID
           /\ slab.meta \in BOOLEAN /\ slab.root \in BOOLEAN
  BY GraphAssumption DEF Slab

\* What is found is a slab.
LEMMA FoundIsSlab ==
    ASSUME SlabsAreTyped, NEW d \in Entries, NEW id \in SlabID
    PROVE  FoundIn(d, id) <=> RetrieveIn(d, id) \in Slab
  <1>1. RetrieveIn(d, id) \in Slab \cup {Nil, Absent}
    BY DEF Entries, SlabsAreTyped, RetrieveIn, LoadedIn
  <1> QED  BY <1>1, SlabFields DEF FoundIn

\* Deltas hold slabs, or nothing, for slab IDs.
LEMMA DeltasAreEntries ==
    ASSUME SlabsAreTyped
    PROVE  deltas \in Entries
  BY DEF SlabsAreTyped, Entries

\* The edges to children.
LEMMA ChildrenAre ==
    ASSUME SlabsAreTyped, NEW d \in Entries
    PROVE  /\ Children(d) \in Edges
           /\ \A id \in SlabID : Children(d)[id] = IF FoundIn(d, id) THEN RetrieveIn(d, id).refs ELSE {}
  <1>1. \A id \in SlabID : FoundIn(d, id) => RetrieveIn(d, id).refs \in SUBSET SlabID
    BY FoundIsSlab, SlabFields
  <1> QED  BY <1>1 DEF Children, Edges

\* The graph of a storage, and its rank.
LEMMA GraphIs ==
    ASSUME GraphInv
    PROVE  /\ Children(deltas) \in Edges
           /\ \A id \in SlabID : Children(deltas)[id] = IF Found(id) THEN Retrieve(id).refs ELSE {}
           /\ \A id \in Slabs : /\ id \in SlabID /\ Found(id) /\ Retrieve(id) \in Slab
                                /\ Children(deltas)[id] = Retrieve(id).refs
                                /\ Retrieve(id).refs \in SUBSET SlabID
           /\ \E rank : GoesUp(rank, Children(deltas))
  <1>1. SlabsAreTyped /\ deltas \in Entries
    BY DeltasAreEntries DEF GraphInv
  <1>2. /\ Children(deltas) \in Edges
        /\ \A id \in SlabID : Children(deltas)[id] = IF Found(id) THEN Retrieve(id).refs ELSE {}
    BY <1>1, ChildrenAre DEF Found, Retrieve
  <1>3. \A id \in Slabs : id \in SlabID /\ Found(id) /\ Retrieve(id) \in Slab
    BY <1>1, FoundIsSlab DEF Slabs, Found, Retrieve
  <1>4. \A id \in Slabs : Retrieve(id).refs \in SUBSET SlabID
    BY <1>3, SlabFields
  <1>5. \E rank : GoesUp(rank, Children(deltas))
    <2>1. PICK rank \in [SlabID -> 1..Cardinality(SlabID)] :
             \A id \in Slabs : \A ref \in Retrieve(id).refs : rank[ref] > rank[id]
      BY DEF GraphInv, NoSlabLeadsToItself
    <2>2. GoesUp(rank, Children(deltas))
      BY <1>2, <2>1 DEF GoesUp, Size, Slabs
    <2> QED  BY <2>2
  <1> QED  BY <1>2, <1>3, <1>4, <1>5

\* What is loaded is found, and what is found and in memory is loaded.
LEMMA LoadedIsFound ==
    ASSUME SlabsAreTyped
    PROVE  /\ Loaded \subseteq Slabs
           /\ \A id \in Loaded : HasEntry(id) /\ Retrieve(id) = RetrieveIfLoaded(id)
           /\ \A id \in Slabs : HasEntry(id) => id \in Loaded
           /\ \A id \in SlabID : existIfLoaded(id) <=> id \in Loaded
  <1>1. deltas \in Entries
    BY DeltasAreEntries
  <1>2. \A id \in Loaded : HasEntry(id) /\ Retrieve(id) = RetrieveIfLoaded(id) /\ id \in SlabID
    BY SlabFields DEF Loaded, HasEntry, Retrieve, RetrieveIn, RetrieveIfLoaded
  <1>3. \A id \in Loaded : id \in Slabs
    BY <1>1, <1>2, FoundIsSlab DEF Loaded, Slabs, Found, Retrieve
  <1>4. ASSUME NEW id \in Slabs, HasEntry(id) PROVE id \in Loaded
    <2>1. id \in SlabID /\ Retrieve(id) \in Slab
      BY <1>1, FoundIsSlab DEF Slabs, Found, Retrieve
    <2>2. Retrieve(id) = RetrieveIfLoaded(id)
      BY <1>4 DEF HasEntry, RetrieveIfLoaded, Retrieve, RetrieveIn
    <2> QED  BY <2>1, <2>2 DEF Loaded
  <1>5. ASSUME NEW id \in SlabID PROVE existIfLoaded(id) <=> id \in Loaded
    <2>1. RetrieveIfLoaded(id) \in Slab \cup {Nil, Absent}
      BY DEF SlabsAreTyped, RetrieveIfLoaded, LoadedIn
    <2> QED  BY <2>1, SlabFields DEF existIfLoaded, Loaded
  <1> QED  BY <1>2, <1>3, <1>4, <1>5

\* Below is what the walk from a slab's references finds.
LEMMA BelowIs ==
    ASSUME GraphInv, NEW id \in Slabs
    PROVE  /\ Below(id) = {x \in Reached(Children(deltas), Children(deltas)[id]) : Found(x)}
           /\ Below(id) \subseteq Slabs
  <1>1. Children(deltas)[id] = Retrieve(id).refs
    BY GraphIs
  <1> QED  BY <1>1, ReachedAreSlabs DEF Below, getAllChildReferences, Found, Slabs

\* The walk of SlabIterator.
LEMMA IteratorIs ==
    ASSUME GraphInv
    PROVE  /\ appendChildStorables \in Edges
           /\ \A x, y \in SlabID :
                 y \in appendChildStorables[x] <=> y \in Children(deltas)[x] /\ ~ HasEntry(y)
           /\ \E rank : GoesUp(rank, appendChildStorables) /\ GoesUp(rank, Children(deltas))
           /\ Loaded \in SUBSET SlabID
           /\ SlabIterator.visits = WaysThrough(appendChildStorables, Loaded)
           /\ SlabIterator.ids = Reached(appendChildStorables, Loaded)
           /\ SlabIterator.err <=> ~ (SlabIterator.ids \subseteq Slabs)
  <1>1. \A x \in SlabID : appendChildStorables[x] = {ref \in Children(deltas)[x] : ~ HasEntry(ref)}
    BY DEF appendChildStorables, NotInMemory
  <1>2. appendChildStorables \in Edges
    BY <1>1, GraphIs DEF Edges, appendChildStorables
  <1>3. \A x, y \in SlabID : y \in appendChildStorables[x] <=> y \in Children(deltas)[x] /\ ~ HasEntry(y)
    BY <1>1
  <1>4. PICK rank : GoesUp(rank, Children(deltas))
    BY GraphIs
  <1>5. GoesUp(rank, appendChildStorables)
    BY <1>1, <1>4 DEF GoesUp
  <1>6. /\ SlabIterator.visits = WaysThrough(appendChildStorables, Loaded)
        /\ SlabIterator.ids = Reached(appendChildStorables, Loaded)
        /\ SlabIterator.err <=> \E visit \in WaysThrough(appendChildStorables, Loaded) : ~ Found(Last(visit))
    BY DEF SlabIterator, Reached
  <1>7. SlabIterator.err <=> ~ (SlabIterator.ids \subseteq Slabs)
    BY <1>6, ReachedAreSlabs DEF Reached, Slabs
  <1>8. Loaded \in SUBSET SlabID
    BY DEF Loaded
  <1> QED  BY <1>2, <1>3, <1>4, <1>5, <1>6, <1>7, <1>8

-----------------------------------------------------------------------------
(* SlabIterator.                                                           *)

\* Iteration is exact wherever the graph is what the invariant says.
LEMMA IterationLemma ==
    ASSUME GraphInv
    PROVE  IterationIsExact
  <1> SUFFICES ASSUME Forest, \A id \in Slabs : Retrieve(id).refs \subseteq Slabs
               PROVE  /\ ~ SlabIterator.err
                      /\ SlabIterator.ids = UNION {{id} \cup Below(id) : id \in Loaded}
                      /\ ~ Twice(SlabIterator.visits)
    BY DEF IterationIsExact
  <1> DEFINE C == Children(deltas)
             E == appendChildStorables
             R == Reached(E, Loaded)
             U == UNION {{id} \cup Below(id) : id \in Loaded}
  <1>1. /\ C \in Edges /\ \A id \in SlabID : C[id] = IF Found(id) THEN Retrieve(id).refs ELSE {}
        /\ \A id \in Slabs : C[id] = Retrieve(id).refs /\ id \in SlabID
    BY GraphIs
  <1>2. /\ E \in Edges /\ Loaded \in SUBSET SlabID
        /\ \A x, y \in SlabID : y \in E[x] <=> y \in C[x] /\ ~ HasEntry(y)
        /\ SlabIterator.visits = WaysThrough(E, Loaded)
        /\ SlabIterator.ids = R
        /\ SlabIterator.err <=> ~ (R \subseteq Slabs)
    BY IteratorIs
  <1>3. PICK rank : GoesUp(rank, E) /\ GoesUp(rank, C)
    BY IteratorIs
  <1>4. /\ Loaded \subseteq Slabs /\ \A id \in Loaded : HasEntry(id)
        /\ \A id \in Slabs : HasEntry(id) => id \in Loaded
    BY LoadedIsFound DEF GraphInv
  <1>5. \A x \in SlabID : \A y \in C[x] : x \in Slabs /\ y \in Slabs /\ y \in SlabID
    BY <1>1 DEF Slabs
  <1>6. \A x \in SlabID : \A y \in E[x] : y \in C[x] /\ ~ HasEntry(y)
    BY <1>2 DEF Edges
  <1> HIDE DEF C, E
  <1>7. R \subseteq Slabs
    <2>1. \A x \in Slabs \cap SlabID : E[x] \subseteq Slabs
      BY <1>5, <1>6
    <2> QED  BY <1>4, <2>1, ReachesLeast
  <1>8. ASSUME NEW id \in Loaded
        PROVE  Below(id) = Reached(C, C[id]) /\ C[id] \in SUBSET SlabID
    <2>1. id \in Slabs /\ id \in SlabID
      BY <1>2, <1>4
    <2>2. Below(id) = {x \in Reached(C, C[id]) : Found(x)}
      BY <2>1, BelowIs DEF C
    <2>3. C[id] \subseteq Slabs
      BY <1>5, <2>1
    <2>4. Reached(C, C[id]) \subseteq Slabs
      <3>1. \A x \in Slabs \cap SlabID : C[x] \subseteq Slabs
        BY <1>5
      <3> QED  BY <2>3, <3>1, ReachesLeast
    <2> QED  BY <1>1, <2>1, <2>2, <2>4 DEF Slabs, Edges
  <1>9. R \subseteq U
    <2>1. Loaded \subseteq U
      OBVIOUS
    <2>2. ASSUME NEW x \in U \cap SlabID, NEW y \in E[x]
          PROVE  y \in U
      <3>1. PICK id \in Loaded : x \in {id} \cup Below(id)
        OBVIOUS
      <3>2. y \in C[x] /\ id \in SlabID
        BY <1>2, <1>6, <2>2
      <3>3. y \in Reached(C, C[id])
        <4>1. CASE x = id
          BY <1>1, <1>8, <3>1, <3>2, <4>1, ReachesStart
        <4>2. CASE x \in Below(id)
          BY <1>1, <1>3, <1>8, <3>1, <3>2, <4>2, ReachesOn
        <4> QED  BY <3>1, <4>1, <4>2
      <3> QED  BY <1>8, <3>1, <3>3
    <2> HIDE DEF U
    <2> QED  BY <2>1, <2>2, ReachesLeast
  <1>10. U \subseteq R
    <2> SUFFICES ASSUME NEW id \in Loaded PROVE id \in R /\ Below(id) \subseteq R
      OBVIOUS
    <2>1. id \in R /\ id \in SlabID
      BY <1>2, ReachesStart
    <2>2. ASSUME NEW y \in R \cap SlabID, NEW z \in C[y]
          PROVE  z \in R
      <3>1. z \in Slabs /\ z \in SlabID
        BY <1>5
      <3>2. CASE HasEntry(z)
        <4>1. z \in Loaded
          BY <1>4, <3>1, <3>2
        <4> QED  BY <1>2, <4>1, ReachesStart
      <3>3. CASE ~ HasEntry(z)
        <4>1. z \in E[y]
          BY <1>2, <3>1, <3>3
        <4> QED  BY <1>2, <1>3, <4>1, ReachesOn
      <3> QED  BY <3>2, <3>3
    <2>3. C[id] \subseteq R
      BY <2>1, <2>2
    <2>4. Reached(C, C[id]) \subseteq R
      <3> HIDE DEF R
      <3> QED  BY <2>2, <2>3, ReachesLeast
    <2> QED  BY <1>8, <2>1, <2>4
  <1>11. \A x \in Loaded : \A y \in SlabID : x \notin E[y]
    BY <1>4, <1>6
  <1>12. ASSUME NEW x \in R, NEW y \in R, E[x] \cap E[y] # {}
         PROVE  x = y
    <2>1. PICK z : z \in E[x] /\ z \in E[y]
      BY <1>12
    <2>2. x \in SlabID /\ y \in SlabID
      BY ReachedAreSlabs
    <2>3. z \in C[x] /\ z \in C[y] /\ z \in Slabs /\ x \in Slabs /\ y \in Slabs
      BY <1>5, <1>6, <2>1, <2>2
    <2>4. x \in Referrers(z) /\ y \in Referrers(z) /\ Referrers(z) \in SUBSET SlabID
      BY <1>1, <2>3 DEF Referrers, C, Slabs
    <2>5. Cardinality(Referrers(z)) <= 1
      BY <2>3 DEF Forest
    <2> QED  BY <2>4, <2>5, AtMostOne
  <1>13. ~ Twice(SlabIterator.visits)
    <2> HIDE DEF R
    <2>1. \A x, y \in Reached(E, Loaded) : E[x] \cap E[y] # {} => x = y
      BY <1>12 DEF R
    <2>2. \A v, w \in WaysThrough(E, Loaded) : Last(v) = Last(w) => v = w
      BY <1>2, <1>11, <2>1, OneWay
    <2>3. \A v \in WaysThrough(E, Loaded) : \A i \in 1..(Len(v) - 1) : v[i] \in Slabs
      <3> TAKE v \in WaysThrough(E, Loaded)
      <3> TAKE i \in 1..(Len(v) - 1)
      <3>1. i \in 1..Len(v)
        BY WayParts
      <3>2. v[i] \in Reached(E, Loaded)
        BY <1>2, <1>3, <3>1, OnTheWay
      <3> QED  BY <1>7, <3>2 DEF R
    <2>4. \A id \in Slabs : Retrieve(id).repeated = {}
      BY DEF Forest, RefersTwice
    <2> QED  BY <1>2, <2>2, <2>3, <2>4 DEF Twice
  <1> QED  BY <1>2, <1>7, <1>9, <1>10, <1>13

-----------------------------------------------------------------------------
(* CheckStorageHealth.                                                     *)

\* With the edges turned round, the ranks are too.
LEMMA TurnedRank ==
    ASSUME NEW edges \in Edges, NEW rank, GoesUp(rank, edges), NEW turned \in Edges,
           \A x \in SlabID : \A y \in turned[x] : x \in edges[y]
    PROVE  GoesUp([x \in SlabID |-> (Size + 1) - rank[x]], turned)
  <1> DEFINE r == [x \in SlabID |-> (Size + 1) - rank[x]]
  <1>1. \A x \in SlabID : rank[x] \in 1..Size
    BY DEF GoesUp
  <1>2. r \in [SlabID -> 1..Size]
    BY <1>1, SizeIsNat
  <1>3. ASSUME NEW x \in SlabID, NEW y \in turned[x]
        PROVE  r[y] > r[x]
    <2>1. y \in SlabID
      BY DEF Edges
    <2>2. rank[x] > rank[y]
      BY <2>1 DEF GoesUp
    <2> QED  BY <1>1, <2>1, <2>2, SizeIsNat
  <1> QED  BY <1>2, <1>3 DEF GoesUp

\* The walk up by parentOf, among slabs that are all there.
LEMMA ParentsAre ==
    ASSUME GraphInv, NEW seen, seen \subseteq Slabs
    PROVE  /\ Parents(seen) \in Edges
           /\ \A id \in SlabID : Parents(seen)[id] = {p \in seen : id \in Retrieve(p).refs}
           /\ \E rank : GoesUp(rank, Parents(seen))
  <1>1. seen \subseteq SlabID
    BY DEF Slabs
  <1>2. \A id \in SlabID : Parents(seen)[id] = {p \in seen : id \in Retrieve(p).refs}
    BY DEF Parents
  <1>3. Parents(seen) \in Edges
    BY <1>1 DEF Parents, Edges
  <1>4. PICK rank : GoesUp(rank, Children(deltas))
    BY GraphIs
  <1>5. \A x \in SlabID : \A y \in Parents(seen)[x] : x \in Children(deltas)[y]
    BY <1>2, GraphIs
  <1>6. Children(deltas) \in Edges
    BY GraphIs
  <1>7. GoesUp([x \in SlabID |-> (Size + 1) - rank[x]], Parents(seen))
    BY <1>3, <1>4, <1>5, <1>6, TurnedRank
  <1> QED  BY <1>2, <1>3, <1>7

\* The health check is exact wherever the graph is what the invariant says.
LEMMA HealthCheckLemma ==
    ASSUME GraphInv
    PROVE  HealthCheckIsExact
  <1> DEFINE it       == SlabIterator
             seen     == it.ids
             parentOf == Parents(seen)
             leaves   == {id \in seen : Retrieve(id).refs = {}}
             visited  == Reached(parentOf, leaves)
             single   == /\ \A id \in SlabID : Cardinality(parentOf[id]) <= 1
                         /\ \A p \in seen : ~ RefersTwice(p)
             owned    == \A p \in seen : \A id \in Retrieve(p).refs \cap seen : Owner[p] = Owner[id]
             whole    == \A p \in seen : Retrieve(p).refs \subseteq seen
             roots    == {id \in seen : \A p \in seen : id \notin Retrieve(p).refs}
             bad      == \/ it.err
                         \/ Twice(it.visits)
                         \/ \E id \in seen : RefersTwice(id)
                         \/ \E id \in SlabID : Cardinality(parentOf[id]) > 1
                         \/ \E id \in visited : \E p \in parentOf[id] : ~ SameOwner(p, id)
                         \/ visited # seen
  <1>1. checkSlabs = IF bad THEN Unhealthy
                     ELSE [ok |-> TRUE, roots |-> {id \in visited : parentOf[id] = {}}]
    BY DEF checkSlabs
  <1>2. checkSlabs.ok <=> ~ bad
    BY <1>1 DEF Unhealthy
  <1>3. ~ bad => checkSlabs.roots = {id \in visited : parentOf[id] = {}}
    BY <1>1
  <1>4. /\ it.visits = WaysThrough(appendChildStorables, Loaded)
        /\ seen = Reached(appendChildStorables, Loaded)
        /\ it.err <=> ~ (seen \subseteq Slabs)
    BY IteratorIs
  <1>5. seen \subseteq SlabID
    BY <1>4, ReachedAreSlabs
  <1>6. ASSUME ~ bad
        PROVE  single /\ owned /\ checkSlabs.roots = roots
    <2>1. seen \subseteq Slabs /\ visited = seen
      BY <1>4, <1>6
    <2>2. /\ parentOf \in Edges
          /\ \A id \in SlabID : parentOf[id] = {p \in seen : id \in Retrieve(p).refs}
      BY <2>1, ParentsAre
    <2>3. single
      <3> SUFFICES ASSUME NEW id \in SlabID PROVE Cardinality(parentOf[id]) <= 1
        BY <1>6
      <3>1. IsFiniteSet(parentOf[id])
        BY <2>2, GraphAssumption, FS_Subset DEF Edges
      <3>2. Cardinality(parentOf[id]) \in Nat
        BY <3>1, FS_CardinalityType
      <3> QED  BY <1>6, <3>2
    <2>4. owned
      <3> SUFFICES ASSUME NEW p \in seen, NEW id \in Retrieve(p).refs \cap seen
                   PROVE  Owner[p] = Owner[id]
        OBVIOUS
      <3>1. id \in visited /\ p \in parentOf[id]
        BY <1>5, <2>1, <2>2
      <3> QED  BY <1>6, <3>1 DEF SameOwner
    <2>5. \A id \in seen : parentOf[id] = {} <=> \A p \in seen : id \notin Retrieve(p).refs
      BY <1>5, <2>2
    <2>6. checkSlabs.roots = {id \in seen : parentOf[id] = {}}
      BY <1>3, <1>6, <2>1
    <2> QED  BY <2>3, <2>4, <2>5, <2>6
  <1>7. ASSUME ~ it.err, single, owned, whole
        PROVE  ~ bad
    <2>1. seen \subseteq Slabs
      BY <1>4, <1>7
    <2>2. /\ parentOf \in Edges
          /\ \A id \in SlabID : parentOf[id] = {p \in seen : id \in Retrieve(p).refs}
      BY <2>1, ParentsAre
    <2>3. PICK up : GoesUp(up, parentOf)
      BY <2>1, ParentsAre
    <2>4. leaves \in SUBSET SlabID
      BY <1>5
    <2>5. visited \subseteq seen
      <3>1. \A x \in seen \cap SlabID : parentOf[x] \subseteq seen
        BY <2>2
      <3>2. leaves \subseteq seen
        OBVIOUS
      <3> HIDE DEF seen, leaves
      <3> QED  BY <3>1, <3>2, ReachesLeast
    <2>6. seen \subseteq visited
      <3> DEFINE Bad == {n \in Nat : \E x \in seen \ visited : up[x] = n}
      <3>1. \A x \in seen : up[x] \in Nat
        BY <1>5, <2>3, SizeIsNat DEF GoesUp
      <3>2. SUFFICES ASSUME NEW x0 \in seen \ visited PROVE FALSE
        OBVIOUS
      <3>3. Bad # {} /\ Bad \in SUBSET Nat
        BY <3>1
      <3>4. PICK n \in Bad : \A m \in Bad : n <= m
        <4> HIDE DEF Bad
        <4> QED  BY <3>3, SmallestNumber
      <3>5. PICK x \in seen \ visited : up[x] = n
        BY <3>4
      <3>6. Retrieve(x).refs # {}
        <4> SUFFICES ASSUME Retrieve(x).refs = {} PROVE FALSE
          OBVIOUS
        <4>1. x \in leaves
          OBVIOUS
        <4> HIDE DEF leaves, seen
        <4> QED  BY <2>4, <4>1, ReachesStart
      <3>7. PICK y : y \in Retrieve(x).refs
        BY <3>6
      <3>8. y \in seen /\ y \in SlabID /\ x \in parentOf[y]
        BY <1>5, <1>7, <2>2, <3>7
      <3>9. up[x] > up[y]
        BY <2>3, <3>8 DEF GoesUp
      <3>10. ~ (n <= up[y]) /\ up[y] \in Nat
        BY <3>1, <3>5, <3>8, <3>9
      <3>11. y \in visited
        BY <3>4, <3>8, <3>10
      <3>12. x \in visited
        <4> HIDE DEF leaves, seen, parentOf
        <4> QED  BY <2>2, <2>3, <2>4, <3>8, <3>11, ReachesOn
      <3> QED  BY <3>12
    <2>7. \A id \in SlabID : ~ (Cardinality(parentOf[id]) > 1)
      <3> TAKE id \in SlabID
      <3>1. IsFiniteSet(parentOf[id])
        BY <2>2, GraphAssumption, FS_Subset DEF Edges
      <3>2. Cardinality(parentOf[id]) \in Nat
        BY <3>1, FS_CardinalityType
      <3> QED  BY <1>7, <3>2
    <2>8. \A id \in visited : \A p \in parentOf[id] : SameOwner(p, id)
      BY <1>5, <1>7, <2>2, <2>5 DEF SameOwner
    <2>9. ~ Twice(it.visits)
      <3> DEFINE E == appendChildStorables
      <3>1. /\ E \in Edges /\ Loaded \in SUBSET SlabID
            /\ \A x, y \in SlabID : y \in E[x] <=> y \in Children(deltas)[x] /\ ~ HasEntry(y)
        BY IteratorIs
      <3>2. \A x \in SlabID : \A y \in E[x] : y \in SlabID /\ y \in Children(deltas)[x] /\ ~ HasEntry(y)
        BY <3>1 DEF Edges
      <3>3. \A x \in Loaded : \A y \in SlabID : x \notin E[y]
        BY <3>2, LoadedIsFound DEF GraphInv
      <3>4. ASSUME NEW x \in Reached(E, Loaded), NEW y \in Reached(E, Loaded), E[x] \cap E[y] # {}
            PROVE  x = y
        <4>1. PICK z : z \in E[x] /\ z \in E[y]
          BY <3>4
        <4>2. x \in seen /\ y \in seen /\ x \in SlabID /\ y \in SlabID
          BY <1>4, <1>5
        <4>3. z \in SlabID /\ z \in Children(deltas)[x] /\ z \in Children(deltas)[y]
          BY <3>2, <4>1, <4>2
        <4>4. x \in parentOf[z] /\ y \in parentOf[z]
          BY <2>1, <2>2, <4>2, <4>3, GraphIs
        <4>5. parentOf[z] \in SUBSET SlabID /\ Cardinality(parentOf[z]) <= 1
          BY <1>7, <2>2, <4>3 DEF Edges
        <4> QED  BY <4>4, <4>5, AtMostOne
      <3> HIDE DEF E
      <3>5. \A v, w \in WaysThrough(E, Loaded) : Last(v) = Last(w) => v = w
        BY <3>1, <3>3, <3>4, OneWay
      <3>6. PICK rank : GoesUp(rank, E)
        BY IteratorIs DEF E
      <3>7. \A v \in WaysThrough(E, Loaded) : \A i \in 1..(Len(v) - 1) : v[i] \in seen
        <4> TAKE v \in WaysThrough(E, Loaded)
        <4> TAKE i \in 1..(Len(v) - 1)
        <4>1. i \in 1..Len(v)
          BY WayParts
        <4>2. v[i] \in Reached(E, Loaded)
          BY <3>1, <3>6, <4>1, OnTheWay
        <4> QED  BY <1>4, <4>2 DEF E
      <3>8. \A id \in seen : Retrieve(id).repeated = {}
        BY <1>7 DEF RefersTwice
      <3> HIDE DEF seen
      <3> QED  BY <1>4, <3>5, <3>7, <3>8 DEF Twice, E
    <2> QED  BY <1>7, <2>5, <2>6, <2>7, <2>8, <2>9
  <1>8. /\ checkSlabs.ok => (single /\ owned) /\ checkSlabs.roots = roots
        /\ ~ it.err /\ (single /\ owned) /\ whole => checkSlabs.ok
    BY <1>2, <1>6, <1>7
  <1>9. ASSUME NEW expected \in Expectations
        PROVE  LET health == CheckStorageHealth(expected)
                   met    == expected < 0 \/ expected = Cardinality(roots)
               IN /\ health.ok => (single /\ owned) /\ met /\ health.roots = roots
                  /\ ~ it.err /\ (single /\ owned) /\ whole /\ met => health.ok
    <2> DEFINE refused == expected >= 0 /\ Cardinality(checkSlabs.roots) # expected
    <2>1. expected \in Int
      BY RepairAssumption
    <2>2. CheckStorageHealth(expected) = IF refused THEN Unhealthy ELSE checkSlabs
      BY DEF CheckStorageHealth
    <2>3. ~ Unhealthy.ok
      BY DEF Unhealthy
    <2> HIDE DEF single, owned, whole, roots, it
    <2>4. CASE refused
      BY <1>8, <2>1, <2>2, <2>3, <2>4
    <2>5. CASE ~ refused
      BY <1>8, <2>1, <2>2, <2>5
    <2> QED  BY <2>4, <2>5
  <1> QED  BY <1>9 DEF HealthCheckIsExact

-----------------------------------------------------------------------------
(* Up to the root of a container and down to its slabs.                    *)

\* What the next slab of a walk reaches, the walk reaches.
LEMMA ReachesThrough ==
    ASSUME NEW edges \in Edges, NEW rank, GoesUp(rank, edges),
           NEW x \in SlabID, NEW y \in edges[x]
    PROVE  Reached(edges, {y}) \subseteq Reached(edges, {x})
  <1>1. {x} \in SUBSET SlabID
    OBVIOUS
  <1>2. y \in Reached(edges, {x})
    BY <1>1, ReachesStart, ReachesOn
  <1>3. {y} \subseteq Reached(edges, {x})
    BY <1>2
  <1> QED  BY <1>1, <1>3, ReachesLess

\* Some walk from a slab ends.
LEMMA EndExists ==
    ASSUME NEW edges \in Edges, NEW rank, GoesUp(rank, edges), NEW x \in SlabID
    PROVE  \E t \in Reached(edges, {x}) : edges[t] = {}
  <1> DEFINE R == Reached(edges, {x})
             D == {n \in Nat : \E t \in R : n = Size - rank[t]}
  <1>0. {x} \in SUBSET SlabID
    OBVIOUS
  <1>1. R \subseteq SlabID /\ x \in R
    BY <1>0, ReachedAreSlabs, ReachesStart
  <1>2. \A t \in R : rank[t] \in 1..Size /\ Size - rank[t] \in Nat
    BY <1>1, SizeIsNat DEF GoesUp
  <1>3. D # {} /\ D \in SUBSET Nat
    BY <1>1, <1>2
  <1>4. PICK n \in D : \A m \in D : n <= m
    <2> HIDE DEF D
    <2> QED  BY <1>3, SmallestNumber
  <1>5. PICK t \in R : n = Size - rank[t]
    BY <1>4
  <1>6. edges[t] = {}
    <2> SUFFICES ASSUME NEW y \in edges[t] PROVE FALSE
      OBVIOUS
    <2>1. y \in R
      BY <1>0, ReachesOn
    <2>2. rank[y] > rank[t]
      BY <1>1 DEF GoesUp
    <2>3. Size - rank[y] \in D
      BY <1>2, <2>1
    <2>4. n <= Size - rank[y]
      BY <1>4, <2>3
    <2> HIDE DEF R, D
    <2>5. rank[t] \in 1..Size /\ rank[y] \in 1..Size
      BY <1>2, <2>1
    <2> QED  BY <1>5, <2>2, <2>4, <2>5, SizeIsNat
  <1> QED  BY <1>6

\* Where there is one way on, all walks from a slab end at the same one.
LEMMA EndIsUnique ==
    ASSUME NEW edges \in Edges, NEW rank, GoesUp(rank, edges), NEW x \in SlabID,
           \A t \in Reached(edges, {x}) : \A y, z \in edges[t] : y = z,
           NEW a \in Reached(edges, {x}), edges[a] = {},
           NEW b \in Reached(edges, {x}), edges[b] = {}
    PROVE  a = b
  <1> DEFINE R == Reached(edges, {x})
             S == {t \in R : a \in Reached(edges, {t})}
  <1>0. {x} \in SUBSET SlabID
    OBVIOUS
  <1>1. R \subseteq SlabID /\ x \in R
    BY <1>0, ReachedAreSlabs, ReachesStart
  <1>2. {x} \subseteq S
    BY <1>1
  <1>3. ASSUME NEW t \in S \cap SlabID, NEW y \in edges[t]
        PROVE  y \in S
    <2>1. y \in R /\ y \in SlabID
      BY <1>0, <1>1, ReachesOn
    <2>2. a # t
      BY <1>3
    <2>3. edges[t] = {y}
      BY <1>3
    <2>4. Reached(edges, {t}) = {t} \cup Reached(edges, edges[t])
      BY <1>3, ReachesFromOne
    <2>5. a \in Reached(edges, {y})
      BY <1>3, <2>2, <2>3, <2>4
    <2> QED  BY <2>1, <2>5
  <1>4. R \subseteq S
    <2> HIDE DEF S
    <2> QED  BY <1>2, <1>3, ReachesLeast
  <1>5. a \in Reached(edges, {b}) /\ b \in SlabID
    BY <1>1, <1>4
  <1>6. Reached(edges, {b}) \subseteq {b}
    <2>1. \A z \in {b} \cap SlabID : edges[z] \subseteq {b}
      OBVIOUS
    <2> QED  BY <2>1, ReachesLeast
  <1> QED  BY <1>5, <1>6

\* What is a slab of a container and what is above a slab, when all is loaded.
LEMMA MetaWalks ==
    ASSUME GraphInv, AllLoaded
    PROVE  /\ metaChildren \in Edges /\ metaParents \in Edges
           /\ \A x \in SlabID : \A y \in metaChildren[x] :
                 x \in metaParents[y] /\ y \in Slabs /\ y \in Children(deltas)[x]
           /\ \A y \in Slabs : \A x \in metaParents[y] : x \in Slabs /\ y \in metaChildren[x]
           /\ \A y \in SlabID : \A x \in metaParents[y] :
                 x \in Slabs /\ Retrieve(x).meta /\ y \in Retrieve(x).refs
           /\ \E rank : GoesUp(rank, metaChildren)
           /\ \E rank : GoesUp(rank, metaParents)
  <1>1. /\ Children(deltas) \in Edges
        /\ \A id \in Slabs : /\ id \in SlabID /\ Found(id) /\ Children(deltas)[id] = Retrieve(id).refs
                             /\ Retrieve(id).refs \in SUBSET SlabID
    BY GraphIs
  <1>2. Loaded = Slabs /\ \A p \in Slabs : RetrieveIfLoaded(p) = Retrieve(p)
    BY LoadedIsFound DEF AllLoaded, GraphInv
  <1>3. \A y \in SlabID : metaParents[y] = {p \in Slabs : Retrieve(p).meta /\ y \in Retrieve(p).refs}
    BY <1>2 DEF metaParents
  <1>4. metaParents \in Edges
    BY <1>1, <1>2 DEF metaParents, Edges
  <1>5. \A x \in SlabID : metaChildren[x] = IF x \in Slabs /\ Retrieve(x).meta
                                              THEN Retrieve(x).refs \cap Slabs ELSE {}
    BY DEF metaChildren, Slabs
  <1>6. metaChildren \in Edges
    BY <1>1 DEF metaChildren, Edges, Slabs
  <1>7. \A x \in SlabID : \A y \in metaChildren[x] :
           x \in metaParents[y] /\ y \in Slabs /\ y \in Children(deltas)[x]
    <2> TAKE x \in SlabID
    <2> TAKE y \in metaChildren[x]
    <2>1. x \in Slabs /\ Retrieve(x).meta /\ y \in Retrieve(x).refs /\ y \in Slabs
      BY <1>5
    <2>2. y \in SlabID /\ y \in Children(deltas)[x]
      BY <1>1, <2>1
    <2> QED  BY <1>3, <2>1, <2>2
  <1>8. \A y \in Slabs : \A x \in metaParents[y] : x \in Slabs /\ y \in metaChildren[x]
    <2> TAKE y \in Slabs
    <2> TAKE x \in metaParents[y]
    <2>1. x \in Slabs /\ Retrieve(x).meta /\ y \in Retrieve(x).refs
      BY <1>1, <1>3
    <2> QED  BY <1>1, <1>5, <2>1
  <1>9. PICK rank : GoesUp(rank, Children(deltas))
    BY GraphIs
  <1>10. GoesUp(rank, metaChildren)
    BY <1>7, <1>9 DEF GoesUp
  <1>11. \A x \in SlabID : \A y \in metaParents[x] : x \in Children(deltas)[y]
    BY <1>1, <1>3
  <1>12. GoesUp([x \in SlabID |-> (Size + 1) - rank[x]], metaParents)
    BY <1>1, <1>4, <1>9, <1>11, TurnedRank
  <1>13. \A y \in SlabID : \A x \in metaParents[y] :
            x \in Slabs /\ Retrieve(x).meta /\ y \in Retrieve(x).refs
    BY <1>3
  <1> QED  BY <1>4, <1>6, <1>7, <1>8, <1>10, <1>12, <1>13

\* A slab belongs to a container just when the way up comes by its root.
LEMMA OwnSlabsAreBelow ==
    ASSUME GraphInv, AllLoaded, NEW root \in Slabs, NEW id \in Slabs
    PROVE  id \in OwnSlabs(root) <=> root \in Reached(metaParents, {id})
  <1> DEFINE MC == metaChildren
             MP == metaParents
  <1>1. /\ MC \in Edges /\ MP \in Edges
        /\ \A x \in SlabID : \A y \in MC[x] : x \in MP[y] /\ y \in Slabs
        /\ \A y \in Slabs : \A x \in MP[y] : x \in Slabs /\ y \in MC[x]
    BY MetaWalks
  <1>2. PICK down : GoesUp(down, MC)
    BY MetaWalks
  <1>3. PICK up : GoesUp(up, MP)
    BY MetaWalks
  <1>4. Slabs \subseteq SlabID
    BY DEF Slabs
  <1> HIDE DEF MC, MP
  <1>5. ASSUME id \in Reached(MC, {root})
        PROVE  root \in Reached(MP, {id})
    <2> DEFINE S == {y \in SlabID : root \in Reached(MP, {y})}
    <2>1. {root} \subseteq S
      <3>1. {root} \in SUBSET SlabID /\ root \in SlabID
        BY <1>4
      <3> QED  BY <3>1, ReachesStart
    <2>2. ASSUME NEW y \in S \cap SlabID, NEW z \in MC[y]
          PROVE  z \in S
      <3>1. z \in SlabID /\ y \in MP[z]
        BY <1>1, <1>4
      <3>2. Reached(MP, {y}) \subseteq Reached(MP, {z})
        BY <1>1, <1>3, <3>1, ReachesThrough
      <3> QED  BY <3>1, <3>2
    <2>3. Reached(MC, {root}) \subseteq S
      <3> HIDE DEF S
      <3> QED  BY <2>1, <2>2, ReachesLeast
    <2> QED  BY <1>5, <2>3
  <1>6. ASSUME root \in Reached(MP, {id})
        PROVE  id \in Reached(MC, {root})
    <2> DEFINE S == {y \in Slabs : id \in Reached(MC, {y})}
    <2>1. {id} \subseteq S
      <3>1. {id} \in SUBSET SlabID /\ id \in SlabID
        BY <1>4
      <3> QED  BY <3>1, ReachesStart
    <2>2. ASSUME NEW y \in S \cap SlabID, NEW z \in MP[y]
          PROVE  z \in S
      <3>1. z \in Slabs /\ z \in SlabID /\ y \in MC[z]
        BY <1>1, <1>4
      <3>2. Reached(MC, {y}) \subseteq Reached(MC, {z})
        BY <1>1, <1>2, <3>1, ReachesThrough
      <3> QED  BY <3>1, <3>2
    <2>3. Reached(MP, {id}) \subseteq S
      <3> HIDE DEF S
      <3> QED  BY <2>1, <2>2, ReachesLeast
    <2> QED  BY <1>6, <2>3
  <1> QED  BY <1>5, <1>6 DEF OwnSlabs, MC, MP

\* The root of a slab is the end of the way up.
LEMMA RootIs ==
    ASSUME GraphInv, Forest, AllLoaded, NEW id \in Slabs
    PROVE  /\ getRootSlabID(id) \in Slabs
           /\ getRootSlabID(id) \in Reached(metaParents, {id})
           /\ \A m \in Reached(metaParents, {id}) : metaParents[m] = {} => m = getRootSlabID(id)
  <1> DEFINE MP == metaParents
             R == Reached(MP, {id})
  <1>1. /\ MP \in Edges
        /\ \A y \in SlabID : \A x \in MP[y] : x \in Slabs /\ Retrieve(x).meta /\ y \in Retrieve(x).refs
    BY MetaWalks
  <1>2. PICK up : GoesUp(up, MP)
    BY MetaWalks
  <1>3. Slabs \subseteq SlabID /\ id \in SlabID
    BY DEF Slabs
  <1>4. getRootSlabID(id) \in R /\ MP[getRootSlabID(id)] = {}
    <2>1. \E root \in R : MP[root] = {}
      <3> HIDE DEF MP
      <3> QED  BY <1>1, <1>2, <1>3, EndExists
    <2> QED  BY <2>1 DEF getRootSlabID
  <1>5. R \subseteq Slabs
    <2>1. \A y \in Slabs \cap SlabID : MP[y] \subseteq Slabs
      BY <1>1, <1>3
    <2>2. {id} \subseteq Slabs
      OBVIOUS
    <2> HIDE DEF MP
    <2> QED  BY <2>1, <2>2, ReachesLeast
  <1>6. ASSUME NEW t \in R, NEW y \in MP[t], NEW z \in MP[t]
        PROVE  y = z
    <2>1. t \in Slabs /\ t \in SlabID
      BY <1>3, <1>5
    <2>2. y \in Referrers(t) /\ z \in Referrers(t) /\ Referrers(t) \in SUBSET SlabID
      BY <1>1, <1>3, <2>1 DEF Referrers
    <2>3. Cardinality(Referrers(t)) <= 1
      BY <2>1 DEF Forest
    <2> QED  BY <2>2, <2>3, AtMostOne
  <1>7. \A m \in R : MP[m] = {} => m = getRootSlabID(id)
    <2> HIDE DEF MP
    <2> QED  BY <1>1, <1>2, <1>3, <1>4, <1>6, EndIsUnique
  <1> QED  BY <1>4, <1>5, <1>7

\* The roots with broken data are slabs, and the maps among them are the broken
\* maps.
LEMMA BrokenRootsAre ==
    ASSUME GraphInv, Forest, AllLoaded
    PROVE  /\ rootSlabIDsWithBrokenData \subseteq Slabs
           /\ BrokenMaps = {r \in rootSlabIDsWithBrokenData : IsMap(Retrieve(r))}
  <1>1. Loaded = Slabs /\ Slabs \subseteq SlabID /\ \A p \in Slabs : RetrieveIfLoaded(p) = Retrieve(p)
    BY LoadedIsFound DEF AllLoaded, GraphInv, Slabs
  <1>2. \A id \in Slabs : Retrieve(id).refs \in SUBSET SlabID
    BY GraphIs
  <1>3. \A id : id \in brokenSlabIDs <=> id \in Slabs /\ ~ (Retrieve(id).refs \subseteq Slabs)
    <2>1. \A ref \in SlabID : existIfLoaded(ref) <=> ref \in Slabs
      BY <1>1, LoadedIsFound DEF GraphInv
    <2> QED  BY <1>1, <1>2, <2>1 DEF brokenSlabIDs
  <1>4. rootSlabIDsWithBrokenData \subseteq Slabs
    BY <1>3, RootIs DEF rootSlabIDsWithBrokenData
  <1>5. ASSUME NEW r \in rootSlabIDsWithBrokenData, IsMap(Retrieve(r))
        PROVE  r \in BrokenMaps
    <2>1. PICK id \in brokenSlabIDs : r = getRootSlabID(id)
      BY DEF rootSlabIDsWithBrokenData
    <2>2. id \in Slabs /\ r \in Slabs /\ r \in Reached(metaParents, {id})
      BY <1>3, <1>4, <2>1, RootIs
    <2>3. id \in OwnSlabs(r)
      BY <2>2, OwnSlabsAreBelow
    <2> QED  BY <1>3, <1>5, <2>1, <2>2, <2>3 DEF BrokenMaps
  <1>6. ASSUME NEW m \in BrokenMaps
        PROVE  m \in rootSlabIDsWithBrokenData /\ IsMap(Retrieve(m))
    <2>1. /\ m \in Slabs /\ IsMap(Retrieve(m)) /\ m \in SlabID
      BY <1>1 DEF BrokenMaps
    <2>2. PICK id \in OwnSlabs(m) : ~ (Retrieve(id).refs \subseteq Slabs)
      BY DEF BrokenMaps
    <2>3. id \in Slabs
      <3>1. \A x \in Slabs \cap SlabID : metaChildren[x] \subseteq Slabs
        BY MetaWalks
      <3>2. {m} \subseteq Slabs
        BY <2>1
      <3>3. Reached(metaChildren, {m}) \subseteq Slabs
        BY <3>1, <3>2, ReachesLeast
      <3> QED  BY <3>3 DEF OwnSlabs
    <2>4. m \in Reached(metaParents, {id})
      BY <2>1, <2>2, <2>3, OwnSlabsAreBelow
    <2>5. metaParents[m] = {}
      <3> SUFFICES ASSUME NEW p \in metaParents[m] PROVE FALSE
        OBVIOUS
      <3>1. p \in Slabs /\ Retrieve(p).meta /\ m \in Retrieve(p).refs
        BY <2>1, MetaWalks
      <3>2. ~ Retrieve(m).root
        BY <2>1, <3>1 DEF GraphInv, RootsHaveNoMetaParent
      <3> QED  BY <2>1, <3>2 DEF IsMap
    <2>6. m = getRootSlabID(id)
      BY <2>3, <2>4, <2>5, RootIs
    <2> QED  BY <1>3, <2>1, <2>2, <2>3, <2>6 DEF rootSlabIDsWithBrokenData
  <1> QED  BY <1>4, <1>5, <1>6

-----------------------------------------------------------------------------
(* FixLoadedBrokenReferences.                                              *)

\* What goes when the maps in F are emptied, and deltas after that.
Gone(F) == UNION {Below(m) : m \in F}

After(F) == [id \in SlabID |-> IF id \in Gone(F) THEN Nil
                               ELSE IF id \in F THEN EmptyMap ELSE deltas[id]]

\* The map that replaces a broken one is a root slab without references.
LEMMA EmptyMapIsSlab ==
    /\ EmptyMap \in Slab /\ EmptyMap \notin {Nil, Absent}
    /\ EmptyMap.refs = {} /\ EmptyMap.root /\ ~ EmptyMap.meta
  <1>1. EmptyMap \in Slab
    BY DEF EmptyMap, Slab
  <1> QED  BY <1>1, SlabFields DEF EmptyMap

\* The references of what goes are broken or go too.
LEMMA GoneIsClosed ==
    ASSUME GraphInv, NEW F \in SUBSET Slabs
    PROVE  /\ Gone(F) \subseteq Slabs
           /\ \A x \in F \cup Gone(F) : \A y \in Children(deltas)[x] : Found(y) => y \in Gone(F)
  <1> DEFINE C == Children(deltas)
  <1>1. C \in Edges /\ Slabs \subseteq SlabID
    BY GraphIs DEF Slabs
  <1>2. PICK rank : GoesUp(rank, C)
    BY GraphIs
  <1>3. \A m \in F : Below(m) = {x \in Reached(C, C[m]) : Found(x)} /\ Below(m) \subseteq Slabs
    BY BelowIs
  <1> HIDE DEF C
  <1>4. \A m \in F : C[m] \in SUBSET SlabID
    BY <1>1 DEF Edges
  <1>5. ASSUME NEW x \in F, NEW y \in C[x], Found(y)
        PROVE  y \in Gone(F)
    <2>1. y \in Reached(C, C[x])
      BY <1>4, ReachesStart
    <2> QED  BY <1>3, <1>5, <2>1 DEF Gone
  <1>6. ASSUME NEW x \in Gone(F), NEW y \in C[x], Found(y)
        PROVE  y \in Gone(F)
    <2>1. PICK m \in F : x \in Below(m)
      BY DEF Gone
    <2>2. x \in Reached(C, C[m])
      BY <1>3, <2>1
    <2>3. y \in Reached(C, C[m])
      BY <1>1, <1>2, <1>4, <2>2, ReachesOn
    <2> QED  BY <1>3, <1>6, <2>3 DEF Gone
  <1> QED  BY <1>3, <1>5, <1>6 DEF Gone, C

\* Reading after some maps were emptied.
LEMMA ReadAfter ==
    ASSUME GraphInv, NEW F \in SUBSET Slabs
    PROVE  /\ After(F) \in Entries
           /\ \A x \in SlabID :
                 /\ x \in Gone(F) => LoadedIn(After(F), x) = Nil /\ ~ FoundIn(After(F), x)
                 /\ x \notin Gone(F) /\ x \in F =>
                       RetrieveIn(After(F), x) = EmptyMap /\ FoundIn(After(F), x)
                 /\ x \notin Gone(F) /\ x \notin F =>
                       /\ LoadedIn(After(F), x) = RetrieveIfLoaded(x)
                       /\ RetrieveIn(After(F), x) = Retrieve(x)
                       /\ FoundIn(After(F), x) <=> Found(x)
  <1>1. \A x \in SlabID : After(F)[x] = IF x \in Gone(F) THEN Nil
                                        ELSE IF x \in F THEN EmptyMap ELSE deltas[x]
    BY DEF After
  <1>2. deltas \in Entries
    BY DeltasAreEntries DEF GraphInv
  <1>3. After(F) \in Entries
    BY <1>2, EmptyMapIsSlab DEF Entries, After
  <1>4. ASSUME NEW x \in SlabID, x \in Gone(F)
        PROVE  LoadedIn(After(F), x) = Nil /\ ~ FoundIn(After(F), x)
    BY <1>1, <1>4, GraphAssumption DEF LoadedIn, FoundIn, RetrieveIn
  <1>5. ASSUME NEW x \in SlabID, x \notin Gone(F), x \in F
        PROVE  RetrieveIn(After(F), x) = EmptyMap /\ FoundIn(After(F), x)
    BY <1>1, <1>5, EmptyMapIsSlab DEF LoadedIn, FoundIn, RetrieveIn
  <1>6. ASSUME NEW x \in SlabID, x \notin Gone(F), x \notin F
        PROVE  /\ LoadedIn(After(F), x) = RetrieveIfLoaded(x)
               /\ RetrieveIn(After(F), x) = Retrieve(x)
               /\ FoundIn(After(F), x) <=> Found(x)
    <2>1. After(F)[x] = deltas[x]
      BY <1>1, <1>6
    <2> QED  BY <2>1 DEF LoadedIn, FoundIn, RetrieveIn, RetrieveIfLoaded, Retrieve, Found
  <1> QED  BY <1>3, <1>4, <1>5, <1>6

\* Emptying one map more: what its old references lead to is what they led to
\* at first, but for what is gone already.
LEMMA FixOne ==
    ASSUME GraphInv, AllLoaded, NEW F \in SUBSET Slabs, NEW id \in Slabs,
           id \notin F, id \notin Gone(F)
    PROVE  fixBrokenReferencesInMap(After(F), id) = After(F \cup {id})
  <1> DEFINE C    == Children(deltas)
             d    == After(F)
             new  == [d EXCEPT ![id] = EmptyMap]
             E    == Children(new)
             refs == {x \in Reached(E, C[id]) : FoundIn(new, x)}
  <1>1. /\ C \in Edges /\ Slabs \subseteq SlabID /\ id \in SlabID
        /\ C[id] = Retrieve(id).refs /\ C[id] \in SUBSET SlabID
        /\ \A x \in SlabID : C[x] = IF Found(x) THEN Retrieve(x).refs ELSE {}
    BY GraphIs DEF Slabs
  <1>2. PICK rank : GoesUp(rank, C)
    BY GraphIs
  <1>3. d \in Entries /\ DOMAIN d = SlabID
    BY ReadAfter DEF Entries
  <1>4. new \in Entries /\ \A x \in SlabID : new[x] = IF x = id THEN EmptyMap ELSE d[x]
    BY <1>1, <1>3, EmptyMapIsSlab DEF Entries
  <1>5. /\ RetrieveIn(new, id) = EmptyMap /\ FoundIn(new, id)
        /\ \A x \in SlabID \ {id} : /\ RetrieveIn(new, x) = RetrieveIn(d, x)
                                    /\ FoundIn(new, x) <=> FoundIn(d, x)
    BY <1>1, <1>4, EmptyMapIsSlab DEF LoadedIn, RetrieveIn, FoundIn
  <1>6. LoadedIn(d, id).refs = C[id]
    <2>1. LoadedIn(d, id) = RetrieveIfLoaded(id)
      BY <1>1, ReadAfter
    <2>2. RetrieveIfLoaded(id) = Retrieve(id)
      BY LoadedIsFound DEF AllLoaded, GraphInv
    <2> QED  BY <1>1, <2>1, <2>2
  <1>7. /\ E \in Edges
        /\ \A x \in SlabID : E[x] = IF FoundIn(new, x) THEN RetrieveIn(new, x).refs ELSE {}
    BY <1>4, ChildrenAre DEF GraphInv
  <1>8. \A x \in SlabID : FoundIn(new, x) <=> Found(x) /\ x \notin Gone(F)
    <2> TAKE x \in SlabID
    <2>1. CASE x = id
      BY <1>5, <2>1 DEF Slabs
    <2>2. CASE x # id /\ x \in F
      BY <1>5, <2>2, ReadAfter DEF Slabs
    <2>3. CASE x # id /\ x \notin F
      BY <1>5, <2>3, ReadAfter
    <2> QED  BY <2>1, <2>2, <2>3
  <1>9. \A x \in SlabID : /\ x \in F \cup Gone(F) \cup {id} => E[x] = {}
                          /\ x \notin F \cup Gone(F) \cup {id} => E[x] = C[x]
    <2> TAKE x \in SlabID
    <2>1. CASE x = id
      BY <1>5, <1>7, <2>1, EmptyMapIsSlab
    <2>2. CASE x \in Gone(F)
      BY <1>7, <1>8, <2>2
    <2>3. CASE x # id /\ x \notin Gone(F) /\ x \in F
      BY <1>5, <1>7, <2>3, ReadAfter, EmptyMapIsSlab
    <2>4. CASE x # id /\ x \notin Gone(F) /\ x \notin F
      BY <1>1, <1>5, <1>7, <1>8, <2>4, ReadAfter
    <2> QED  BY <2>1, <2>2, <2>3, <2>4
  <1> HIDE DEF E, C
  <1>10. GoesUp(rank, E)
    BY <1>2, <1>9 DEF GoesUp
  <1>11. Reached(E, C[id]) \subseteq Reached(C, C[id])
    <2> DEFINE S == Reached(C, C[id])
    <2>1. C[id] \subseteq S
      BY <1>1, ReachesStart
    <2>2. \A x \in S \cap SlabID : C[x] \subseteq S
      BY <1>1, <1>2, ReachesOn
    <2>3. \A x \in S \cap SlabID : E[x] \subseteq S
      BY <1>9, <2>2
    <2> HIDE DEF S
    <2>4. Reached(E, C[id]) \subseteq S
      BY <2>1, <2>3, ReachesLeast
    <2> QED  BY <2>4 DEF S
  <1>12. Below(id) = {x \in Reached(C, C[id]) : Found(x)} /\ Below(id) \subseteq Slabs
    BY BelowIs DEF C
  <1>13. id \notin Reached(C, C[id])
    BY <1>1, <1>2, ReachesNotBack
  <1>14. Reached(C, C[id]) \subseteq {z \in SlabID : z \in Reached(E, C[id]) \/ z \in Gone(F) \/ ~ Found(z)}
    <2> DEFINE S == {z \in SlabID : z \in Reached(E, C[id]) \/ z \in Gone(F) \/ ~ Found(z)}
    <2>1. C[id] \subseteq S
      BY <1>1, ReachesStart
    <2>2. ASSUME NEW y \in S \cap SlabID, NEW z \in C[y]
          PROVE  z \in S
      <3>1. z \in SlabID /\ Found(y)
        BY <1>1 DEF Edges
      <3>2. CASE y \in F \cup Gone(F)
        <4>1. Found(z) => z \in Gone(F)
          BY <3>2, GoneIsClosed DEF C
        <4> QED  BY <3>1, <4>1
      <3>3. CASE y \notin F \cup Gone(F)
        <4>1. y \in Reached(E, C[id])
          BY <2>2, <3>1, <3>3
        <4>2. y # id
          BY <1>11, <1>13, <4>1
        <4>3. z \in E[y]
          BY <1>9, <2>2, <3>3, <4>2
        <4>4. z \in Reached(E, C[id])
          BY <1>1, <1>7, <1>10, <4>1, <4>3, ReachesOn
        <4> QED  BY <3>1, <4>4
      <3> QED  BY <3>2, <3>3
    <2> HIDE DEF S
    <2>3. Reached(C, C[id]) \subseteq S
      BY <2>1, <2>2, ReachesLeast
    <2> QED  BY <2>3 DEF S
  <1>15. \A x \in SlabID : x \in refs <=> x \in Below(id) /\ x \notin Gone(F)
    BY <1>8, <1>11, <1>12, <1>14
  <1>16. Gone(F \cup {id}) = Gone(F) \cup Below(id)
    BY DEF Gone
  <1>17. fixBrokenReferencesInMap(d, id) = [x \in SlabID |-> IF x \in refs THEN Nil ELSE new[x]]
    <2>1. getAllChildReferences(new, C[id]).references = refs
      BY DEF getAllChildReferences, E
    <2> HIDE DEF refs, d
    <2> QED  BY <1>6, <2>1 DEF fixBrokenReferencesInMap
  <1>18. \A x \in SlabID : (IF x \in refs THEN Nil ELSE new[x]) =
              IF x \in Gone(F \cup {id}) THEN Nil
              ELSE IF x \in F \cup {id} THEN EmptyMap ELSE deltas[x]
    <2> TAKE x \in SlabID
    <2>0. d[x] = IF x \in Gone(F) THEN Nil ELSE IF x \in F THEN EmptyMap ELSE deltas[x]
      BY DEF After
    <2> HIDE DEF refs, d, new
    <2>1. CASE x = id
      <3>1. id \notin Below(id)
        BY <1>12, <1>13
      <3> QED  BY <1>4, <1>15, <1>16, <2>1, <3>1
    <2>2. CASE x # id
      BY <1>4, <1>15, <1>16, <2>0, <2>2
    <2> QED  BY <2>1, <2>2
  <1> HIDE DEF refs, d, new
  <1>19. fixBrokenReferencesInMap(d, id) =
            [x \in SlabID |-> IF x \in Gone(F \cup {id}) THEN Nil
                              ELSE IF x \in F \cup {id} THEN EmptyMap ELSE deltas[x]]
    BY <1>17, <1>18
  <1> QED  BY <1>19 DEF After, d

\* A map that went with another one takes nothing more along.
LEMMA FixGone ==
    ASSUME GraphInv, NEW F \in SUBSET Slabs, NEW id \in Slabs, id \in Gone(F)
    PROVE  After(F \cup {id}) = After(F)
  <1> DEFINE C == Children(deltas)
  <1>1. C \in Edges /\ Slabs \subseteq SlabID /\ id \in SlabID
    BY GraphIs DEF Slabs
  <1>2. PICK rank : GoesUp(rank, C)
    BY GraphIs
  <1>3. PICK m \in F : id \in Below(m)
    BY DEF Gone
  <1>4. /\ Below(m) = {x \in Reached(C, C[m]) : Found(x)}
        /\ Below(id) = {x \in Reached(C, C[id]) : Found(x)}
    BY BelowIs
  <1> HIDE DEF C
  <1>5. C[m] \in SUBSET SlabID /\ id \in Reached(C, C[m])
    BY <1>1, <1>3, <1>4 DEF Edges
  <1>6. C[id] \subseteq Reached(C, C[m])
    BY <1>1, <1>2, <1>5, ReachesOn
  <1>7. Reached(C, C[id]) \subseteq Reached(C, C[m])
    BY <1>1, <1>2, <1>5, <1>6, ReachesLess
  <1>8. Gone(F \cup {id}) = Gone(F)
    BY <1>3, <1>4, <1>7 DEF Gone
  <1> QED  BY <1>8 DEF After

\* One round of the loop over the roots.
LEMMA FixStep ==
    ASSUME GraphInv, Forest, AllLoaded, NEW needToFix,
           NEW F \in SUBSET (BrokenMaps \cap needToFix),
           NEW id \in rootSlabIDsWithBrokenData, id \notin F
    PROVE  fixRoot(After(F), id, needToFix) =
              After(F \cup ({id} \cap (BrokenMaps \cap needToFix)))
  <1>1. /\ id \in Slabs /\ id \in SlabID /\ F \in SUBSET Slabs
        /\ id \in BrokenMaps <=> IsMap(Retrieve(id))
    BY BrokenRootsAre DEF Slabs, BrokenMaps
  <1>2. RetrieveIfLoaded(id) = Retrieve(id) /\ Retrieve(id) \notin {Nil, Absent}
    BY <1>1, LoadedIsFound, GraphIs, SlabFields DEF AllLoaded, GraphInv
  <1>3. CASE id \in Gone(F)
    <2>1. LoadedIn(After(F), id) = Nil
      BY <1>1, <1>3, ReadAfter
    <2>2. fixRoot(After(F), id, needToFix) = After(F)
      BY <2>1 DEF fixRoot
    <2>3. CASE id \in BrokenMaps \cap needToFix
      <3>1. {id} \cap (BrokenMaps \cap needToFix) = {id}
        BY <2>3
      <3> QED  BY <1>1, <1>3, <2>2, <3>1, FixGone
    <2>4. CASE id \notin BrokenMaps \cap needToFix
      <3>1. F \cup ({id} \cap (BrokenMaps \cap needToFix)) = F
        BY <2>4
      <3> QED  BY <2>2, <3>1
    <2> QED  BY <2>3, <2>4
  <1>4. CASE id \notin Gone(F)
    <2>1. LoadedIn(After(F), id) = Retrieve(id)
      BY <1>1, <1>2, <1>4, ReadAfter
    <2>2. CASE id \in BrokenMaps \cap needToFix
      <3>1. fixRoot(After(F), id, needToFix) = fixBrokenReferencesInMap(After(F), id)
        BY <1>1, <1>2, <2>1, <2>2 DEF fixRoot
      <3>2. F \cup ({id} \cap (BrokenMaps \cap needToFix)) = F \cup {id}
        BY <2>2
      <3> QED  BY <1>1, <1>4, <3>1, <3>2, FixOne
    <2>3. CASE id \notin BrokenMaps \cap needToFix
      <3>1. fixRoot(After(F), id, needToFix) = After(F)
        BY <1>1, <1>2, <2>1, <2>3 DEF fixRoot
      <3>2. F \cup ({id} \cap (BrokenMaps \cap needToFix)) = F
        BY <2>3
      <3> QED  BY <3>1, <3>2
    <2> QED  BY <2>2, <2>3
  <1> QED  BY <1>3, <1>4

\* A function has deltas after each root of an order.
FixesInOrder(f, order, needToFix) ==
    f = [i \in 0..Len(order) |->
           IF i = 0 THEN deltas ELSE fixRoot(f[i-1], order[i], needToFix)]

\* An order goes through all roots, through each of them once.
LEMMA OrderIs ==
    ASSUME NEW S, IsFiniteSet(S), NEW order \in SetToSeqs(S)
    PROVE  /\ Len(order) \in Nat /\ order \in [1..Len(order) -> S]
           /\ \A i, j \in 1..Len(order) : i # j => order[i] # order[j]
           /\ S = {order[j] : j \in 1..Len(order)}
  <1> DEFINE n == Cardinality(S)
  <1>1. n \in Nat
    BY FS_CardinalityType
  <1>2. order \in [1..n -> S] /\ \A i, j \in 1..n : i # j => order[i] # order[j]
    BY DEF SetToSeqs
  <1> HIDE DEF n
  <1>3. Len(order) = n
    BY <1>1, <1>2
  <1>4. order \in Injection(1..n, S)
    BY <1>2 DEF Injection, IsInjective
  <1>5. Cardinality(1..n) = n
    BY <1>1, FS_Interval
  <1>6. order \in Surjection(1..n, S)
    BY <1>4, <1>5, FS_Injection DEF n
  <1>7. \A x \in S : \E j \in 1..n : order[j] = x
    BY <1>6 DEF Surjection
  <1> QED  BY <1>1, <1>2, <1>3, <1>7

\* In whichever order, all broken maps that are to be fixed are emptied.
LEMMA FixAllIs ==
    ASSUME GraphInv, Forest, AllLoaded, NEW order \in Orders, NEW needToFix
    PROVE  fixAll(order, needToFix) = After(BrokenMaps \cap needToFix)
  <1> DEFINE B == BrokenMaps \cap needToFix
             N == Len(order)
             Upto(i) == {order[j] : j \in 1..i}
             g == [i \in 0..N |-> After(B \cap Upto(i))]
  <1>0. IsFiniteSet(rootSlabIDsWithBrokenData)
    <2>1. rootSlabIDsWithBrokenData \in SUBSET SlabID
      BY BrokenRootsAre DEF Slabs
    <2> QED  BY <2>1, GraphAssumption, FS_Subset
  <1>1. /\ N \in Nat
        /\ \A i \in 1..N : order[i] \in rootSlabIDsWithBrokenData
        /\ \A i, j \in 1..N : i # j => order[i] # order[j]
        /\ rootSlabIDsWithBrokenData = {order[j] : j \in 1..N}
    BY <1>0, OrderIs DEF Orders
  <1>2. B \cap Upto(0) = {}
    OBVIOUS
  <1>3. After({}) = deltas
    <2>1. Gone({}) = {}
      BY DEF Gone
    <2>2. After({}) = [id \in SlabID |-> deltas[id]]
      BY <2>1 DEF After
    <2> QED  BY <2>2 DEF GraphInv, SlabsAreTyped
  <1>4. ASSUME NEW i \in 1..N
        PROVE  fixRoot(After(B \cap Upto(i - 1)), order[i], needToFix) = After(B \cap Upto(i))
    <2>1. order[i] \notin Upto(i - 1)
      <3> SUFFICES ASSUME NEW j \in 1..(i - 1), order[j] = order[i] PROVE FALSE
        OBVIOUS
      <3>1. j \in 1..N /\ j # i
        BY <1>1
      <3> QED  BY <1>1, <3>1
    <2>2. Upto(i) = Upto(i - 1) \cup {order[i]}
      <3>1. \A j \in 1..i : j = i \/ j \in 1..(i - 1)
        BY <1>1
      <3>2. i \in 1..i /\ \A j \in 1..(i - 1) : j \in 1..i
        BY <1>1
      <3> QED  BY <3>1, <3>2
    <2> HIDE DEF Upto
    <2>3. B \cap Upto(i) = (B \cap Upto(i - 1)) \cup ({order[i]} \cap B)
      BY <2>2
    <2>4. order[i] \in rootSlabIDsWithBrokenData /\ order[i] \notin B \cap Upto(i - 1)
      BY <1>1, <2>1
    <2> DEFINE F == B \cap Upto(i - 1)
    <2>5. F \in SUBSET B /\ order[i] \notin F
      BY <2>4
    <2> HIDE DEF F
    <2>6. fixRoot(After(F), order[i], needToFix) = After(F \cup ({order[i]} \cap B))
      BY <2>4, <2>5, FixStep
    <2> QED  BY <2>3, <2>6 DEF F
  <1>5. g[0] = deltas /\ \A i \in 1..N : g[i] = fixRoot(g[i-1], order[i], needToFix)
    <2>1. \A i \in 0..N : g[i] = After(B \cap Upto(i))
      OBVIOUS
    <2>2. 0 \in 0..N /\ \A i \in 1..N : i \in 0..N /\ i - 1 \in 0..N
      BY <1>1
    <2> HIDE DEF g, Upto, B
    <2> QED  BY <1>2, <1>3, <1>4, <2>1, <2>2
  <1>6. g[N] = After(B)
    <2>1. N \in 0..N /\ B \cap Upto(N) = B
      BY <1>1, BrokenRootsAre
    <2> HIDE DEF B, Upto
    <2> QED  BY <2>1
  <1>7. DOMAIN g = 0..N /\ g = [i \in 0..N |-> g[i]]
    OBVIOUS
  <1> HIDE DEF g, B
  <1>8. FixesInOrder(g, order, needToFix)
    <2>1. \A i \in 0..N : g[i] = IF i = 0 THEN deltas ELSE fixRoot(g[i-1], order[i], needToFix)
      BY <1>1, <1>5
    <2>2. g = [i \in 0..N |-> IF i = 0 THEN deltas ELSE fixRoot(g[i-1], order[i], needToFix)]
      BY <1>7, <2>1, Zenon
    <2> QED  BY <2>2 DEF FixesInOrder
  <1> DEFINE f == CHOOSE f : FixesInOrder(f, order, needToFix)
  <1>9. fixAll(order, needToFix) = f[N]
    BY DEF fixAll, FixesInOrder
  <1>10. FixesInOrder(f, order, needToFix)
    BY <1>8
  <1> HIDE DEF f
  <1>11. \A i \in 0..N : f[i] = IF i = 0 THEN deltas ELSE fixRoot(f[i-1], order[i], needToFix)
    BY <1>10 DEF FixesInOrder
  <1>12. f[N] = g[N]
    <2> DEFINE Bad == {i \in 0..N : f[i] # g[i]}
    <2>1. Bad = {}
      <3> SUFFICES ASSUME Bad # {} PROVE FALSE
        OBVIOUS
      <3>0. Bad \in SUBSET Nat
        BY <1>1
      <3> HIDE DEF Bad
      <3>1. PICK m \in Bad : \A n \in Bad : m <= n
        BY <3>0, SmallestNumber
      <3>2. m \in 0..N /\ f[m] # g[m]
        BY <3>1 DEF Bad
      <3>3. m # 0
        BY <1>5, <1>11, <3>2
      <3>4. m \in 1..N /\ m - 1 \in 0..N /\ ~ (m <= m - 1)
        BY <1>1, <3>2, <3>3
      <3>5. f[m-1] = g[m-1]
        BY <3>1, <3>4 DEF Bad
      <3> QED  BY <1>5, <1>11, <3>2, <3>3, <3>4, <3>5
    <2> QED  BY <1>1, <2>1
  <1> QED  BY <1>6, <1>9, <1>12 DEF B

\* A reference to what goes is in what goes with it: nothing else breaks.
LEMMA NothingElseBreaks ==
    ASSUME GraphInv, Forest, NEW F \in SUBSET Slabs,
           NEW id \in SlabID, FoundIn(After(F), id),
           ~ (id \in Slabs /\ Retrieve(id).refs \ Slabs # {}),
           NEW ref \in RetrieveIn(After(F), id).refs
    PROVE  FoundIn(After(F), ref)
  <1> DEFINE C == Children(deltas)
  <1>1. /\ C \in Edges /\ Slabs \subseteq SlabID
        /\ \A x \in Slabs : C[x] = Retrieve(x).refs
    BY GraphIs DEF Slabs
  <1>2. PICK rank : GoesUp(rank, C)
    BY GraphIs
  <1>3. id \notin Gone(F) /\ id \notin F
    BY ReadAfter, EmptyMapIsSlab
  <1>4. RetrieveIn(After(F), id) = Retrieve(id) /\ id \in Slabs
    BY <1>3, ReadAfter DEF Slabs
  <1>5. ref \in Slabs /\ ref \in SlabID /\ ref \in Retrieve(id).refs
    BY <1>1, <1>4
  <1>6. ref \notin Gone(F)
    <2> SUFFICES ASSUME ref \in Gone(F) PROVE FALSE
      OBVIOUS
    <2>1. PICK m \in F : ref \in Below(m)
      BY DEF Gone
    <2>2. Below(m) = {x \in Reached(C, C[m]) : Found(x)} /\ C[m] \in SUBSET SlabID
      BY <1>1, BelowIs DEF Edges
    <2>3. PICK y \in {m} \cup Below(m) : y \in Slabs /\ ref \in C[y]
      <3>1. CASE ref \in C[m]
        BY <3>1
      <3>2. CASE ref \notin C[m]
        <4> HIDE DEF C
        <4>1. ref \in Reached(C, C[m])
          BY <2>1, <2>2
        <4>2. PICK y \in Reached(C, C[m]) : ref \in C[y]
          BY <1>1, <1>2, <2>2, <3>2, <4>1, ReachesBack
        <4>3. y \in SlabID
          BY ReachedAreSlabs
        <4>4. Found(y)
          BY <4>2, <4>3, GraphIs DEF C
        <4> QED  BY <2>2, <4>2, <4>3, <4>4 DEF Slabs
      <3> QED  BY <3>1, <3>2
    <2>4. y \in Referrers(ref) /\ id \in Referrers(ref) /\ Referrers(ref) \in SUBSET SlabID
      BY <1>1, <1>4, <1>5, <2>3 DEF Referrers
    <2>5. Cardinality(Referrers(ref)) <= 1
      BY <1>5 DEF Forest
    <2>6. y = id
      BY <2>4, <2>5, AtMostOne
    <2> QED  BY <1>3, <2>1, <2>3, <2>6 DEF Gone
  <1>7. CASE ref \in F
    BY <1>5, <1>6, <1>7, ReadAfter
  <1>8. CASE ref \notin F
    BY <1>5, <1>6, <1>8, ReadAfter DEF Slabs
  <1> QED  BY <1>7, <1>8

\* Repair is exact wherever the graph is what the invariant says.
LEMMA RepairLemma ==
    ASSUME GraphInv
    PROVE  RepairIsExact
  <1> SUFFICES ASSUME Forest, AllLoaded,
                      NEW order \in Orders, NEW needToFix \in SUBSET rootSlabIDsWithBrokenData
               PROVE  LET fixed == BrokenMaps \cap needToFix
                          gone  == UNION {Below(m) : m \in fixed}
                          after == fixAll(order, needToFix)
                      IN /\ after = [id \in SlabID |->
                                       IF id \in gone THEN Nil
                                       ELSE IF id \in fixed THEN EmptyMap ELSE deltas[id]]
                         /\ \A id \in SlabID : FoundIn(after, id) /\ ~ (id \in Slabs /\ Retrieve(id).refs \ Slabs # {}) =>
                               \A ref \in RetrieveIn(after, id).refs : FoundIn(after, ref)
                         /\ BrokenMaps \subseteq rootSlabIDsWithBrokenData
    BY DEF RepairIsExact
  <1> DEFINE fixed == BrokenMaps \cap needToFix
             after == fixAll(order, needToFix)
  <1>1. after = After(fixed)
    BY FixAllIs
  <1>2. fixed \in SUBSET Slabs
    BY DEF BrokenMaps
  <1>3. \A id \in SlabID : FoundIn(after, id) /\ ~ (id \in Slabs /\ Retrieve(id).refs \ Slabs # {}) =>
           \A ref \in RetrieveIn(after, id).refs : FoundIn(after, ref)
    <2> HIDE DEF fixed, after
    <2> QED  BY <1>1, <1>2, NothingElseBreaks
  <1>4. after = [id \in SlabID |-> IF id \in UNION {Below(m) : m \in fixed} THEN Nil
                                   ELSE IF id \in fixed THEN EmptyMap ELSE deltas[id]]
    BY <1>1 DEF After, Gone
  <1>5. BrokenMaps \subseteq rootSlabIDsWithBrokenData
    BY BrokenRootsAre
  <1> QED  BY <1>3, <1>4, <1>5

-----------------------------------------------------------------------------
(* The invariant.                                                          *)

\* A storage starts with nothing in memory and with slabs without cycles.
LEMMA InitGraph == Init => GraphInv
  <1> SUFFICES ASSUME Init PROVE GraphInv
    OBVIOUS
  <1>1. /\ base \in [SlabID -> AnySlab \cup {Absent}] /\ WellFormed(base) /\ Acyclic(base)
        /\ cache = [id \in SlabID |-> Absent] /\ deltas = [id \in SlabID |-> Absent]
    BY DEF Init
  <1>2. AnySlab \subseteq Slab
    BY DEF AnySlab
  <1>3. SlabsAreTyped
    BY <1>1, <1>2 DEF SlabsAreTyped
  <1>4. CacheMatchesBase
    BY <1>1 DEF CacheMatchesBase
  <1>5. \A id \in SlabID : Retrieve(id) = base[id]
    BY <1>1 DEF Retrieve, RetrieveIn, LoadedIn
  <1>6. \A id \in Slabs : id \in SlabID /\ Retrieve(id) = base[id] /\ base[id] # Absent
    BY <1>5 DEF Slabs, Found, FoundIn, Retrieve
  <1>7. NoSlabLeadsToItself
    BY <1>1, <1>6 DEF Acyclic, NoSlabLeadsToItself
  <1>8. RootsHaveNoMetaParent
    BY <1>1, <1>6 DEF WellFormed, RootsHaveNoMetaParent
  <1> QED  BY <1>3, <1>4, <1>7, <1>8 DEF GraphInv

\* A step that adds no slab and no reference keeps what the graph is.
LEMMA GraphShrinks ==
    ASSUME GraphInv, SlabsAreTyped', CacheMatchesBase',
           \A id \in SlabID : Found(id)' =>
              /\ Found(id)
              /\ Retrieve(id)'.refs \subseteq Retrieve(id).refs
              /\ Retrieve(id)'.root = Retrieve(id).root
              /\ Retrieve(id)'.meta => Retrieve(id).meta
    PROVE  GraphInv'
  <1>1. \A id \in Slabs' : /\ id \in Slabs
                           /\ Retrieve(id)'.refs \subseteq Retrieve(id).refs
                           /\ Retrieve(id)'.root = Retrieve(id).root
                           /\ Retrieve(id)'.meta => Retrieve(id).meta
    BY DEF Slabs
  <1>2. NoSlabLeadsToItself'
    <2>1. PICK rank \in [SlabID -> 1..Cardinality(SlabID)] :
             \A id \in Slabs : \A ref \in Retrieve(id).refs : rank[ref] > rank[id]
      BY DEF GraphInv, NoSlabLeadsToItself
    <2>2. \A id \in Slabs' : \A ref \in Retrieve(id)'.refs : rank[ref] > rank[id]
      BY <1>1, <2>1
    <2> QED  BY <2>2 DEF NoSlabLeadsToItself
  <1>3. RootsHaveNoMetaParent'
    <2> SUFFICES ASSUME NEW p \in Slabs', NEW ref \in Retrieve(p)'.refs \cap Slabs', Retrieve(p)'.meta
                 PROVE  ~ Retrieve(ref)'.root
      BY DEF RootsHaveNoMetaParent
    <2>1. p \in Slabs /\ ref \in Retrieve(p).refs \cap Slabs /\ Retrieve(p).meta
      BY <1>1
    <2>2. ~ Retrieve(ref).root
      BY <2>1 DEF GraphInv, RootsHaveNoMetaParent
    <2> QED  BY <1>1, <2>2
  <1> QED  BY <1>2, <1>3 DEF GraphInv

\* A step that only caches what the base storage has.
LEMMA CachingKeeps ==
    ASSUME GraphInv, NEW ids, cache' = Cached(ids), UNCHANGED <<deltas, base>>
    PROVE  GraphInv'
  <1>1. \A id \in SlabID : cache'[id] = cache[id] \/ (~ HasEntry(id) /\ cache'[id] = base[id])
    BY DEF Cached
  <1>2. cache' \in [SlabID -> Slab \cup {Nil, Absent}]
    BY DEF Cached, GraphInv, SlabsAreTyped
  <1>3. SlabsAreTyped'
    BY <1>2 DEF GraphInv, SlabsAreTyped
  <1>4. CacheMatchesBase'
    BY <1>1 DEF GraphInv, CacheMatchesBase
  <1>5. \A id \in SlabID : Retrieve(id)' = Retrieve(id)
    BY <1>1 DEF Retrieve, RetrieveIn, LoadedIn, HasEntry, RetrieveIfLoaded
  <1>6. \A id \in SlabID : Found(id)' <=> Found(id)
    BY <1>5 DEF Found, FoundIn, Retrieve
  <1> QED  BY <1>3, <1>4, <1>5, <1>6, GraphShrinks

\* Storing a loaded slab changes nothing that is read.
LEMMA StoreSlabKeeps ==
    ASSUME GraphInv, NEW id \in SlabID, StoreSlab(id)
    PROVE  GraphInv'
  <1>1. /\ id \in Loaded /\ cache' = cache /\ base' = base
        /\ deltas' = [deltas EXCEPT ![id] = RetrieveIfLoaded(id)]
    BY DEF StoreSlab
  <1>2. RetrieveIfLoaded(id) \in Slab /\ RetrieveIfLoaded(id) = Retrieve(id)
    BY <1>1, LoadedIsFound DEF Loaded, GraphInv
  <1>3. deltas \in [SlabID -> Slab \cup {Nil, Absent}]
    BY DEF GraphInv, SlabsAreTyped
  <1>4. SlabsAreTyped'
    BY <1>1, <1>2, <1>3 DEF GraphInv, SlabsAreTyped
  <1>5. CacheMatchesBase'
    BY <1>1 DEF GraphInv, CacheMatchesBase
  <1>6. \A x \in SlabID : deltas'[x] = IF x = id THEN RetrieveIfLoaded(id) ELSE deltas[x]
    BY <1>1, <1>3
  <1>7. \A x \in SlabID : Retrieve(x)' = Retrieve(x)
    <2> TAKE x \in SlabID
    <2>1. CASE x = id
      BY <1>2, <1>6, <2>1, SlabFields DEF Retrieve, RetrieveIn, LoadedIn
    <2>2. CASE x # id
      BY <1>1, <1>6, <2>2 DEF Retrieve, RetrieveIn, LoadedIn
    <2> QED  BY <2>1, <2>2
  <1>8. \A x \in SlabID : Found(x)' <=> Found(x)
    BY <1>7 DEF Found, FoundIn, Retrieve
  <1> QED  BY <1>4, <1>5, <1>7, <1>8, GraphShrinks

\* Removing a slab, and the references to it, takes slabs and edges away.
LEMMA RemoveSlabKeeps ==
    ASSUME GraphInv, NEW id \in SlabID, RemoveSlab(id)
    PROVE  GraphInv'
  <1> DEFINE cut(x) == [Retrieve(x) EXCEPT !.refs = @ \ {id}, !.repeated = @ \ {id}]
  <1>1. /\ cache' = cache /\ base' = base
        /\ \A x \in SlabID : deltas'[x] = IF x = id THEN Nil
                                          ELSE IF x \in Referrers(id) THEN cut(x) ELSE deltas[x]
        /\ deltas' = [x \in SlabID |-> deltas'[x]]
    BY DEF RemoveSlab
  <1>2. \A x \in Referrers(id) : x \in SlabID /\ x \in Slabs /\ Retrieve(x) \in Slab
    BY GraphIs DEF Referrers
  <1>3. \A x \in Referrers(id) : /\ cut(x) \in Slab /\ cut(x).refs \subseteq Retrieve(x).refs
                                 /\ cut(x).root = Retrieve(x).root /\ cut(x).meta = Retrieve(x).meta
    BY <1>2 DEF Slab
  <1> HIDE DEF cut
  <1>4. \A x \in SlabID : deltas'[x] \in Slab \cup {Nil, Absent}
    BY <1>1, <1>3 DEF GraphInv, SlabsAreTyped
  <1>5. SlabsAreTyped'
    BY <1>1, <1>4 DEF GraphInv, SlabsAreTyped
  <1>6. CacheMatchesBase'
    BY <1>1 DEF GraphInv, CacheMatchesBase
  <1>7. ASSUME NEW x \in SlabID, Found(x)'
        PROVE  /\ Found(x)
               /\ Retrieve(x)'.refs \subseteq Retrieve(x).refs
               /\ Retrieve(x)'.root = Retrieve(x).root
               /\ Retrieve(x)'.meta => Retrieve(x).meta
    <2>1. CASE x = id
      <3>1. Retrieve(x)' = Nil
        BY <1>1, <2>1, GraphAssumption DEF Retrieve, RetrieveIn, LoadedIn
      <3> QED  BY <1>7, <3>1 DEF Found, FoundIn, Retrieve
    <2>2. CASE x # id /\ x \in Referrers(id)
      <3>1. Retrieve(x)' = cut(x)
        BY <1>1, <1>3, <2>2, SlabFields DEF Retrieve, RetrieveIn, LoadedIn
      <3> QED  BY <1>2, <1>3, <2>2, <3>1 DEF Slabs
    <2>3. CASE x # id /\ x \notin Referrers(id)
      <3>1. Retrieve(x)' = Retrieve(x)
        BY <1>1, <2>3 DEF Retrieve, RetrieveIn, LoadedIn
      <3> QED  BY <1>7, <3>1 DEF Found, FoundIn, Retrieve
    <2> QED  BY <2>1, <2>2, <2>3
  <1> QED  BY <1>5, <1>6, <1>7, GraphShrinks

\* A commit moves slabs from deltas to the base storage and to the cache.
LEMMA CommitKeeps ==
    ASSUME GraphInv, Commit
    PROVE  GraphInv'
  <1>1. /\ \A id \in SlabID : /\ base'[id] = IF deltas[id] = Absent THEN base[id]
                                             ELSE IF deltas[id] = Nil THEN Absent ELSE deltas[id]
                              /\ cache'[id] = RetrieveIfLoaded(id)
                              /\ deltas'[id] = Absent
    BY DEF Commit
  <1>2. \A id \in SlabID : /\ deltas[id] \in Slab \cup {Nil, Absent}
                           /\ cache[id] \in Slab \cup {Nil, Absent}
                           /\ base[id] \in Slab \cup {Absent}
    BY DEF GraphInv, SlabsAreTyped
  <1>3. SlabsAreTyped'
    <2>1. \A id \in SlabID : RetrieveIfLoaded(id) \in Slab \cup {Nil, Absent}
      BY <1>2 DEF RetrieveIfLoaded, LoadedIn
    <2>2. base' \in [SlabID -> Slab \cup {Absent}]
      BY <1>2 DEF Commit
    <2>3. cache' \in [SlabID -> Slab \cup {Nil, Absent}] /\ deltas' \in [SlabID -> Slab \cup {Nil, Absent}]
      BY <2>1 DEF Commit
    <2> QED  BY <2>2, <2>3 DEF SlabsAreTyped
  <1>4. CacheMatchesBase'
    <2> SUFFICES ASSUME NEW id \in SlabID, cache'[id] # Absent
                 PROVE  cache'[id] = IF base'[id] = Absent THEN Nil ELSE base'[id]
      BY DEF CacheMatchesBase
    <2>1. CASE deltas[id] = Absent
      <3>1. cache'[id] = cache[id] /\ base'[id] = base[id]
        BY <1>1, <2>1 DEF RetrieveIfLoaded, LoadedIn
      <3> QED  BY <3>1 DEF GraphInv, CacheMatchesBase
    <2>2. CASE deltas[id] # Absent
      BY <1>1, <2>2 DEF RetrieveIfLoaded, LoadedIn
    <2> QED  BY <2>1, <2>2
  <1>5. \A id \in SlabID : Retrieve(id)' = Retrieve(id)
    <2> TAKE id \in SlabID
    <2>1. Retrieve(id)' = IF RetrieveIfLoaded(id) # Absent THEN RetrieveIfLoaded(id) ELSE base'[id]
      BY <1>1 DEF Retrieve, RetrieveIn, LoadedIn
    <2>2. RetrieveIfLoaded(id) = Absent => base'[id] = base[id]
      BY <1>1 DEF RetrieveIfLoaded, LoadedIn
    <2> QED  BY <2>1, <2>2 DEF Retrieve, RetrieveIn, RetrieveIfLoaded
  <1>6. \A id \in SlabID : Found(id)' <=> Found(id)
    BY <1>5 DEF Found, FoundIn, Retrieve
  <1> QED  BY <1>3, <1>4, <1>5, <1>6, GraphShrinks

\* Without the cache slabs are read from the base storage, where they are.
LEMMA DropCacheKeeps ==
    ASSUME GraphInv, DropCache
    PROVE  GraphInv'
  <1>1. /\ deltas' = deltas /\ base' = base /\ cache' = [id \in SlabID |-> Absent]
    BY DEF DropCache
  <1>2. SlabsAreTyped' /\ CacheMatchesBase'
    BY <1>1 DEF GraphInv, SlabsAreTyped, CacheMatchesBase
  <1>3. ASSUME NEW id \in SlabID, Found(id)'
        PROVE  Found(id) /\ Retrieve(id)' = Retrieve(id)
    <2>1. Retrieve(id)' = (IF deltas[id] # Absent THEN deltas[id] ELSE base[id])
      BY <1>1 DEF Retrieve, RetrieveIn, LoadedIn
    <2>2. Retrieve(id)' \notin {Nil, Absent}
      BY <1>3 DEF Found, FoundIn, Retrieve
    <2>3. cache[id] # Absent => cache[id] = IF base[id] = Absent THEN Nil ELSE base[id]
      BY DEF GraphInv, CacheMatchesBase
    <2>4. Retrieve(id)' = Retrieve(id)
      BY <2>1, <2>2, <2>3 DEF Retrieve, RetrieveIn, LoadedIn
    <2> QED  BY <2>2, <2>4 DEF Found, FoundIn, Retrieve
  <1> QED  BY <1>2, <1>3, GraphShrinks

\* A repair empties maps and removes slabs.
LEMMA FixKeeps ==
    ASSUME GraphInv, FixLoadedBrokenReferences
    PROVE  GraphInv'
  <1>1. Forest /\ AllLoaded /\ cache' = cache /\ base' = base
    BY DEF FixLoadedBrokenReferences
  <1>2. PICK order \in Orders, needToFix \in SUBSET rootSlabIDsWithBrokenData :
           deltas' = fixAll(order, needToFix)
    BY DEF FixLoadedBrokenReferences
  <1> DEFINE F == BrokenMaps \cap needToFix
  <1>3. deltas' = After(F) /\ F \in SUBSET Slabs
    BY <1>1, <1>2, FixAllIs DEF BrokenMaps
  <1>4. \A m \in F : Retrieve(m).root
    BY DEF BrokenMaps, IsMap
  <1> HIDE DEF F
  <1>5. After(F) \in Entries
    BY <1>3, ReadAfter
  <1>6. SlabsAreTyped'
    BY <1>1, <1>3, <1>5 DEF GraphInv, SlabsAreTyped, Entries
  <1>7. CacheMatchesBase'
    BY <1>1 DEF GraphInv, CacheMatchesBase
  <1>8. \A x \in SlabID : Retrieve(x)' = RetrieveIn(After(F), x) /\ (Found(x)' <=> FoundIn(After(F), x))
    BY <1>1, <1>3 DEF Retrieve, RetrieveIn, LoadedIn, Found, FoundIn
  <1>9. ASSUME NEW x \in SlabID, Found(x)'
        PROVE  /\ Found(x)
               /\ Retrieve(x)'.refs \subseteq Retrieve(x).refs
               /\ Retrieve(x)'.root = Retrieve(x).root
               /\ Retrieve(x)'.meta => Retrieve(x).meta
    <2>1. x \notin Gone(F)
      BY <1>3, <1>8, <1>9, ReadAfter
    <2>2. CASE x \in F
      <3>1. Retrieve(x)' = EmptyMap /\ x \in Slabs
        BY <1>3, <1>8, <2>1, <2>2, ReadAfter
      <3>2. Retrieve(x).root \in BOOLEAN
        BY <3>1, GraphIs, SlabFields
      <3>3. EmptyMap.refs = {} /\ EmptyMap.root = TRUE /\ EmptyMap.meta = FALSE
        BY DEF EmptyMap
      <3> QED  BY <1>4, <2>2, <3>1, <3>2, <3>3 DEF Slabs
    <2>3. CASE x \notin F
      <3>1. Retrieve(x)' = Retrieve(x) /\ Found(x)
        BY <1>3, <1>8, <1>9, <2>1, <2>3, ReadAfter
      <3> QED  BY <3>1
    <2> QED  BY <2>2, <2>3
  <1> QED  BY <1>6, <1>7, <1>9, GraphShrinks

\* Every step keeps the invariant.
LEMMA NextKeeps == GraphInv /\ [Next]_storageVars => GraphInv'
  <1> SUFFICES ASSUME GraphInv, [Next]_storageVars PROVE GraphInv'
    OBVIOUS
  <1>1. ASSUME NEW id \in SlabID, LoadSlab(id) PROVE GraphInv'
    BY <1>1, CachingKeeps DEF LoadSlab
  <1>2. ASSUME NEW id \in SlabID, GetAllChildReferences(id) PROVE GraphInv'
    BY <1>2, CachingKeeps DEF GetAllChildReferences
  <1>3. ASSUME NEW id \in SlabID, StoreSlab(id) PROVE GraphInv'
    BY <1>3, StoreSlabKeeps
  <1>4. ASSUME NEW id \in SlabID, RemoveSlab(id) PROVE GraphInv'
    BY <1>4, RemoveSlabKeeps
  <1>5. ASSUME CheckHealth PROVE GraphInv'
    BY <1>5, CachingKeeps DEF CheckHealth
  <1>6. ASSUME UNCHANGED storageVars PROVE GraphInv'
    <2>1. deltas' = deltas /\ cache' = cache /\ base' = base
      BY <1>6 DEF storageVars
    <2>2. SlabsAreTyped' /\ CacheMatchesBase'
      BY <2>1 DEF GraphInv, SlabsAreTyped, CacheMatchesBase
    <2>3. \A id \in SlabID : Retrieve(id)' = Retrieve(id) /\ (Found(id)' <=> Found(id))
      BY <2>1 DEF Retrieve, RetrieveIn, LoadedIn, Found, FoundIn
    <2> QED  BY <2>2, <2>3, GraphShrinks
  <1> QED  BY <1>1, <1>2, <1>3, <1>4, <1>5, <1>6, CommitKeeps, DropCacheKeeps, FixKeeps DEF Next

\* Whatever is loaded, changed, checked, repaired and committed, the slabs are
\* typed, the cache agrees with the base storage, no slab leads to itself and no
\* metadata slab refers to a root.
THEOREM GraphInvariant == Spec => []GraphInv
  BY InitGraph, NextKeeps, PTL DEF Spec

\* SlabIterator lists the slabs that loaded ones lead to, each of them once.
THEOREM ExactIteration == Spec => []IterationIsExact
  <1>1. GraphInv => IterationIsExact
    BY IterationLemma
  <1> QED  BY <1>1, GraphInvariant, PTL

\* CheckStorageHealth accepts what is sound and nothing that is not.
THEOREM ExactHealthCheck == Spec => []HealthCheckIsExact
  <1>1. GraphInv => HealthCheckIsExact
    BY HealthCheckLemma
  <1> QED  BY <1>1, GraphInvariant, PTL

\* FixLoadedBrokenReferences empties the broken maps that it is asked to, removes
\* what they lead to and nothing else, in any order.
THEOREM ExactRepair == Spec => []RepairIsExact
  <1>1. GraphInv => RepairIsExact
    BY RepairLemma
  <1> QED  BY <1>1, GraphInvariant, PTL
=============================================================================
