-------------------------- MODULE ArraySlabsProofs --------------------------
(***************************************************************************)
(* Array data slabs, for any threshold and any sizes of elements: counts   *)
(* and sizes are right after every change; a split never leaves a slab     *)
(* that is too small or too big, a slab that cannot lend can be merged,    *)
(* and lending and borrowing repair one slab without breaking the other.   *)
(* The bisection over the cumulative counts of a metadata slab finds what  *)
(* a scan finds.                                                           *)
(*                                                                         *)
(* Array metadata slabs, for any number of children: the cumulative counts *)
(* that a split, a merge or a rebalance of the slab or of its children     *)
(* patches together are those of the children, sizes stay within the       *)
(* limits, an index leads to its element, and slabs come back from their   *)
(* bytes.                                                                  *)
(***************************************************************************)
EXTENDS ArraySlabs, TLAPS, WellFoundedInduction, SequenceTheorems

-----------------------------------------------------------------------------
(* Sums of sizes, for sequences of any length.  Induction is by smallest   *)
(* counterexample.                                                         *)

\* A nonempty set of natural numbers has a smallest one.
LEMMA SmallestNumber ==
    ASSUME NEW S \in SUBSET Nat, S # {}
    PROVE  \E m \in S : \A n \in S : m <= n
  <1>1. PICK m \in S : \A n \in S : ~ (<<n, m>> \in OpToRel(<, Nat))
    BY NatLessThanWellFounded, WFMin
  <1>2. \A n \in S : ~ (n < m)
    BY <1>1 DEF OpToRel
  <1> QED  BY <1>2

\* Min of a set of numbers is its smallest one.
LEMMA SmallestIs ==
    ASSUME NEW S \in SUBSET Nat, S # {}
    PROVE  Min(S) \in S /\ \A n \in S : Min(S) <= n
  BY SmallestNumber DEF Min

\* A bounded set of numbers has a largest one.
LEMMA LargestIs ==
    ASSUME NEW S \in SUBSET Nat, S # {}, NEW b \in Nat, \A n \in S : n <= b
    PROVE  Max(S) \in S /\ \A n \in S : n <= Max(S)
  <1> DEFINE D == {d \in Nat : \E n \in S : d = b - n}
  <1>1. D \in SUBSET Nat /\ D # {}
    <2>1. PICK n \in S : n \in Nat /\ n <= b
      OBVIOUS
    <2>2. b - n \in Nat
      BY <2>1
    <2> QED  BY <2>1, <2>2
  <1>2. PICK d \in D : \A c \in D : d <= c
    <2> HIDE DEF D
    <2> QED  BY <1>1, SmallestNumber
  <1>3. PICK m \in S : d = b - m
    BY <1>2
  <1>4. \A n \in S : m >= n
    <2> TAKE n \in S
    <2>1. b - n \in D
      OBVIOUS
    <2> QED  BY <1>2, <1>3, <2>1
  <1>5. \E x \in S : \A y \in S : x >= y
    BY <1>4
  <1>6. Max(S) \in S /\ \A y \in S : Max(S) >= y
    BY <1>5 DEF Max
  <1> QED  BY <1>6

-----------------------------------------------------------------------------
(* Sums.                                                                   *)

\* A function adds up the sequence s.
AddsUp(f, s) == f = [i \in 0..Len(s) |-> IF i = 0 THEN 0 ELSE f[i-1] + s[i]]

\* Every sequence has a function that adds it up.
LEMMA SumsExist ==
    ASSUME NEW s \in Seq(Nat)
    PROVE  \E f : AddsUp(f, s)
  <1> DEFINE Up(n) == \E f \in [0..n -> Nat] :
                        f[0] = 0 /\ \A i \in 1..n : f[i] = f[i-1] + s[i]
             Bad == {n \in 0..Len(s) : ~ Up(n)}
  <1>0. Len(s) \in Nat /\ \A i \in 1..Len(s) : s[i] \in Nat
    OBVIOUS
  <1>1. Bad = {}
    <2> SUFFICES ASSUME Bad # {} PROVE FALSE
      OBVIOUS
    <2>1. PICK m \in Bad : \A n \in Bad : m <= n
      <3>1. Bad \in SUBSET Nat
        BY <1>0
      <3> HIDE DEF Bad
      <3> QED  BY <3>1, SmallestNumber
    <2>2. m # 0
      <3> DEFINE z == [i \in 0..0 |-> 0]
      <3>1. z \in [0..0 -> Nat] /\ z[0] = 0 /\ 1..0 = {}
        OBVIOUS
      <3> HIDE DEF z
      <3>2. Up(0)
        BY <3>1
      <3> QED  BY <3>2
    <2>3. m \in 1..Len(s) /\ m - 1 \in 0..Len(s) /\ Up(m - 1)
      <3> HIDE DEF Up
      <3> QED  BY <1>0, <2>1, <2>2
    <2>4. PICK f \in [0..(m-1) -> Nat] :
             f[0] = 0 /\ \A i \in 1..(m-1) : f[i] = f[i-1] + s[i]
      BY <2>3
    <2> DEFINE g == [i \in 0..m |-> IF i = m THEN f[m-1] + s[m] ELSE f[i]]
    <2>5. g \in [0..m -> Nat]
      BY <1>0, <2>3, <2>4
    <2>6. g[0] = 0 /\ \A i \in 1..m : g[i] = g[i-1] + s[i]
      <3>1. \A i \in 0..m : g[i] = IF i = m THEN f[m-1] + s[m] ELSE f[i]
        OBVIOUS
      <3>2. m \in Nat /\ m > 0 /\ 0 \in 0..m
        BY <1>0, <2>3
      <3> HIDE DEF g
      <3>3. ASSUME NEW i \in 1..m PROVE g[i] = g[i-1] + s[i]
        <4>1. i \in 0..m /\ i - 1 \in 0..m /\ i - 1 # m
          BY <3>2
        <4>2. i # m => i \in 1..(m-1)
          BY <3>2
        <4> QED  BY <3>1, <4>1, <4>2, <2>4
      <3> QED  BY <3>1, <3>2, <3>3, <2>4
    <2> HIDE DEF g
    <2>7. Up(m)
      BY <2>5, <2>6
    <2> QED  BY <2>1, <2>7
  <1>2. PICK f \in [0..Len(s) -> Nat] :
           f[0] = 0 /\ \A i \in 1..Len(s) : f[i] = f[i-1] + s[i]
    <2>1. Up(Len(s))
      <3> HIDE DEF Up
      <3> QED  BY <1>0, <1>1
    <2> QED  BY <2>1
  <1>3. f = [i \in 0..Len(s) |-> f[i]]
    OBVIOUS
  <1>4. \A i \in 0..Len(s) : f[i] = IF i = 0 THEN 0 ELSE f[i-1] + s[i]
    BY <1>0, <1>2
  <1>5. f = [i \in 0..Len(s) |-> IF i = 0 THEN 0 ELSE f[i-1] + s[i]]
    BY <1>3, <1>4, Zenon
  <1> QED  BY <1>5 DEF AddsUp

\* Each sum is the one before and one more number.
LEMMA SumsDef ==
    ASSUME NEW s \in Seq(Nat)
    PROVE  /\ Sums(s) \in [0..Len(s) -> Nat]
           /\ Sums(s)[0] = 0
           /\ \A i \in 1..Len(s) : Sums(s)[i] = Sums(s)[i-1] + s[i]
           /\ Total(s) \in Nat
  <1> DEFINE f == Sums(s)
             Bad == {i \in 0..Len(s) : f[i] \notin Nat}
  <1>0. Len(s) \in Nat /\ \A i \in 1..Len(s) : s[i] \in Nat
    OBVIOUS
  <1>1. AddsUp(f, s)
    BY SumsExist, Zenon DEF Sums, AddsUp
  <1>2. f = [i \in 0..Len(s) |-> IF i = 0 THEN 0 ELSE f[i-1] + s[i]]
    BY <1>1 DEF AddsUp
  <1> HIDE DEF f
  <1>3. \A i \in 0..Len(s) : f[i] = IF i = 0 THEN 0 ELSE f[i-1] + s[i]
    BY <1>2
  <1>4. f[0] = 0 /\ \A i \in 1..Len(s) : f[i] = f[i-1] + s[i]
    BY <1>0, <1>3
  <1>5. Bad = {}
    <2> SUFFICES ASSUME Bad # {} PROVE FALSE
      OBVIOUS
    <2>1. PICK m \in Bad : \A n \in Bad : m <= n
      <3>1. Bad \in SUBSET Nat
        BY <1>0
      <3> HIDE DEF Bad
      <3> QED  BY <3>1, SmallestNumber
    <2>2. m \in 0..Len(s) /\ f[m] \notin Nat
      BY <2>1
    <2>3. m \in 1..Len(s) /\ m - 1 \in 0..Len(s) /\ m - 1 \notin Bad
      BY <1>0, <1>4, <2>1, <2>2
    <2>4. f[m-1] \in Nat /\ s[m] \in Nat /\ f[m] = f[m-1] + s[m]
      BY <1>0, <1>4, <2>3
    <2> QED  BY <2>2, <2>4
  <1>6. f \in [0..Len(s) -> Nat]
    BY <1>2, <1>5
  <1>7. Total(s) = f[Len(s)]
    BY DEF Total, f
  <1> QED  BY <1>0, <1>4, <1>6, <1>7 DEF f

\* A part of t that equals the first n numbers of s adds as much.
LEMMA SumsAgree ==
    ASSUME NEW s \in Seq(Nat), NEW t \in Seq(Nat), NEW n \in 0..Len(s), NEW k \in Nat,
           k + n <= Len(t),
           \A i \in 1..n : t[k + i] = s[i]
    PROVE  \A i \in 0..n : Sums(t)[k + i] = Sums(t)[k] + Sums(s)[i]
  <1> DEFINE f == Sums(s)
             g == Sums(t)
             Bad == {i \in 0..n : g[k + i] # g[k] + f[i]}
  <1>1. /\ f \in [0..Len(s) -> Nat] /\ f[0] = 0
        /\ \A i \in 1..Len(s) : f[i] = f[i-1] + s[i]
        /\ g \in [0..Len(t) -> Nat]
        /\ \A i \in 1..Len(t) : g[i] = g[i-1] + t[i]
    BY SumsDef
  <1>2. /\ Len(s) \in Nat /\ Len(t) \in Nat /\ n \in Nat
        /\ \A i \in 1..n : s[i] \in Nat
    <2>1. Len(s) \in Nat /\ Len(t) \in Nat /\ n \in Nat /\ n <= Len(s)
      OBVIOUS
    <2>2. \A i \in 1..n : i \in 1..Len(s)
      BY <2>1
    <2>3. \A i \in 1..Len(s) : s[i] \in Nat
      BY ElementOfSeq
    <2> HIDE DEF Bad
    <2> QED  BY <2>1, <2>2, <2>3, Zenon
  <1> HIDE DEF f, g
  <1> SUFFICES ASSUME Bad # {} PROVE FALSE
    BY DEF f, g
  <1>3. PICK m \in Bad : \A i \in Bad : m <= i
    <2>1. Bad \in SUBSET Nat
      BY <1>2
    <2> HIDE DEF Bad
    <2> QED  BY <2>1, SmallestNumber
  <1>4. m \in 0..n /\ g[k + m] # g[k] + f[m]
    BY <1>3
  <1>5. m \in 1..n /\ m - 1 \in 0..n /\ k + m \in 1..Len(t) /\ m \in 1..Len(s)
    <2>1. k \in 0..Len(t) /\ k + 0 = k
      BY <1>2
    <2>2. g \in [0..Len(t) -> Nat]
      BY <1>1
    <2>3. g[k] \in Nat
      BY <2>1, <2>2
    <2>4. m # 0
      BY <1>1, <1>4, <2>1, <2>3
    <2>5. m \in 0..n
      BY <1>4
    <2>6. n <= Len(s) /\ Len(s) \in Nat /\ Len(t) \in Nat /\ n \in Nat /\ k + n <= Len(t)
      BY <1>2
    <2> HIDE DEF Bad
    <2>7. m \in 1..n /\ m - 1 \in 0..n
      BY <2>4, <2>5, <2>6
    <2>8. k + m \in 1..Len(t)
      BY <2>6, <2>7
    <2>9. m \in 1..Len(s)
      BY <2>6, <2>7
    <2> QED  BY <2>7, <2>8, <2>9
  <1>6. g[k + (m - 1)] = g[k] + f[m - 1]
    BY <1>2, <1>3, <1>5
  <1>7. g[k + m] = g[(k + m) - 1] + t[k + m] /\ f[m] = f[m-1] + s[m] /\ t[k + m] = s[m]
    BY <1>1, <1>5
  <1>8. (k + m) - 1 = k + (m - 1)
    BY <1>5
  <1>9. g[k] \in Nat /\ f[m-1] \in Nat /\ s[m] \in Nat
    <2>1. k \in 0..Len(t) /\ m - 1 \in 0..Len(s)
      BY <1>2, <1>5
    <2>2. g \in [0..Len(t) -> Nat] /\ f \in [0..Len(s) -> Nat]
      BY <1>1
    <2> QED  BY <1>2, <1>5, <2>1, <2>2
  <1>10. g[k + m] = (g[k] + f[m-1]) + s[m]
    BY <1>6, <1>7, <1>8
  <1>11. f[m] = f[m-1] + s[m]
    BY <1>7
  <1>12. (g[k] + f[m-1]) + s[m] = g[k] + (f[m-1] + s[m])
    <2> DEFINE a == g[k]
               b == f[m-1]
               c == s[m]
    <2>1. a \in Nat /\ b \in Nat /\ c \in Nat
      BY <1>9
    <2> HIDE DEF a, b, c
    <2>2. (a + b) + c = a + (b + c)
      BY <2>1
    <2> QED  BY <2>2 DEF a, b, c
  <1> QED  BY <1>4, <1>10, <1>11, <1>12, Zenon

\* Sums grow.
LEMMA SumsGrow ==
    ASSUME NEW s \in Seq(Nat), NEW i \in 0..Len(s), NEW j \in 0..Len(s), i <= j
    PROVE  Sums(s)[i] <= Sums(s)[j]
  <1> DEFINE f == Sums(s)
             Bad == {l \in 0..Len(s) : i <= l /\ ~ (f[i] <= f[l])}
  <1>1. /\ f \in [0..Len(s) -> Nat]
        /\ \A l \in 1..Len(s) : f[l] = f[l-1] + s[l]
    BY SumsDef
  <1>2. Len(s) \in Nat /\ \A l \in 1..Len(s) : s[l] \in Nat
    OBVIOUS
  <1> HIDE DEF f
  <1> SUFFICES ASSUME Bad # {} PROVE FALSE
    BY DEF f
  <1>3. PICK m \in Bad : \A l \in Bad : m <= l
    <2>1. Bad \in SUBSET Nat
      BY <1>2
    <2> HIDE DEF Bad
    <2> QED  BY <2>1, SmallestNumber
  <1>4. m \in 0..Len(s) /\ i <= m /\ ~ (f[i] <= f[m])
    BY <1>3
  <1>5. i # m
    <2>1. f \in [0..Len(s) -> Nat]
      BY <1>1
    <2>2. f[i] \in Nat
      BY <2>1
    <2> QED  BY <1>4, <2>2
  <1>6. m \in 1..Len(s) /\ m - 1 \in 0..Len(s) /\ i <= m - 1 /\ m - 1 \notin Bad
    BY <1>2, <1>3, <1>4, <1>5
  <1>7. f[i] <= f[m-1] /\ f[m] = f[m-1] + s[m]
    BY <1>1, <1>6
  <1>8. f[i] \in Nat /\ f[m-1] \in Nat /\ s[m] \in Nat
    BY <1>1, <1>2, <1>6
  <1> QED  BY <1>4, <1>7, <1>8

\* Cutting a sequence in two after n elements.
IsCut(l, r, s, n) ==
    /\ Len(l) = n /\ Len(r) = Len(s) - n
    /\ \A i \in 1..Len(l) : i \in 1..Len(s) /\ l[i] = s[i]
    /\ \A i \in 1..Len(r) : n + i \in 1..Len(s) /\ r[i] = s[n + i]
    /\ l \o r = s

\* The two parts of a sequence that SubSeq cuts have its elements in order.
LEMMA Cut ==
    ASSUME NEW T, NEW s \in Seq(T), NEW n \in 0..Len(s)
    PROVE  /\ SubSeq(s, 1, n) \in Seq(T)
           /\ SubSeq(s, n + 1, Len(s)) \in Seq(T)
           /\ IsCut(SubSeq(s, 1, n), SubSeq(s, n + 1, Len(s)), s, n)
  <1> DEFINE l == SubSeq(s, 1, n)
             r == SubSeq(s, n + 1, Len(s))
  <1>1. Len(s) \in Nat /\ n \in Nat /\ n <= Len(s)
    OBVIOUS
  <1>2. /\ l \in Seq(T) /\ Len(l) = n
        /\ \A i \in 1..Len(l) : i \in 1..Len(s) /\ l[i] = s[i]
    BY <1>1
  <1>3. /\ r \in Seq(T) /\ Len(r) = Len(s) - n
        /\ \A i \in 1..Len(r) : n + i \in 1..Len(s) /\ r[i] = s[n + i]
    BY <1>1
  <1> HIDE DEF l, r
  <1>4. l \o r = s
    <2>1. 1 \in 1..(Len(s) + 1) /\ n \in (1 - 1)..Len(s) /\ Len(s) \in n..Len(s)
      BY <1>1
    <2>2. SubSeq(s, 1, n) \o SubSeq(s, n + 1, Len(s)) = SubSeq(s, 1, Len(s))
      BY <2>1, ConcatAdjacentSubSeq
    <2> QED  BY <2>2, SubSeqFull DEF l, r
  <1> QED  BY <1>2, <1>3, <1>4 DEF l, r, IsCut

\* Cutting a sequence cuts the sum.
LEMMA SumsOfParts ==
    ASSUME NEW s \in Seq(Nat), NEW n \in 0..Len(s)
    PROVE  /\ SubSeq(s, 1, n) \in Seq(Nat)
           /\ SubSeq(s, n + 1, Len(s)) \in Seq(Nat)
           /\ Len(SubSeq(s, 1, n)) = n
           /\ Len(SubSeq(s, n + 1, Len(s))) = Len(s) - n
           /\ Total(SubSeq(s, 1, n)) = Sums(s)[n]
           /\ Total(SubSeq(s, n + 1, Len(s))) = Total(s) - Sums(s)[n]
  <1> DEFINE l == SubSeq(s, 1, n)
             r == SubSeq(s, n + 1, Len(s))
  <1>1. Len(s) \in Nat /\ n \in Nat /\ n <= Len(s)
    OBVIOUS
  <1>2. /\ l \in Seq(Nat) /\ Len(l) = n
        /\ \A i \in 1..n : s[0 + i] = l[i]
    BY <1>1
  <1>3. /\ r \in Seq(Nat) /\ Len(r) = Len(s) - n
        /\ \A i \in 1..(Len(s) - n) : s[n + i] = r[i]
    BY <1>1
  <1> HIDE DEF l, r
  <1>4. Sums(s)[0 + n] = Sums(s)[0] + Sums(l)[n]
    <2>1. n \in 0..Len(l) /\ 0 + n <= Len(s) /\ n \in 0..n /\ 0 \in Nat
      BY <1>1, <1>2
    <2>2. \A i \in 0..n : Sums(s)[0 + i] = Sums(s)[0] + Sums(l)[i]
      BY <1>2, <2>1, SumsAgree
    <2> QED  BY <2>1, <2>2
  <1>5. Sums(s)[n + (Len(s) - n)] = Sums(s)[n] + Sums(r)[Len(s) - n]
    <2> DEFINE k == Len(s) - n
    <2>1. k \in 0..Len(r) /\ n + k <= Len(s) /\ k \in 0..k
      BY <1>1, <1>3
    <2> HIDE DEF k
    <2>2. \A i \in 1..k : s[n + i] = r[i]
      BY <1>3 DEF k
    <2>3. \A i \in 0..k : Sums(s)[n + i] = Sums(s)[n] + Sums(r)[i]
      BY <1>1, <1>3, <2>1, <2>2, SumsAgree
    <2> QED  BY <2>1, <2>3 DEF k
  <1>6. Sums(s)[0] = 0 /\ Sums(s)[n] \in Nat /\ Sums(l)[n] \in Nat
    BY <1>1, <1>2, SumsDef
  <1>7. Sums(r)[Len(s) - n] \in Nat
    <2>1. Len(s) - n \in 0..Len(r)
      BY <1>1, <1>3
    <2> QED  BY <1>3, <2>1, SumsDef
  <1>8. 0 + n = n /\ n + (Len(s) - n) = Len(s)
    BY <1>1
  <1>9. Total(l) = Sums(l)[n] /\ Total(r) = Sums(r)[Len(s) - n] /\ Total(s) = Sums(s)[Len(s)]
    BY <1>2, <1>3 DEF Total
  <1>10. Total(l) = Sums(s)[n]
    BY <1>4, <1>6, <1>8, <1>9
  <1>11. Total(r) = Total(s) - Sums(s)[n]
    BY <1>5, <1>6, <1>7, <1>8, <1>9
  <1> QED  BY <1>2, <1>3, <1>10, <1>11 DEF l, r

\* The sum of two sequences.
LEMMA SumsOfConcat ==
    ASSUME NEW s \in Seq(Nat), NEW t \in Seq(Nat)
    PROVE  /\ s \o t \in Seq(Nat)
           /\ Len(s \o t) = Len(s) + Len(t)
           /\ \A i \in 0..Len(s) : Sums(s \o t)[i] = Sums(s)[i]
           /\ \A i \in 0..Len(t) : Sums(s \o t)[Len(s) + i] = Total(s) + Sums(t)[i]
           /\ Total(s \o t) = Total(s) + Total(t)
  <1> DEFINE u == s \o t
  <1>1. Len(s) \in Nat /\ Len(t) \in Nat
    OBVIOUS
  <1>2. /\ u \in Seq(Nat) /\ Len(u) = Len(s) + Len(t)
        /\ \A i \in 1..Len(s) : u[0 + i] = s[i]
        /\ \A i \in 1..Len(t) : u[Len(s) + i] = t[i]
    BY <1>1
  <1> HIDE DEF u
  <1>3. \A i \in 0..Len(s) : Sums(u)[0 + i] = Sums(u)[0] + Sums(s)[i]
    <2>1. Len(s) \in 0..Len(s) /\ 0 + Len(s) <= Len(u) /\ 0 \in Nat
      BY <1>1, <1>2
    <2> QED  BY <1>2, <2>1, SumsAgree
  <1>4. \A i \in 0..Len(t) : Sums(u)[Len(s) + i] = Sums(u)[Len(s)] + Sums(t)[i]
    <2>1. Len(t) \in 0..Len(t) /\ Len(s) + Len(t) <= Len(u)
      BY <1>1, <1>2
    <2> QED  BY <1>1, <1>2, <2>1, SumsAgree
  <1>5. Sums(u)[0] = 0 /\ Sums(s) \in [0..Len(s) -> Nat]
    BY <1>2, SumsDef
  <1>6. \A i \in 0..Len(s) : Sums(u)[i] = Sums(s)[i]
    <2> TAKE i \in 0..Len(s)
    <2>1. Sums(s)[i] \in Nat
      BY <1>5
    <2>a. 0 + i = i
      OBVIOUS
    <2>2. Sums(u)[0 + i] = Sums(u)[0] + Sums(s)[i]
      BY <1>3
    <2> QED  BY <1>5, <2>1, <2>a, <2>2
  <1>7. Sums(u)[Len(s)] = Total(s)
    BY <1>1, <1>6 DEF Total
  <1>8. Total(u) = Total(s) + Total(t)
    BY <1>1, <1>2, <1>4, <1>7 DEF Total
  <1> QED  BY <1>2, <1>4, <1>6, <1>7, <1>8 DEF u

\* The sums of a sequence from its end.
LEMMA SumsOfReverse ==
    ASSUME NEW s \in Seq(Nat)
    PROVE  /\ Reverse(s) \in Seq(Nat)
           /\ Len(Reverse(s)) = Len(s)
           /\ \A i \in 0..Len(s) : Sums(Reverse(s))[i] = Total(s) - Sums(s)[Len(s) - i]
  <1> DEFINE u == Reverse(s)
             n == Len(s)
             f == Sums(s)
             g == Sums(u)
             Bad == {i \in 0..n : g[i] # f[n] - f[n - i]}
  <1>1. n \in Nat /\ \A i \in 1..n : s[i] \in Nat
    OBVIOUS
  <1>2. u \in Seq(Nat) /\ Len(u) = n /\ \A i \in 1..n : u[i] = s[(n - i) + 1]
    BY <1>1 DEF Reverse
  <1> HIDE DEF u
  <1>3. f \in [0..n -> Nat] /\ g \in [0..n -> Nat] /\ f[0] = 0 /\ g[0] = 0
    BY <1>2, SumsDef
  <1>4. /\ \A i \in 1..n : f[i] = f[i-1] + s[i]
        /\ \A i \in 1..n : g[i] = g[i-1] + u[i]
    BY <1>2, SumsDef
  <1> HIDE DEF f, g, n
  <1>5. Bad = {}
    <2> SUFFICES ASSUME Bad # {} PROVE FALSE
      OBVIOUS
    <2>1. PICK m \in Bad : \A i \in Bad : m <= i
      <3>1. Bad \in SUBSET Nat
        BY <1>1
      <3> HIDE DEF Bad
      <3> QED  BY <3>1, SmallestNumber
    <2>2. m \in 0..n /\ g[m] # f[n] - f[n - m]
      BY <2>1
    <2>3. m # 0
      BY <1>1, <1>3, <2>2
    <2>4. m \in 1..n /\ m - 1 \in 0..n /\ m - 1 \notin Bad
      BY <1>1, <2>1, <2>2, <2>3
    <2>5. g[m - 1] = f[n] - f[n - (m - 1)]
      BY <2>4
    <2>6. g[m] = g[m-1] + s[(n - m) + 1]
      BY <1>2, <1>4, <2>4
    <2>7. (n - m) + 1 \in 1..n /\ ((n - m) + 1) - 1 = n - m /\ n - (m - 1) = (n - m) + 1
      BY <1>1, <2>4
    <2>8. f[(n - m) + 1] = f[n - m] + s[(n - m) + 1]
      BY <1>4, <2>7
    <2>9. f[n] \in Nat /\ f[n - m] \in Nat /\ s[(n - m) + 1] \in Nat
      BY <1>1, <1>3, <2>2, <2>7
    <2> HIDE DEF Bad
    <2> QED  BY <2>2, <2>5, <2>6, <2>7, <2>8, <2>9
  <1>6. \A i \in 0..n : g[i] = f[n] - f[n - i]
    BY <1>5
  <1> QED  BY <1>2, <1>6 DEF f, g, u, n, Total

\* A sequence reversed adds up to the same.
LEMMA TotalOfReverse ==
    ASSUME NEW s \in Seq(Nat)
    PROVE  /\ Reverse(s) \in Seq(Nat) /\ Len(Reverse(s)) = Len(s)
           /\ Total(Reverse(s)) = Total(s)
           /\ \A i \in 1..Len(s) : \E j \in 1..Len(s) : Reverse(s)[i] = s[j]
  <1>1. Len(s) \in Nat /\ Len(s) \in 0..Len(s) /\ Len(s) - Len(s) = 0
    OBVIOUS
  <1>2. Total(Reverse(s)) = Total(s) - Sums(s)[0]
    BY <1>1, SumsOfReverse DEF Total
  <1>3. Total(s) \in Nat /\ Sums(s)[0] = 0
    BY SumsDef
  <1>4. ASSUME NEW i \in 1..Len(s)
        PROVE  \E j \in 1..Len(s) : Reverse(s)[i] = s[j]
    <2>1. (Len(s) - i) + 1 \in 1..Len(s)
      BY <1>1
    <2> QED  BY <2>1 DEF Reverse
  <1> QED  BY <1>2, <1>3, <1>4, SumsOfReverse

\* Sums pass a number at one place.
LEMMA Passing ==
    ASSUME NEW s \in Seq(Nat), NEW b \in Nat, b > 0, Total(s) >= b
    PROVE  \E i \in 1..Len(s) :
              /\ Sums(s)[i] >= b /\ Sums(s)[i-1] < b
              /\ Sums(s)[i] = Sums(s)[i-1] + s[i]
              /\ {Sums(s)[i], Sums(s)[i-1], s[i]} \subseteq Nat
  <1> DEFINE f == Sums(s)
             S == {j \in 1..Len(s) : f[j] >= b}
  <1>1. /\ f \in [0..Len(s) -> Nat] /\ f[0] = 0 /\ f[Len(s)] >= b
        /\ \A j \in 1..Len(s) : f[j] = f[j-1] + s[j]
    BY SumsDef DEF Total
  <1>2. Len(s) \in Nat /\ \A j \in 1..Len(s) : s[j] \in Nat
    OBVIOUS
  <1> HIDE DEF f
  <1>3. Len(s) # 0
    BY <1>1
  <1>4. PICK i \in S : \A j \in S : i <= j
    <2>1. Len(s) \in S /\ S \in SUBSET Nat
      BY <1>1, <1>2, <1>3
    <2> HIDE DEF S
    <2> QED  BY <2>1, SmallestNumber
  <1>5. i \in 1..Len(s) /\ f[i] >= b /\ i \in 0..Len(s) /\ i - 1 \in 0..Len(s)
    BY <1>2, <1>4
  <1>6. f[i] \in Nat /\ f[i-1] \in Nat /\ s[i] \in Nat /\ f[i] = f[i-1] + s[i]
    BY <1>1, <1>2, <1>5
  <1>7. f[i-1] < b
    <2>1. CASE i = 1
      BY <1>1, <2>1
    <2>2. CASE i # 1
      <3>1. i - 1 \in 1..Len(s) /\ ~ (i <= i - 1)
        BY <1>2, <1>5, <2>2
      <3>2. i - 1 \notin S
        BY <1>4, <3>1
      <3>3. ~ (f[i-1] >= b)
        BY <3>1, <3>2
      <3> QED  BY <1>6, <3>3
    <2> QED  BY <2>1, <2>2
  <1> QED  BY <1>5, <1>6, <1>7 DEF f

-----------------------------------------------------------------------------
(* Slabs.                                                                  *)

\* A data slab that is not the root, as VerifyArray wants it.
DataSlabs == [kind : {"data"}, count : Nat, size : Nat, next : ID \cup {Undefined},
              elements : Seq(Nat), extra : {FALSE}]

SoundData(slab) == slab \in DataSlabs /\ verifyDataSlab(slab)

WithinLimits(slab) == ~ IsUnderflow(slab) /\ ~ IsFull(slab)

-----------------------------------------------------------------------------
(* Numbers.                                                                *)

\* The limits.
LEMMA Limits ==
    /\ TargetThreshold \in Nat /\ MinThreshold \in Nat /\ MaxThreshold \in Nat
    /\ MaxInlineElementSize \in Nat /\ DataPrefixSize \in Nat
    /\ 2 * MinThreshold <= TargetThreshold /\ TargetThreshold <= 2 * MinThreshold + 1
    /\ 2 * MaxThreshold <= 3 * TargetThreshold /\ 3 * TargetThreshold <= 2 * MaxThreshold + 1
    /\ 2 * MaxInlineElementSize <= TargetThreshold - DataPrefixSize
    /\ DataPrefixSize < MinThreshold /\ DataPrefixSize > 0
  BY StoreAssumption, SizesAssumption DEF MinThreshold, MaxThreshold, MaxInlineElementSize

\* A size between the limits.
LEMMA InLimits ==
    ASSUME NEW slab, NEW size \in Int, slab.size = size,
           MinThreshold <= size, size <= MaxThreshold
    PROVE  WithinLimits(slab)
  BY Limits DEF WithinLimits, IsUnderflow, IsFull

\* What a slab that is too small lacks.
LEMMA Lacks ==
    ASSUME NEW slab, slab.size \in Nat, IsUnderflow(slab)
    PROVE  MinThreshold - slab.size \in Nat /\ MinThreshold - slab.size > 0
  BY Limits DEF IsUnderflow

\* The size of a slab that lacks bytes and of one that cannot lend them, merged.
LEMMA MergedSize ==
    ASSUME NEW a \in Nat, NEW b \in Nat, a >= DataPrefixSize, b >= MinThreshold,
           b < MinThreshold + (MinThreshold - a) + MaxInlineElementSize
    PROVE  /\ MinThreshold <= (a + b) - DataPrefixSize
           /\ (a + b) - DataPrefixSize <= MaxThreshold
  BY Limits

-----------------------------------------------------------------------------
(* Data slabs.                                                             *)

\* What a sound slab is made of.
LEMMA SoundParts ==
    ASSUME NEW slab, SoundData(slab)
    PROVE  /\ slab \in DataSlabs
           /\ slab.elements \in Seq(Nat) /\ slab.count = Len(slab.elements)
           /\ slab.size \in Nat /\ slab.size = DataPrefixSize + Total(slab.elements)
           /\ \A i \in 1..Len(slab.elements) :
                 slab.elements[i] \in Nat /\ 1 <= slab.elements[i]
                 /\ slab.elements[i] <= MaxInlineElementSize
  <1>1. /\ slab.elements \in Seq(Nat) /\ slab.count = Len(slab.elements)
        /\ slab.size \in Nat /\ slab.extra = FALSE
        /\ slab.size = PrefixSize(slab) + Total(slab.elements)
        /\ Range(slab.elements) \subseteq 1..MaxInlineElementSize
    BY DEF SoundData, DataSlabs, verifyDataSlab
  <1>2. PrefixSize(slab) = DataPrefixSize
    BY <1>1 DEF PrefixSize
  <1>3. ASSUME NEW i \in 1..Len(slab.elements)
        PROVE  slab.elements[i] \in 1..MaxInlineElementSize
    <2>1. slab.elements[i] \in Range(slab.elements)
      BY <1>1 DEF Range
    <2> QED  BY <1>1, <2>1
  <1> QED  BY <1>1, <1>2, <1>3, Limits DEF SoundData

\* A slab with the elements of sound slabs, counted and added up, is sound.
LEMMA IsSound ==
    ASSUME NEW slab \in DataSlabs,
           slab.count = Len(slab.elements),
           slab.size = DataPrefixSize + Total(slab.elements),
           \A i \in 1..Len(slab.elements) :
              1 <= slab.elements[i] /\ slab.elements[i] <= MaxInlineElementSize
    PROVE  SoundData(slab)
  <1>1. slab.elements \in Seq(Nat) /\ slab.extra = FALSE
    BY DEF DataSlabs
  <1>2. PrefixSize(slab) = DataPrefixSize
    BY <1>1 DEF PrefixSize
  <1>3. Range(slab.elements) \subseteq 1..MaxInlineElementSize
    BY <1>1, Limits DEF Range
  <1> QED  BY <1>2, <1>3 DEF SoundData, verifyDataSlab

\* Where a full slab is cut: the sides differ by no more than the element in
\* the middle.
LEMMA SplitCountIs ==
    ASSUME NEW slab, SoundData(slab), slab.size > DataPrefixSize
    PROVE  LET n == DataSplitCount(slab)
               leftSize == Sums(slab.elements)[n]
               rest == Total(slab.elements) - leftSize
           IN /\ n \in 0..Len(slab.elements)
              /\ leftSize \in Nat /\ rest \in Nat
              /\ leftSize <= rest + MaxInlineElementSize
              /\ rest <= leftSize + MaxInlineElementSize
  <1> DEFINE s == slab.elements
             f == Sums(s)
             d == Total(s)
             mid == (d + 1) \div 2
             S == {j \in 1..Len(s) : f[j] >= mid}
             i == Min(S)
             n == DataSplitCount(slab)
  <1>1. /\ s \in Seq(Nat) /\ slab.size = DataPrefixSize + Total(s)
        /\ \A j \in 1..Len(s) : s[j] \in Nat /\ s[j] <= MaxInlineElementSize
    BY SoundParts
  <1>2. /\ f \in [0..Len(s) -> Nat] /\ f[0] = 0 /\ d \in Nat /\ d = f[Len(s)]
        /\ \A j \in 1..Len(s) : f[j] = f[j-1] + s[j]
    BY <1>1, SumsDef DEF Total
  <1>3. slab.size - DataPrefixSize = d /\ d > 0
    BY <1>1, <1>2, Limits
  <1>4. n = IF f[i-1] <= d - f[i] THEN i ELSE i - 1
    <2>1. DOMAIN s = 1..Len(s)
      BY <1>1
    <2> QED  BY <1>3, <2>1 DEF DataSplitCount
  <1>5. Len(s) \in Nat /\ Len(s) # 0 /\ mid \in Nat /\ mid <= d /\ mid > 0 /\ d <= 2 * mid /\ 2 * mid <= d + 1
    BY <1>1, <1>2, <1>3
  <1> HIDE DEF s, f, d, mid, n
  <1>6. i \in S /\ \A j \in S : i <= j
    <2>1. Len(s) \in S /\ S \in SUBSET Nat
      BY <1>2, <1>5
    <2> HIDE DEF S
    <2> QED  BY <2>1, SmallestIs
  <1> HIDE DEF i
  <1>7. i \in 1..Len(s) /\ f[i] >= mid
    BY <1>6
  <1>8. f[i] \in Nat /\ f[i-1] \in Nat /\ f[i] = f[i-1] + s[i] /\ s[i] \in Nat
        /\ s[i] <= MaxInlineElementSize /\ f[i] <= d
    <2>1. i \in 0..Len(s) /\ i - 1 \in 0..Len(s) /\ Len(s) \in 0..Len(s) /\ i <= Len(s)
      BY <1>5, <1>7
    <2>2. f[i] <= f[Len(s)]
      BY <1>1, <2>1, SumsGrow DEF f
    <2> QED  BY <1>1, <1>2, <1>7, <2>1, <2>2
  <1>9. f[i-1] < mid
    <2>1. CASE i = 1
      BY <1>2, <1>5, <2>1
    <2>2. CASE i # 1
      <3>1. i - 1 \in 1..Len(s) /\ ~ (i <= i - 1)
        BY <1>7, <2>2
      <3>2. i - 1 \notin S
        BY <1>6, <3>1
      <3> QED  BY <1>5, <1>8, <3>1, <3>2
    <2> QED  BY <2>1, <2>2
  <1>10. CASE f[i-1] <= d - f[i]
    <2>1. n = i /\ n \in 0..Len(s)
      BY <1>4, <1>5, <1>7, <1>10
    <2>2. f[i] \in Nat /\ d - f[i] \in Nat
      BY <1>2, <1>8
    <2>3. f[i] <= (d - f[i]) + MaxInlineElementSize /\ d - f[i] <= f[i] + MaxInlineElementSize
      <3> DEFINE x == f[i-1]
                 y == f[i]
                 e == s[i]
      <3>1. /\ x \in Nat /\ y \in Nat /\ e \in Nat /\ d \in Nat /\ mid \in Nat
            /\ y = x + e /\ e <= MaxInlineElementSize /\ x <= d - y /\ y >= mid /\ d <= 2 * mid
        BY <1>2, <1>5, <1>7, <1>8, <1>10
      <3> HIDE DEF x, y, e
      <3>2. y <= (d - y) + MaxInlineElementSize /\ d - y <= y + MaxInlineElementSize
        BY <3>1, Limits
      <3> QED  BY <3>2 DEF y
    <2> QED  BY <2>1, <2>2, <2>3 DEF n, f, d, s
  <1>11. CASE ~ (f[i-1] <= d - f[i])
    <2>1. n = i - 1 /\ n \in 0..Len(s)
      BY <1>4, <1>5, <1>7, <1>11
    <2>2. f[i-1] \in Nat /\ d - f[i-1] \in Nat
      BY <1>2, <1>8
    <2>3. f[i-1] <= (d - f[i-1]) + MaxInlineElementSize /\ d - f[i-1] <= f[i-1] + MaxInlineElementSize
      <3> DEFINE x == f[i-1]
                 y == f[i]
                 e == s[i]
      <3>1. /\ x \in Nat /\ y \in Nat /\ e \in Nat /\ d \in Nat /\ mid \in Nat
            /\ y = x + e /\ e <= MaxInlineElementSize /\ ~ (x <= d - y)
            /\ x < mid /\ 2 * mid <= d + 1
        BY <1>2, <1>5, <1>8, <1>9, <1>11
      <3> HIDE DEF x, y, e
      <3>2. x <= (d - x) + MaxInlineElementSize /\ d - x <= x + MaxInlineElementSize
        BY <3>1, Limits
      <3> QED  BY <3>2 DEF x
    <2> QED  BY <2>1, <2>2, <2>3 DEF n, f, d, s
  <1> QED  BY <1>10, <1>11

\* A full data slab splits into two that are neither too small nor too big and
\* have its elements in order, whatever their sizes (ArrayDataSlab.Split).  A
\* slab gets full by one element; that of a root also gets a longer prefix
\* (splitRoot).
THEOREM DataSplitInLimits ==
    ASSUME NEW slab, NEW rightID \in ID, SoundData(slab), IsFull(slab),
           slab.size <= MaxThreshold + MaxInlineElementSize + DataPrefixSize
    PROVE  LET parts == DataSplit(slab, rightID)
           IN /\ SoundData(parts.left) /\ WithinLimits(parts.left)
              /\ SoundData(parts.right) /\ WithinLimits(parts.right)
              /\ parts.left.elements \o parts.right.elements = slab.elements
              /\ parts.left.next = rightID /\ parts.right.next = slab.next
  <1> DEFINE s == slab.elements
             n == DataSplitCount(slab)
             l == SubSeq(s, 1, n)
             r == SubSeq(s, n + 1, Len(s))
             x == Sums(s)[n]
             d == slab.size - DataPrefixSize
             left == DataSlab(l, DataPrefixSize + x, rightID)
             right == DataSlab(r, DataPrefixSize + d - x, slab.next)
  <1>1. /\ s \in Seq(Nat) /\ slab.size \in Nat /\ slab.size = DataPrefixSize + Total(s)
        /\ \A i \in 1..Len(s) : s[i] \in Nat /\ 1 <= s[i] /\ s[i] <= MaxInlineElementSize
        /\ slab.next \in ID \cup {Undefined} /\ Total(s) \in Nat
    <2>1. slab \in DataSlabs
      BY SoundParts
    <2>2. slab.next \in ID \cup {Undefined}
      BY <2>1 DEF DataSlabs
    <2>3. s \in Seq(Nat)
      BY SoundParts
    <2> QED  BY <2>2, <2>3, SoundParts, SumsDef
  <1>2. slab.size > MaxThreshold /\ d = Total(s) /\ slab.size > DataPrefixSize
    BY <1>1, Limits DEF IsFull
  <1>3. /\ n \in 0..Len(s) /\ x \in Nat /\ d - x \in Nat
        /\ x <= (d - x) + MaxInlineElementSize /\ d - x <= x + MaxInlineElementSize
    <2>1. LET rest == Total(s) - x
          IN /\ n \in 0..Len(s) /\ x \in Nat /\ rest \in Nat
             /\ x <= rest + MaxInlineElementSize /\ rest <= x + MaxInlineElementSize
      BY <1>2, SplitCountIs
    <2> HIDE DEF x, d, s, n
    <2> QED  BY <1>2, <2>1
  <1>4. /\ DataSplit(slab, rightID).left = left
        /\ DataSplit(slab, rightID).right = right
    BY DEF DataSplit
  <1> HIDE DEF x, n
  <1>5. /\ l \in Seq(Nat) /\ Len(l) = n /\ Total(l) = x
        /\ r \in Seq(Nat) /\ Len(r) = Len(s) - n /\ Total(r) = d - x
    BY <1>1, <1>2, <1>3, SumsOfParts DEF x
  <1>6. /\ \A i \in 1..Len(l) : 1 <= l[i] /\ l[i] <= MaxInlineElementSize
        /\ \A i \in 1..Len(r) : 1 <= r[i] /\ r[i] <= MaxInlineElementSize
        /\ l \o r = s
    <2>1. /\ \A i \in 1..Len(l) : i \in 1..Len(s) /\ l[i] = s[i]
          /\ \A i \in 1..Len(r) : n + i \in 1..Len(s) /\ r[i] = s[n + i]
          /\ l \o r = s
      <3>1. IsCut(l, r, s, n)
        BY <1>1, <1>3, Cut
      <3> HIDE DEF l, r, s
      <3> QED  BY <3>1 DEF IsCut
    <2> HIDE DEF l, r, s
    <2> QED  BY <1>1, <2>1
  <1>7. /\ MinThreshold <= DataPrefixSize + x /\ DataPrefixSize + x <= MaxThreshold
        /\ MinThreshold <= DataPrefixSize + d - x /\ DataPrefixSize + d - x <= MaxThreshold
    <2> DEFINE y == d - x
    <2>1. slab.size \in Nat /\ slab.size = DataPrefixSize + (x + y) /\ y \in Nat
      BY <1>1, <1>2, <1>3, Limits
    <2>2. DataPrefixSize + d - x = DataPrefixSize + y
      BY <1>1, <1>2, <1>3, Limits
    <2>3. x <= y + MaxInlineElementSize /\ y <= x + MaxInlineElementSize
      BY <1>3
    <2> HIDE DEF y, d, s
    <2>4. /\ MinThreshold <= DataPrefixSize + x /\ DataPrefixSize + x <= MaxThreshold
          /\ MinThreshold <= DataPrefixSize + y /\ DataPrefixSize + y <= MaxThreshold
      BY <1>2, <1>3, <2>1, <2>3, Limits
    <2> QED  BY <2>2, <2>4
  <1> HIDE DEF l, r, s, d
  <1>8. /\ left \in DataSlabs /\ left.elements = l /\ left.count = Len(l)
        /\ left.size = DataPrefixSize + x /\ left.next = rightID
    BY <1>3, <1>5, Limits DEF DataSlab, DataSlabs
  <1>9. /\ right \in DataSlabs /\ right.elements = r /\ right.count = Len(r)
        /\ right.size = DataPrefixSize + d - x /\ right.next = slab.next
        /\ right.size = DataPrefixSize + (d - x)
    <2>1. DataPrefixSize + d - x = DataPrefixSize + (d - x) /\ d \in Nat
      BY <1>1, <1>2, <1>3, Limits
    <2>2. DataPrefixSize + d - x \in Nat
      BY <1>3, <2>1, Limits
    <2> QED  BY <1>1, <1>5, <2>1, <2>2 DEF DataSlab, DataSlabs
  <1> HIDE DEF left, right
  <1>10. SoundData(left) /\ SoundData(right)
    BY <1>5, <1>6, <1>8, <1>9, IsSound
  <1>11. WithinLimits(left) /\ WithinLimits(right)
    <2>1. left.size \in Int /\ right.size \in Int
      BY <1>8, <1>9 DEF DataSlabs
    <2> QED  BY <1>7, <1>8, <1>9, <2>1, InLimits
  <1> QED  BY <1>4, <1>6, <1>8, <1>9, <1>10, <1>11 DEF s

\* What a merge changes.
LEMMA MergeFields ==
    ASSUME NEW left \in DataSlabs, NEW right \in DataSlabs,
           (left.size + right.size) - DataPrefixSize \in Nat
    PROVE  LET merged == DataMerge(left, right)
           IN /\ merged \in DataSlabs
              /\ merged.elements = left.elements \o right.elements
              /\ merged.size = (left.size + right.size) - DataPrefixSize
              /\ merged.count = left.count + right.count
              /\ merged.next = right.next
  <1> DEFINE merged == DataMerge(left, right)
             s == left.elements \o right.elements
             n == left.count + right.count
             z == left.size + (right.size - DataPrefixSize)
             x == right.next
  <1>1. s \in Seq(Nat) /\ n \in Nat /\ x \in ID \cup {Undefined}
    BY DEF DataSlabs
  <1>2. merged = [left EXCEPT !.elements = s, !.size = z, !.count = n, !.next = x]
    BY DEF DataMerge
  <1>3. z \in Nat /\ z = (left.size + right.size) - DataPrefixSize
    BY Limits DEF DataSlabs
  <1> HIDE DEF merged, s, n, z, x
  <1>4. /\ merged \in DataSlabs /\ merged.elements = s /\ merged.size = z
        /\ merged.count = n /\ merged.next = x
    BY <1>1, <1>2, <1>3 DEF DataSlabs
  <1> QED  BY <1>3, <1>4 DEF merged, s, n, x

\* The elements of a slab, from either end.
ElementsOf(slab, elements) ==
    /\ Len(elements) = Len(slab.elements)
    /\ Total(elements) = Total(slab.elements)
    /\ \A i \in 1..Len(elements) : elements[i] <= MaxInlineElementSize

\* A slab that cannot lend is not much bigger than the minimum.
LEMMA CannotLend ==
    ASSUME NEW slab, SoundData(slab), NEW elements \in Seq(Nat), ElementsOf(slab, elements),
           NEW need \in Nat, need > 0,
           ~ DataCanLend(slab, elements, need)
    PROVE  slab.size < MinThreshold + need + MaxInlineElementSize
  <1>1. /\ slab.size \in Nat /\ slab.count = Len(elements)
        /\ slab.size = DataPrefixSize + Total(elements)
    BY SoundParts DEF ElementsOf
  <1>2. /\ Total(elements) \in Nat /\ Len(elements) \in Nat /\ DOMAIN elements = 1..Len(elements)
        /\ Total(elements) = Sums(elements)[Len(elements)]
        /\ \A i \in 1..Len(elements) : elements[i] \in Nat
    BY SumsDef DEF Total
  <1>3. CASE slab.count < 2
    <2>1. Total(elements) <= MaxInlineElementSize
      <3>1. CASE Len(elements) = 0
        <4>1. Sums(elements)[0] = 0
          BY SumsDef
        <4> QED  BY <1>2, <3>1, <4>1, Limits
      <3>2. CASE Len(elements) = 1
        <4>1. Sums(elements)[1] = Sums(elements)[1-1] + elements[1] /\ Sums(elements)[0] = 0
          BY <3>2, SumsDef
        <4>2. elements[1] \in Nat /\ elements[1] <= MaxInlineElementSize
          BY <1>2, <3>2 DEF ElementsOf
        <4> QED  BY <1>2, <3>2, <4>1, <4>2, Limits
      <3>3. Len(elements) < 2
        BY <1>1, <1>3, Zenon
      <3>4. Len(elements) = 0 \/ Len(elements) = 1
        <4> DEFINE n == Len(elements)
        <4>1. n \in Nat /\ n < 2
          BY <3>3
        <4> HIDE DEF n
        <4>2. n = 0 \/ n = 1
          BY <4>1
        <4> QED  BY <4>2 DEF n
      <3> QED  BY <3>1, <3>2, <3>4
    <2> QED  BY <1>1, <1>2, <2>1, Limits
  <1>4. CASE ~ (slab.size - need >= MinThreshold)
    BY <1>1, <1>4, Limits
  <1>5. CASE Total(elements) < need
    BY <1>1, <1>2, <1>5, Limits
  <1>6. CASE /\ slab.count >= 2 /\ slab.size - need >= MinThreshold /\ Total(elements) >= need
    <2>1. PICK i \in 1..Len(elements) :
             /\ Sums(elements)[i] >= need /\ Sums(elements)[i-1] < need
             /\ Sums(elements)[i] = Sums(elements)[i-1] + elements[i]
             /\ {Sums(elements)[i], Sums(elements)[i-1], elements[i]} \subseteq Nat
      BY <1>6, Passing
    <2>2. ~ (slab.size - Sums(elements)[i] >= MinThreshold)
      BY <1>2, <1>6, <2>1 DEF DataCanLend
    <2>3. elements[i] <= MaxInlineElementSize
      BY DEF ElementsOf
    <2> DEFINE x == Sums(elements)[i]
               y == Sums(elements)[i-1]
               e == elements[i]
    <2>4. /\ x \in Nat /\ y \in Nat /\ e \in Nat /\ x = y + e /\ y < need
          /\ e <= MaxInlineElementSize /\ ~ (slab.size - x >= MinThreshold)
      BY <2>1, <2>2, <2>3
    <2> HIDE DEF x, y, e
    <2> QED  BY <1>1, <2>4, Limits
  <1> QED  BY <1>1, <1>2, <1>3, <1>4, <1>5, <1>6, Limits

\* Two neighbours, one too small and the other unable to lend, become one slab
\* that is neither too small nor too big (ArrayDataSlab.Merge, as it is called
\* by ArrayMetaDataSlab.mergeOrRebalanceChildSlab).
THEOREM DataMergeInLimits ==
    ASSUME NEW left, NEW right, SoundData(left), SoundData(right),
           \/ /\ IsUnderflow(left) /\ WithinLimits(right)
              /\ ~ CanLendToLeft(right, MinThreshold - left.size)
           \/ /\ IsUnderflow(right) /\ WithinLimits(left)
              /\ ~ CanLendToRight(left, MinThreshold - right.size)
    PROVE  LET merged == Merge(left, right)
           IN /\ SoundData(merged) /\ WithinLimits(merged)
              /\ merged.elements = left.elements \o right.elements
              /\ merged.next = right.next
  <1> DEFINE s == left.elements
             t == right.elements
             merged == DataMerge(left, right)
             size == (left.size + right.size) - DataPrefixSize
  <1>1. /\ left \in DataSlabs /\ s \in Seq(Nat) /\ left.count = Len(s)
        /\ left.size \in Nat /\ left.size = DataPrefixSize + Total(s)
        /\ \A i \in 1..Len(s) : s[i] \in Nat /\ 1 <= s[i] /\ s[i] <= MaxInlineElementSize
    BY SoundParts
  <1>2. /\ right \in DataSlabs /\ t \in Seq(Nat) /\ right.count = Len(t)
        /\ right.size \in Nat /\ right.size = DataPrefixSize + Total(t)
        /\ \A i \in 1..Len(t) : t[i] \in Nat /\ 1 <= t[i] /\ t[i] <= MaxInlineElementSize
    BY SoundParts
  <1>3. /\ Total(s) \in Nat /\ Total(t) \in Nat
        /\ s \o t \in Seq(Nat) /\ Len(s \o t) = Len(s) + Len(t)
        /\ Total(s \o t) = Total(s) + Total(t)
    BY <1>1, <1>2, SumsDef, SumsOfConcat
  <1>4. Merge(left, right) = merged
    BY <1>1 DEF Merge, IsData, DataSlabs
  <1>0. /\ left.size \in Nat /\ right.size \in Nat /\ Len(s) \in Nat /\ Len(t) \in Nat
        /\ left.size >= DataPrefixSize /\ right.size >= DataPrefixSize
    <2>1. Len(s) \in Nat /\ Len(t) \in Nat
      BY <1>1, <1>2
    <2> HIDE DEF s, t
    <2> QED  BY <1>1, <1>2, <1>3, <2>1, Limits
  <1>5. /\ merged \in DataSlabs /\ merged.elements = s \o t /\ merged.count = Len(s) + Len(t)
        /\ merged.size = size /\ merged.next = right.next
    <2>1. size \in Nat /\ Len(s) + Len(t) \in Nat
      <3> HIDE DEF s, t
      <3> QED  BY <1>0, Limits
    <2>2. left \in DataSlabs /\ right \in DataSlabs
      BY <1>1, <1>2
    <2>3. /\ merged \in DataSlabs /\ merged.elements = s \o t /\ merged.size = size
          /\ merged.count = left.count + right.count /\ merged.next = right.next
      BY <2>1, <2>2, MergeFields
    <2> HIDE DEF merged, size, s, t
    <2> QED  BY <1>1, <1>2, <2>3
  <1>6. MinThreshold <= size /\ size <= MaxThreshold
    <2>1. CASE /\ IsUnderflow(left) /\ WithinLimits(right)
               /\ ~ CanLendToLeft(right, MinThreshold - left.size)
      <3>1. ~ DataCanLend(right, t, MinThreshold - left.size)
        BY <1>2, <2>1 DEF CanLendToLeft, IsData, DataSlabs
      <3>2. MinThreshold - left.size \in Nat /\ MinThreshold - left.size > 0
        BY <1>1, <2>1, Lacks
      <3>3. right.size < MinThreshold + (MinThreshold - left.size) + MaxInlineElementSize
        <4>1. ElementsOf(right, t)
          BY <1>2 DEF ElementsOf
        <4> QED  BY <1>2, <3>1, <3>2, <4>1, CannotLend
      <3>4. right.size >= MinThreshold
        BY <1>2, <2>1, Limits DEF WithinLimits, IsUnderflow
      <3> QED  BY <1>0, <3>3, <3>4, MergedSize
    <2>2. CASE /\ IsUnderflow(right) /\ WithinLimits(left)
               /\ ~ CanLendToRight(left, MinThreshold - right.size)
      <3>1. ~ DataCanLend(left, Reverse(s), MinThreshold - right.size)
        BY <1>1, <2>2 DEF CanLendToRight, IsData, DataSlabs
      <3>2. MinThreshold - right.size \in Nat /\ MinThreshold - right.size > 0
        BY <1>2, <2>2, Lacks
      <3>3. /\ Reverse(s) \in Seq(Nat) /\ Len(Reverse(s)) = Len(s)
            /\ Total(Reverse(s)) = Total(s)
            /\ \A i \in 1..Len(Reverse(s)) : Reverse(s)[i] <= MaxInlineElementSize
        BY <1>1, TotalOfReverse
      <3>4. left.size < MinThreshold + (MinThreshold - right.size) + MaxInlineElementSize
        <4>1. ElementsOf(left, Reverse(s))
          BY <3>3 DEF ElementsOf
        <4> QED  BY <1>1, <3>1, <3>2, <3>3, <4>1, CannotLend
      <3>5. left.size >= MinThreshold
        BY <1>1, <2>2, Limits DEF WithinLimits, IsUnderflow
      <3>6. (right.size + left.size) - DataPrefixSize = size
        BY <1>0, Limits
      <3> QED  BY <1>0, <3>4, <3>5, <3>6, MergedSize
    <2> QED  BY <2>1, <2>2
  <1>7. \A i \in 1..Len(s \o t) : 1 <= (s \o t)[i] /\ (s \o t)[i] <= MaxInlineElementSize
    <2> HIDE DEF s, t
    <2> SUFFICES ASSUME NEW i \in 1..(Len(s) + Len(t))
                 PROVE  1 <= (s \o t)[i] /\ (s \o t)[i] <= MaxInlineElementSize
      BY <1>3
    <2>1. CASE i <= Len(s)
      <3>1. i \in 1..Len(s) /\ (s \o t)[i] = s[i]
        BY <1>1, <1>2, <1>0, <2>1
      <3> QED  BY <1>1, <3>1
    <2>2. CASE ~ (i <= Len(s))
      <3>1. i - Len(s) \in 1..Len(t) /\ (s \o t)[i] = t[i - Len(s)]
        BY <1>1, <1>2, <1>0, <2>2
      <3> QED  BY <1>2, <3>1
    <2> QED  BY <2>1, <2>2
  <1> HIDE DEF merged, s, t
  <1>8. SoundData(merged)
    <2>1. size = DataPrefixSize + Total(s \o t)
      BY <1>1, <1>2, <1>3, Limits
    <2> QED  BY <1>3, <1>5, <1>7, <2>1, IsSound
  <1>9. WithinLimits(merged)
    <2>1. size \in Int
      BY <1>0, Limits
    <2> QED  BY <1>5, <1>6, <2>1, InLimits
  <1> QED  BY <1>4, <1>5, <1>8, <1>9 DEF s, t

-----------------------------------------------------------------------------
(* Data slabs that share their elements anew.                              *)

\* What is left of two neighbours: their elements, in order.
SharedAnew(parts, left, right) ==
    /\ SoundData(parts.left) /\ SoundData(parts.right)
    /\ parts.left.elements \o parts.right.elements = left.elements \o right.elements
    /\ parts.left.next = left.next /\ parts.right.next = right.next

\* What DataShare changes.
Shares(parts, left, right, n, leftSize, l, r) ==
    /\ parts.left \in DataSlabs /\ parts.right \in DataSlabs
    /\ parts.left.elements = l /\ parts.right.elements = r
    /\ parts.left.size = leftSize
    /\ parts.right.size = (left.size + right.size) - leftSize
    /\ parts.left.count = n
    /\ parts.right.count = (left.count + right.count) - n
    /\ parts.left.next = left.next /\ parts.right.next = right.next

\* The fields of the two slabs that DataShare leaves.
LEMMA ShareFields ==
    ASSUME NEW left \in DataSlabs, NEW right \in DataSlabs, NEW n \in Nat, NEW leftSize \in Nat,
           NEW l \in Seq(Nat), NEW r \in Seq(Nat),
           l = SubSeq(left.elements \o right.elements, 1, n),
           r = SubSeq(left.elements \o right.elements, n + 1,
                      Len(left.elements \o right.elements)),
           (left.size + right.size) - leftSize \in Nat,
           (left.count + right.count) - n \in Nat
    PROVE  Shares(DataShare(left, right, n, leftSize), left, right, n, leftSize, l, r)
  <1> DEFINE parts == DataShare(left, right, n, leftSize)
             z == left.size + (right.size - leftSize)
             c == left.count + (right.count - n)
  <1>1. /\ parts.left = [left EXCEPT !.elements = l, !.size = leftSize, !.count = n]
        /\ parts.right = [right EXCEPT !.elements = r, !.size = z, !.count = c]
    BY DEF DataShare
  <1>2. /\ z \in Nat /\ z = (left.size + right.size) - leftSize
        /\ c \in Nat /\ c = (left.count + right.count) - n
    <2>1. /\ left.size \in Nat /\ right.size \in Nat
          /\ left.count \in Nat /\ right.count \in Nat
      BY DEF DataSlabs
    <2> QED  BY <2>1
  <1> HIDE DEF parts, z, c
  <1>3. /\ parts.left \in DataSlabs /\ parts.left.elements = l /\ parts.left.size = leftSize
        /\ parts.left.count = n /\ parts.left.next = left.next
    BY <1>1 DEF DataSlabs
  <1>4. /\ parts.right \in DataSlabs /\ parts.right.elements = r /\ parts.right.size = z
        /\ parts.right.count = c /\ parts.right.next = right.next
    BY <1>1, <1>2 DEF DataSlabs
  <1> QED  BY <1>2, <1>3, <1>4 DEF parts, Shares

\* What is left of two neighbours when the left one is to be of leftSize.
SharedAt(parts, left, right, leftSize) ==
    /\ SharedAnew(parts, left, right)
    /\ parts.left.size = leftSize
    /\ parts.right.size = (left.size + right.size) - leftSize

\* Wherever the line is drawn, both slabs are sound if the left size fits it.
LEMMA ShareIsSound ==
    ASSUME NEW left, NEW right, SoundData(left), SoundData(right),
           NEW n \in 0..(Len(left.elements) + Len(right.elements)), NEW leftSize \in Nat,
           leftSize = DataPrefixSize + Sums(left.elements \o right.elements)[n]
    PROVE  SharedAt(DataShare(left, right, n, leftSize), left, right, leftSize)
  <1> DEFINE s == left.elements
             t == right.elements
             u == s \o t
             l == SubSeq(u, 1, n)
             r == SubSeq(u, n + 1, Len(u))
             parts == DataShare(left, right, n, leftSize)
  <1>1. /\ left \in DataSlabs /\ s \in Seq(Nat) /\ left.count = Len(s)
        /\ left.size \in Nat /\ left.size = DataPrefixSize + Total(s)
        /\ right \in DataSlabs /\ t \in Seq(Nat) /\ right.count = Len(t)
        /\ right.size \in Nat /\ right.size = DataPrefixSize + Total(t)
    BY SoundParts
  <1>2. /\ \A i \in 1..Len(s) : s[i] \in Nat /\ 1 <= s[i] /\ s[i] <= MaxInlineElementSize
        /\ \A i \in 1..Len(t) : t[i] \in Nat /\ 1 <= t[i] /\ t[i] <= MaxInlineElementSize
    BY SoundParts
  <1>3. /\ Total(s) \in Nat /\ Total(t) \in Nat
        /\ u \in Seq(Nat) /\ Len(u) = Len(s) + Len(t) /\ Total(u) = Total(s) + Total(t)
    BY <1>1, SumsDef, SumsOfConcat
  <1>4. n \in 0..Len(u) /\ Len(s) \in Nat /\ Len(t) \in Nat /\ n \in Nat /\ n <= Len(s) + Len(t)
    <2>0. s \in Seq(Nat) /\ t \in Seq(Nat) /\ n \in 0..(Len(s) + Len(t))
      BY <1>1
    <2>1. Len(s) \in Nat /\ Len(t) \in Nat /\ n \in 0..(Len(s) + Len(t))
      <3> HIDE DEF s, t
      <3> QED  BY <2>0
    <2>2. Len(u) = Len(s) + Len(t)
      BY <1>3
    <2> HIDE DEF s, t, u
    <2> QED  BY <2>1, <2>2
  <1> HIDE DEF s, t
  <1>5. \A i \in 1..Len(u) : 1 <= u[i] /\ u[i] <= MaxInlineElementSize
    <2> SUFFICES ASSUME NEW i \in 1..(Len(s) + Len(t))
                 PROVE  1 <= u[i] /\ u[i] <= MaxInlineElementSize
      BY <1>3
    <2>1. CASE i <= Len(s)
      <3>1. i \in 1..Len(s) /\ u[i] = s[i]
        BY <1>1, <1>4, <2>1
      <3> QED  BY <1>2, <3>1
    <2>2. CASE ~ (i <= Len(s))
      <3>1. i - Len(s) \in 1..Len(t) /\ u[i] = t[i - Len(s)]
        BY <1>1, <1>4, <2>2
      <3> QED  BY <1>2, <3>1
    <2> QED  BY <2>1, <2>2
  <1> HIDE DEF u
  <1>6. IsCut(l, r, u, n)
    BY <1>3, <1>4, Cut
  <1>7. /\ l \in Seq(Nat) /\ Total(l) = Sums(u)[n]
        /\ r \in Seq(Nat) /\ Total(r) = Total(u) - Sums(u)[n]
        /\ Len(l) = n /\ Len(r) = Len(u) - n
    BY <1>3, <1>4, SumsOfParts
  <1>8. Sums(u)[n] \in Nat /\ Sums(u)[n] <= Total(u)
    <2>1. Len(u) \in 0..Len(u) /\ n <= Len(u)
      BY <1>3, <1>4
    <2> QED  BY <1>3, <1>4, <2>1, SumsDef, SumsGrow DEF Total
  <1> HIDE DEF l, r
  <1>9. /\ leftSize = DataPrefixSize + Total(l)
        /\ (left.size + right.size) - leftSize = DataPrefixSize + Total(r)
        /\ (left.size + right.size) - leftSize \in Nat
    <2>1. leftSize = DataPrefixSize + Sums(u)[n]
      BY DEF u, s, t
    <2> DEFINE x == Sums(u)[n]
               a == Total(s)
               b == Total(t)
               y == Total(r)
    <2>2. /\ x \in Nat /\ a \in Nat /\ b \in Nat /\ y = (a + b) - x /\ x <= a + b
          /\ left.size = DataPrefixSize + a /\ right.size = DataPrefixSize + b
          /\ leftSize = DataPrefixSize + x
      BY <1>1, <1>3, <1>7, <1>8, <2>1
    <2> HIDE DEF x, a, b, y
    <2>3. (left.size + right.size) - leftSize = DataPrefixSize + y
          /\ (left.size + right.size) - leftSize \in Nat
      BY <2>2, Limits
    <2> QED  BY <1>7, <2>1, <2>3 DEF y
  <1>10. (left.count + right.count) - n = Len(r) /\ (left.count + right.count) - n \in Nat
    BY <1>1, <1>3, <1>4, <1>7
  <1>11. Shares(parts, left, right, n, leftSize, l, r)
    <2>1. l = SubSeq(left.elements \o right.elements, 1, n)
      BY DEF l, u, s, t
    <2>2. r = SubSeq(left.elements \o right.elements, n + 1,
                      Len(left.elements \o right.elements))
      BY DEF r, u, s, t
    <2>3. left \in DataSlabs /\ right \in DataSlabs /\ l \in Seq(Nat) /\ r \in Seq(Nat)
      BY <1>1, <1>7
    <2>4. /\ n \in Nat /\ (left.size + right.size) - leftSize \in Nat
          /\ (left.count + right.count) - n \in Nat
      BY <1>4, <1>9, <1>10
    <2> QED  BY <2>1, <2>2, <2>3, <2>4, ShareFields
  <1> HIDE DEF parts
  <1>12. /\ \A i \in 1..Len(l) : 1 <= l[i] /\ l[i] <= MaxInlineElementSize
         /\ \A i \in 1..Len(r) : 1 <= r[i] /\ r[i] <= MaxInlineElementSize
         /\ l \o r = u
    BY <1>5, <1>6 DEF IsCut
  <1>13. SoundData(parts.left) /\ SoundData(parts.right)
    BY <1>7, <1>9, <1>10, <1>11, <1>12, IsSound DEF Shares
  <1> QED  BY <1>11, <1>12, <1>13 DEF SharedAt, SharedAnew, Shares, parts, u, s, t

\* The limits of two neighbours whose sizes add up to at least two minimums.
LEMMA Middle ==
    ASSUME NEW size \in Nat, size >= 2 * MinThreshold
    PROVE  /\ (size + 1) \div 2 \in Nat /\ (size + 1) \div 2 >= MinThreshold
           /\ 2 * ((size + 1) \div 2) <= size + 1 /\ size <= 2 * ((size + 1) \div 2)
  BY Limits

\* A left slab that can lend to its right neighbour, which is too small, gives
\* as many of its last elements as repair the neighbour and is not too small
\* itself then (ArrayDataSlab.CanLendToRight, LendToRight).
THEOREM DataLendInLimits ==
    ASSUME NEW left, NEW right, SoundData(left), SoundData(right),
           WithinLimits(left), IsUnderflow(right),
           CanLendToRight(left, MinThreshold - right.size)
    PROVE  LET parts == LendToRight(left, right)
           IN /\ SharedAnew(parts, left, right)
              /\ WithinLimits(parts.left) /\ WithinLimits(parts.right)
  <1> DEFINE s == left.elements
             t == right.elements
             f == Sums(s)
             N == Len(s)
             P == DataPrefixSize
             size == left.size + right.size
             mid == (size + 1) \div 2
             S == {m \in 1..N : (P + f[m]) - s[m] < mid /\ size - (P + f[m]) >= MinThreshold}
             n == Max({0} \cup S)
  <1>1. /\ left \in DataSlabs /\ s \in Seq(Nat) /\ left.count = Len(s)
        /\ left.size \in Nat /\ left.size = DataPrefixSize + Total(s)
        /\ t \in Seq(Nat) /\ right.size \in Nat /\ right.size = DataPrefixSize + Total(t)
    BY SoundParts
  <1>2. /\ f \in [0..N -> Nat] /\ f[0] = 0 /\ f[N] = Total(s) /\ f[N] \in Nat
        /\ \A i \in 1..N : f[i] = f[i-1] + s[i]
    BY <1>1, SumsDef DEF Total
  <1>3. N \in Nat /\ \A i \in 1..N : s[i] \in Nat
    BY <1>1
  <1>4. \A i, j \in 0..N : i <= j => f[i] <= f[j]
    BY <1>1, SumsGrow
  <1>5. Total(t) \in Nat
    BY <1>1, SumsDef
  <1>6. /\ left.size >= MinThreshold /\ left.size <= MaxThreshold /\ right.size < MinThreshold
        /\ left.size = P + f[N]
    BY <1>1, <1>2, Limits DEF WithinLimits, IsUnderflow, IsFull
  <1>7. DataCanLend(left, Reverse(s), MinThreshold - right.size)
    BY <1>1 DEF CanLendToRight, IsData, DataSlabs
  <1>8. left.size - (MinThreshold - right.size) >= MinThreshold
    BY <1>7 DEF DataCanLend
  <1>9. size \in Nat /\ size >= 2 * MinThreshold
    BY <1>1, <1>6, <1>8, Limits
  <1>10. /\ mid \in Nat /\ mid >= MinThreshold
         /\ 2 * mid <= size + 1 /\ size <= 2 * mid
    BY <1>9, Middle
  <1>11. PICK m0 \in 1..N : P + f[m0] >= MinThreshold /\ size - (P + f[m0]) >= MinThreshold
    <2> DEFINE g == Sums(Reverse(s))
    <2>1. PICK k \in DOMAIN Reverse(s) :
             g[k] >= MinThreshold - right.size /\ left.size - g[k] >= MinThreshold
      BY <1>7 DEF DataCanLend
    <2>2. k \in 1..N
      BY <2>1 DEF Reverse
    <2>3. g[k] = f[N] - f[N - k]
      <3>1. s \in Seq(Nat) /\ k \in 0..Len(s)
        BY <1>1, <1>3, <2>2
      <3>2. g[k] = Total(s) - f[Len(s) - k]
        <4> HIDE DEF s
        <4> QED  BY <3>1, SumsOfReverse
      <3> QED  BY <3>2 DEF Total
    <2>4. N - k \in 0..N
      BY <1>3, <2>2
    <2>5. f[N - k] \in Nat
      BY <1>2, <2>4
    <2> HIDE DEF g, f
    <2>6. P + f[N - k] >= MinThreshold /\ size - (P + f[N - k]) >= MinThreshold
      <3> DEFINE a == f[N - k]
                 b == f[N]
      <3>1. a \in Nat /\ b \in Nat /\ left.size = P + b
            /\ b - a >= MinThreshold - right.size /\ left.size - (b - a) >= MinThreshold
        BY <1>2, <1>6, <2>1, <2>3, <2>5
      <3> HIDE DEF a, b
      <3>2. P + a >= MinThreshold /\ size - (P + a) >= MinThreshold
        BY <1>1, <3>1, Limits
      <3> QED  BY <3>2 DEF a
    <2>7. N - k # 0
      <3>1. ~ (P + 0 >= MinThreshold)
        BY Limits
      <3> QED  BY <1>2, <2>6, <3>1
    <2>8. N - k \in 1..N
      BY <2>4, <2>7
    <2> QED  BY <2>6, <2>8
  <1>12. LendToRight(left, right) = DataShare(left, right, n, left.size - (f[N] - f[n]))
    <2>1. DOMAIN s = 1..N /\ left.count = N
      BY <1>1
    <2>2. \A m \in 1..N : left.size - (f[N] - f[m]) = P + f[m]
      <3> SUFFICES ASSUME NEW m \in 1..N PROVE left.size - (f[N] - f[m]) = P + f[m]
        OBVIOUS
      <3>1. m \in 0..N
        BY <1>3
      <3>2. f[m] \in Nat
        BY <1>2, <3>1
      <3> HIDE DEF f
      <3> QED  BY <1>2, <1>6, <3>2, Limits
    <2>3. {m \in 1..N : /\ left.size - (f[N] - f[m]) - s[m] < mid
                        /\ size - (left.size - (f[N] - f[m])) >= MinThreshold} = S
      BY <2>2
    <2>4. LendToRight(left, right) = DataLendToRight(left, right)
      BY <1>1 DEF LendToRight, IsData, DataSlabs
    <2> QED  BY <2>1, <2>3, <2>4 DEF DataLendToRight
  <1> HIDE DEF mid
  <1>13. n \in S /\ \A m \in S : m <= n
    <2>1. 1 \in S
      <3>1. 1 \in 1..N /\ 1 \in 0..N /\ m0 \in 0..N /\ 1 <= m0
        BY <1>3, <1>11
      <3>2. f[1] <= f[m0] /\ f[1] \in Nat /\ f[m0] \in Nat
        BY <1>2, <1>4, <3>1
      <3>3. f[1] = f[1-1] + s[1] /\ s[1] \in Nat /\ f[1-1] = 0
        BY <1>2, <1>3, <3>1
      <3> HIDE DEF f, s
      <3>4. (P + f[1]) - s[1] < mid
        BY <1>10, <3>2, <3>3, Limits
      <3>5. size - (P + f[1]) >= MinThreshold
        BY <1>9, <1>11, <3>2, Limits
      <3> QED  BY <3>1, <3>4, <3>5
    <2>2. {0} \cup S \in SUBSET Nat /\ \A m \in {0} \cup S : m <= N
      BY <1>3
    <2> HIDE DEF S
    <2>3. n \in {0} \cup S /\ \A m \in {0} \cup S : m <= n
      BY <1>3, <2>1, <2>2, LargestIs
    <2> HIDE DEF n
    <2>4. n # 0
      BY <2>1, <2>3
    <2> QED  BY <2>3, <2>4
  <1>14. n \in 1..N /\ n \in 0..N /\ f[n] \in Nat /\ size - (P + f[n]) >= MinThreshold
    <2>1. n \in 1..N /\ size - (P + f[n]) >= MinThreshold
      BY <1>13
    <2> HIDE DEF n
    <2>2. n \in 0..N
      BY <1>3, <2>1
    <2> QED  BY <1>2, <2>1, <2>2
  <1>15. P + f[n] >= MinThreshold
    <2>1. CASE m0 <= n
      <3>1. m0 \in 0..N
        BY <1>3, <1>11
      <3>2. f[m0] <= f[n] /\ f[m0] \in Nat
        BY <1>2, <1>4, <1>14, <2>1, <3>1
      <3> HIDE DEF f, n
      <3> QED  BY <1>11, <1>14, <3>2, Limits
    <2>2. CASE ~ (m0 <= n)
      <3> DEFINE k == n + 1
      <3> HIDE DEF n
      <3>1. k \in 1..N /\ k \in 0..N /\ m0 \in 0..N /\ k <= m0 /\ ~ (k <= n) /\ k - 1 = n
        BY <1>3, <1>11, <1>14, <2>2
      <3> HIDE DEF k
      <3>2. k \notin S
        BY <1>13, <3>1
      <3>3. f[k] = f[n] + s[k] /\ s[k] \in Nat /\ f[k] \in Nat /\ f[m0] \in Nat /\ f[k] <= f[m0]
        BY <1>2, <1>3, <1>4, <3>1
      <3>4. \/ ~ ((P + f[k]) - s[k] < mid)
            \/ ~ (size - (P + f[k]) >= MinThreshold)
        BY <3>1, <3>2
      <3> HIDE DEF f, s
      <3>5. size - (P + f[k]) >= MinThreshold
        BY <1>9, <1>11, <3>3, Limits
      <3>6. ~ ((P + f[k]) - s[k] < mid)
        BY <3>4, <3>5
      <3> DEFINE x == f[n]
                 y == s[k]
      <3>7. f[k] = x + y /\ x \in Nat /\ y \in Nat /\ ~ ((P + f[k]) - y < mid)
        BY <1>14, <3>3, <3>6
      <3> HIDE DEF x, y
      <3>8. P + x >= mid
        BY <1>10, <3>7, Limits
      <3>9. P + x >= MinThreshold
        BY <1>10, <3>7, <3>8, Limits
      <3> QED  BY <3>9 DEF x
    <2> QED  BY <2>1, <2>2
  <1> DEFINE leftSize == left.size - (f[N] - f[n])
             parts == DataShare(left, right, n, leftSize)
  <1>16. leftSize = P + f[n] /\ leftSize \in Nat /\ leftSize <= left.size
    <2>1. f[n] <= f[N]
      <3>1. N \in 0..N /\ n <= N
        BY <1>3, <1>14
      <3> QED  BY <1>4, <1>14, <3>1
    <2> HIDE DEF f, n
    <2> QED  BY <1>2, <1>6, <1>14, <2>1, Limits
  <1>17. /\ SharedAnew(parts, left, right) /\ parts.left.size = leftSize
         /\ parts.right.size = (left.size + right.size) - leftSize
    <2>1. Sums(s \o t)[n] = f[n]
      BY <1>1, <1>14, SumsOfConcat
    <2>2. n \in 0..(Len(s) + Len(t))
      <3>1. Len(t) \in Nat
        BY <1>1
      <3> HIDE DEF n, t
      <3> QED  BY <1>3, <1>14, <3>1
    <2>3. leftSize = DataPrefixSize + Sums(left.elements \o right.elements)[n]
      BY <1>16, <2>1
    <2>4. leftSize \in Nat /\ n \in 0..(Len(left.elements) + Len(right.elements))
      BY <1>16, <2>2
    <2> HIDE DEF leftSize, n, f, s, t
    <2>5. SharedAt(DataShare(left, right, n, leftSize), left, right, leftSize)
      BY <2>3, <2>4, ShareIsSound
    <2> QED  BY <2>5 DEF SharedAt
  <1> HIDE DEF parts, leftSize, n, f
  <1>18. WithinLimits(parts.left) /\ WithinLimits(parts.right)
    <2>1. leftSize >= MinThreshold /\ leftSize <= MaxThreshold
      BY <1>1, <1>6, <1>15, <1>16, Limits
    <2>2. size - leftSize >= MinThreshold /\ size - leftSize <= MaxThreshold
      BY <1>1, <1>6, <1>14, <1>16, <2>1, Limits
    <2>3. parts.left.size = leftSize /\ parts.right.size = size - leftSize
      BY <1>17
    <2>4. leftSize \in Int /\ size - leftSize \in Int
      BY <1>9, <1>16
    <2> HIDE DEF size
    <2> QED  BY <2>1, <2>2, <2>3, <2>4, InLimits
  <1> QED  BY <1>12, <1>17, <1>18 DEF parts, leftSize

\* A left slab that is too small takes from its right neighbour, if that can
\* lend, the elements that repair it and leaves the neighbour large enough
\* (ArrayDataSlab.CanLendToLeft, BorrowFromRight).
THEOREM DataBorrowInLimits ==
    ASSUME NEW left, NEW right, SoundData(left), SoundData(right),
           IsUnderflow(left), WithinLimits(right),
           CanLendToLeft(right, MinThreshold - left.size)
    PROVE  LET parts == BorrowFromRight(left, right)
           IN /\ SharedAnew(parts, left, right)
              /\ WithinLimits(parts.left) /\ WithinLimits(parts.right)
  <1> DEFINE s == left.elements
             t == right.elements
             f == Sums(t)
             N == Len(t)
             size == left.size + right.size
             mid == (size + 1) \div 2
             cross == {n \in 1..N : left.size + f[n] > mid}
             c == Min(cross)
             moved == IF size - (left.size + f[c]) >= MinThreshold THEN c ELSE c - 1
  <1>1. /\ left \in DataSlabs /\ s \in Seq(Nat) /\ left.count = Len(s)
        /\ left.size \in Nat /\ left.size = DataPrefixSize + Total(s)
        /\ right \in DataSlabs /\ t \in Seq(Nat) /\ right.count = Len(t)
        /\ right.size \in Nat /\ right.size = DataPrefixSize + Total(t)
    BY SoundParts
  <1>2. /\ f \in [0..N -> Nat] /\ f[0] = 0 /\ f[N] = Total(t) /\ f[N] \in Nat
    BY <1>1, SumsDef DEF Total
  <1>3. N \in Nat
    BY <1>1
  <1>4. \A i, j \in 0..N : i <= j => f[i] <= f[j]
    BY <1>1, SumsGrow
  <1>5. Total(s) \in Nat
    BY <1>1, SumsDef
  <1>6. /\ right.size >= MinThreshold /\ right.size <= MaxThreshold /\ left.size < MinThreshold
        /\ right.size = DataPrefixSize + f[N]
    BY <1>1, <1>2, Limits DEF WithinLimits, IsUnderflow, IsFull
  <1>7. DataCanLend(right, t, MinThreshold - left.size)
    BY <1>1 DEF CanLendToLeft, IsData, DataSlabs
  <1>8. right.size - (MinThreshold - left.size) >= MinThreshold
    BY <1>7 DEF DataCanLend
  <1>9. size \in Nat /\ size >= 2 * MinThreshold /\ size < MinThreshold + MaxThreshold
    BY <1>1, <1>6, <1>8, Limits
  <1>10. /\ mid \in Nat /\ mid >= MinThreshold
         /\ 2 * mid <= size + 1 /\ size <= 2 * mid
    BY <1>9, Middle
  <1>11. PICK k \in 1..N : /\ f[k] >= MinThreshold - left.size
                           /\ right.size - f[k] >= MinThreshold
    <2>1. DOMAIN t = 1..N
      BY <1>1
    <2> QED  BY <1>7, <2>1 DEF DataCanLend
  <1> HIDE DEF mid
  <1>12. N \in cross
    <2>1. N # 0
      BY <1>3, <1>11
    <2>2. N \in 1..N
      BY <1>3, <2>1
    <2> DEFINE a == f[N]
    <2>3. a \in Nat /\ right.size = DataPrefixSize + a
      BY <1>2, <1>6
    <2> HIDE DEF a
    <2>4. left.size + a > mid
      <3> DEFINE x == left.size
                 y == right.size
      <3>1. /\ x \in Nat /\ y = DataPrefixSize + a /\ x + y >= 2 * MinThreshold
            /\ 2 * mid <= (x + y) + 1 /\ mid \in Nat
        BY <1>1, <1>9, <1>10, <2>3
      <3> HIDE DEF x, y
      <3>2. x + a > mid
        BY <2>3, <3>1, Limits
      <3> QED  BY <3>2 DEF x
    <2> QED  BY <2>2, <2>4 DEF a
  <1>13. c \in cross /\ \A n \in cross : c <= n
    <2>1. cross \in SUBSET Nat /\ cross # {}
      BY <1>12
    <2> HIDE DEF cross
    <2> QED  BY <2>1, SmallestIs
  <1>14. BorrowFromRight(left, right)
            = DataShare(left, right, left.count + moved, left.size + f[moved])
    <2>1. DOMAIN t = 1..N
      BY <1>1
    <2>2. BorrowFromRight(left, right) = DataBorrowFromRight(left, right)
      BY <1>1 DEF BorrowFromRight, IsData, DataSlabs
    <2>3. cross # {}
      BY <1>12
    <2> QED  BY <2>1, <2>2, <2>3 DEF DataBorrowFromRight, mid
  <1>15. c \in 1..N /\ left.size + f[c] > mid
    BY <1>13
  <1>16. \A n \in 1..N : n < c => ~ (left.size + f[n] > mid)
    <2> SUFFICES ASSUME NEW n \in 1..N, n < c, left.size + f[n] > mid PROVE FALSE
      OBVIOUS
    <2>1. n \in cross
      OBVIOUS
    <2>2. c <= n
      BY <1>13, <2>1
    <2> HIDE DEF c
    <2> QED  BY <1>15, <2>2
  <1> HIDE DEF cross, c
  <1>17. k \in 0..N /\ c \in 0..N /\ f[k] \in Nat /\ f[c] \in Nat
    BY <1>2, <1>3, <1>11, <1>15
  <1>0. /\ left.size \in Nat /\ left.size < MinThreshold
        /\ left.count = Len(s) /\ Len(s) \in Nat /\ left.size = DataPrefixSize + Total(s)
    BY <1>1, <1>6
  <1> DEFINE x == left.size
  <1>18. /\ moved \in 0..N
         /\ left.size + f[moved] >= MinThreshold /\ left.size + f[moved] <= MaxThreshold
         /\ size - (left.size + f[moved]) >= MinThreshold
         /\ size - (left.size + f[moved]) <= MaxThreshold
    <2>1. CASE size - (left.size + f[c]) >= MinThreshold
      <3>1. moved = c
        BY <2>1
      <3> DEFINE a == f[c]
      <3>2. a \in Nat /\ left.size + a > mid /\ size - (left.size + a) >= MinThreshold
        BY <1>15, <1>17, <2>1
      <3> HIDE DEF a, moved
      <3>3. /\ left.size + a >= MinThreshold /\ left.size + a <= MaxThreshold
            /\ size - (left.size + a) <= MaxThreshold
        <4>1. x \in Nat /\ x + a > mid /\ size - (x + a) >= MinThreshold
          BY <1>0, <3>2
        <4> HIDE DEF x, size
        <4>2. /\ x + a >= MinThreshold /\ x + a <= MaxThreshold
              /\ size - (x + a) <= MaxThreshold
          BY <1>9, <1>10, <3>2, <4>1, Limits
        <4> QED  BY <4>2 DEF x
      <3> QED  BY <1>17, <3>1, <3>2, <3>3 DEF a
    <2>2. CASE ~ (size - (left.size + f[c]) >= MinThreshold)
      <3> DEFINE e == c - 1
      <3>1. moved = e
        BY <2>2
      <3>2. ~ (c <= k)
        <4> SUFFICES ASSUME c <= k PROVE FALSE
          OBVIOUS
        <4>1. f[c] <= f[k]
          BY <1>4, <1>17
        <4> HIDE DEF f, moved
        <4> QED  BY <1>1, <1>11, <1>17, <2>2, <4>1, Limits
      <3>3. e \in 1..N /\ e \in 0..N /\ e < c /\ k <= e
        BY <1>3, <1>11, <1>15, <3>2
      <3> HIDE DEF e, moved
      <3> DEFINE a == f[e]
                 b == f[k]
      <3>4. /\ a \in Nat /\ b \in Nat /\ b <= a /\ ~ (left.size + a > mid)
            /\ b >= MinThreshold - left.size
        BY <1>2, <1>4, <1>11, <1>16, <1>17, <3>3
      <3> HIDE DEF a, b
      <3>5. /\ left.size + a >= MinThreshold /\ left.size + a <= MaxThreshold
            /\ size - (left.size + a) >= MinThreshold
            /\ size - (left.size + a) <= MaxThreshold
        <4>1. x \in Nat /\ ~ (x + a > mid) /\ b >= MinThreshold - x
          BY <1>0, <3>4
        <4> HIDE DEF x, size
        <4>2. /\ x + a >= MinThreshold /\ x + a <= MaxThreshold
              /\ size - (x + a) >= MinThreshold /\ size - (x + a) <= MaxThreshold
          BY <1>9, <1>10, <3>4, <4>1, Limits
        <4> QED  BY <4>2 DEF x
      <3> QED  BY <3>1, <3>3, <3>5 DEF a
    <2> QED  BY <2>1, <2>2
  <1> HIDE DEF moved
  <1> DEFINE n == left.count + moved
             leftSize == left.size + f[moved]
             parts == DataShare(left, right, n, leftSize)
  <1>19. SharedAt(parts, left, right, leftSize)
    <2>1. Sums(s \o t)[Len(s) + moved] = Total(s) + f[moved]
      BY <1>1, <1>18, SumsOfConcat
    <2>2. f[moved] \in Nat
      BY <1>2, <1>18
    <2> DEFINE a == f[moved]
               b == Total(s)
               w == Sums(s \o t)
    <2>a. w[Len(s) + moved] = b + a /\ a \in Nat /\ b \in Nat /\ left.size = DataPrefixSize + b
      BY <1>0, <1>5, <2>1, <2>2
    <2>b. n = Len(s) + moved /\ leftSize = left.size + a
      BY <1>0
    <2> HIDE DEF s, t, f, a, b, w, n, leftSize
    <2>3. leftSize = DataPrefixSize + w[n] /\ leftSize \in Nat
      BY <1>0, <2>a, <2>b, Limits
    <2>4. n \in 0..(Len(s) + Len(t))
      BY <1>0, <1>3, <1>18, <2>b
    <2> HIDE DEF leftSize, n
    <2>5. /\ leftSize = DataPrefixSize + Sums(left.elements \o right.elements)[n]
          /\ n \in 0..(Len(left.elements) + Len(right.elements))
      BY <2>3, <2>4 DEF s, t, w
    <2> QED  BY <2>3, <2>5, ShareIsSound
  <1> HIDE DEF parts, f
  <1>20. WithinLimits(parts.left) /\ WithinLimits(parts.right)
    <2>1. /\ parts.left.size = leftSize /\ parts.right.size = size - leftSize
      BY <1>19 DEF SharedAt
    <2>2. /\ leftSize >= MinThreshold /\ leftSize <= MaxThreshold
          /\ size - leftSize >= MinThreshold /\ size - leftSize <= MaxThreshold
          /\ leftSize \in Int /\ size - leftSize \in Int
      <3>1. f[moved] \in Nat
        BY <1>2, <1>18 DEF f
      <3> QED  BY <1>0, <1>9, <1>18, <3>1
    <2> HIDE DEF leftSize, size
    <2> QED  BY <2>1, <2>2, InLimits
  <1> QED  BY <1>14, <1>19, <1>20 DEF parts, SharedAt

-----------------------------------------------------------------------------
(* Bisection.                                                              *)

Windows(countSum) == [low : 0..Len(countSum), high : 0..Len(countSum)]

\* One round of ChildByBisection, which goes on with "search".
Round(countSum, index, search, w) ==
    LET mid == (w.low + w.high) \div 2 IN
      IF w.low >= w.high THEN w.low + 1
      ELSE IF countSum[mid + 1] < index THEN search[[low |-> mid + 1, high |-> w.high]]
      ELSE IF countSum[mid + 1] > index THEN search[[low |-> w.low, high |-> mid]]
      ELSE mid + 2

Searches(search, countSum, index) ==
    search = [w \in Windows(countSum) |-> Round(countSum, index, search, w)]

\* Each round looks into a smaller window.
LEMMA WindowsShrink ==
    ASSUME NEW countSum \in Seq(Nat), NEW w \in Windows(countSum), w.low < w.high
    PROVE  LET mid == (w.low + w.high) \div 2
               upper == [low |-> mid + 1, high |-> w.high]
               lower == [low |-> w.low, high |-> mid]
           IN /\ mid \in 0..Len(countSum) /\ mid + 1 \in 1..Len(countSum)
              /\ w.low <= mid /\ mid < w.high
              /\ upper \in Windows(countSum) /\ upper.high - upper.low < w.high - w.low
              /\ lower \in Windows(countSum) /\ lower.high - lower.low < w.high - w.low
              /\ upper.low <= upper.high /\ lower.low <= lower.high
  <1> DEFINE a == w.low
             b == w.high
             mid == (a + b) \div 2
  <1>1. Len(countSum) \in Nat /\ a \in 0..Len(countSum) /\ b \in 0..Len(countSum) /\ a < b
    BY DEF Windows
  <1> HIDE DEF a, b
  <1>2. /\ mid \in 0..Len(countSum) /\ mid + 1 \in 0..Len(countSum)
        /\ mid + 1 \in 1..Len(countSum)
        /\ a <= mid /\ mid < b /\ b - (mid + 1) < b - a /\ mid - a < b - a
        /\ mid + 1 <= b
    BY <1>1
  <1> HIDE DEF mid
  <1> QED  BY <1>1, <1>2 DEF Windows, a, b, mid

\* The search is defined on every window.
LEMMA SearchExists ==
    ASSUME NEW countSum \in Seq(Nat), NEW index \in Nat
    PROVE  \E search : Searches(search, countSum, index)
  <1> DEFINE W == Windows(countSum)
             Good(f, n) == \A w \in W : w.high - w.low <= n => f[w] = Round(countSum, index, f, w)
             Up(n) == \E f : f = [w \in W |-> f[w]] /\ Good(f, n)
             Bad == {n \in Nat : ~ Up(n)}
  <1>0. Len(countSum) \in Nat
    OBVIOUS
  <1>1. Bad = {}
    <2> SUFFICES ASSUME Bad # {} PROVE FALSE
      OBVIOUS
    <2>1. PICK m \in Bad : \A n \in Bad : m <= n
      <3>1. Bad \in SUBSET Nat
        OBVIOUS
      <3> HIDE DEF Bad
      <3> QED  BY <3>1, SmallestNumber
    <2>2. \E f : f = [w \in W |-> f[w]] /\ (m # 0 => Good(f, m - 1))
      <3>1. CASE m = 0
        <4> DEFINE f == [w \in W |-> 0]
        <4>1. f = [w \in W |-> f[w]]
          OBVIOUS
        <4> HIDE DEF f
        <4> QED  BY <3>1, <4>1
      <3>2. CASE m # 0
        <4>1. m - 1 \in Nat /\ ~ (m <= m - 1)
          BY <3>2
        <4>2. Up(m - 1)
          <5> HIDE DEF Up
          <5> QED  BY <2>1, <4>1
        <4> QED  BY <3>2, <4>2
      <3> QED  BY <3>1, <3>2
    <2>3. PICK f : f = [w \in W |-> f[w]] /\ (m # 0 => Good(f, m - 1))
      BY <2>2
    <2> DEFINE g == [w \in W |-> Round(countSum, index, f, w)]
    <2>4. \A w \in W : g[w] = Round(countSum, index, f, w)
      OBVIOUS
    <2>5. g = [w \in W |-> g[w]]
      OBVIOUS
    <2> HIDE DEF g
    <2>6. ASSUME NEW w \in W, w.high - w.low <= m
          PROVE  g[w] = Round(countSum, index, g, w)
      <3>1. CASE w.low >= w.high
        BY <2>4, <3>1 DEF Round
      <3>2. CASE ~ (w.low >= w.high)
        <4> DEFINE mid == (w.low + w.high) \div 2
                   upper == [low |-> mid + 1, high |-> w.high]
                   lower == [low |-> w.low, high |-> mid]
        <4>0. w.low \in Nat /\ w.high \in Nat
          BY DEF Windows
        <4>1. /\ upper \in W /\ upper.high - upper.low < w.high - w.low
              /\ lower \in W /\ lower.high - lower.low < w.high - w.low
          BY <3>2, <4>0, WindowsShrink
        <4>2. m # 0 /\ w.high - w.low \in Int
          BY <2>6, <3>2, <4>0
        <4>3. \A v \in W : v.high - v.low < w.high - w.low => g[v] = f[v]
          <5> SUFFICES ASSUME NEW v \in W, v.high - v.low < w.high - w.low PROVE g[v] = f[v]
            OBVIOUS
          <5>1. v.high - v.low \in Int
            BY <1>0 DEF Windows
          <5>2. v.high - v.low <= m - 1
            <6> DEFINE x == v.high - v.low
                       y == w.high - w.low
            <6>1. x \in Int /\ y \in Int /\ x < y /\ y <= m /\ m \in Nat
              BY <2>1, <2>6, <4>2, <5>1
            <6> HIDE DEF x, y
            <6>2. x <= m - 1
              BY <6>1
            <6> QED  BY <6>2 DEF x
          <5> QED  BY <2>3, <2>4, <4>2, <5>2
        <4>4. g[upper] = f[upper] /\ g[lower] = f[lower]
          <5> HIDE DEF upper, lower
          <5> QED  BY <4>1, <4>3
        <4>5. g[w] = Round(countSum, index, f, w)
          BY <2>4
        <4> QED  BY <4>4, <4>5 DEF Round
      <3> QED  BY <3>1, <3>2
    <2>7. Up(m)
      BY <2>5, <2>6
    <2> QED  BY <2>1, <2>7
  <1>2. Up(Len(countSum))
    <2> HIDE DEF Up
    <2> QED  BY <1>0, <1>1
  <1>3. PICK f : f = [w \in W |-> f[w]] /\ Good(f, Len(countSum))
    BY <1>2
  <1>4. \A w \in W : f[w] = Round(countSum, index, f, w)
    <2> SUFFICES ASSUME NEW w \in W PROVE f[w] = Round(countSum, index, f, w)
      OBVIOUS
    <2>1. w.high - w.low <= Len(countSum)
      BY <1>0 DEF Windows
    <2> QED  BY <1>3, <2>1
  <1>5. f = [w \in W |-> Round(countSum, index, f, w)]
    BY <1>3, <1>4, Zenon
  <1> QED  BY <1>5 DEF Searches

\* Bisection finds the child that a scan finds, in metadata slabs of any number
\* of children, none of which is empty (ArrayMetaDataSlab.childSlabIndexInfo
\* switches from one to the other at linearScanThreshold).
THEOREM BisectionIsScan ==
    ASSUME NEW countSum \in Seq(Nat), countSum # <<>>,
           \A i, j \in DOMAIN countSum : i < j => countSum[i] < countSum[j],
           NEW index \in Nat, index < Last(countSum)
    PROVE  ChildByBisection(countSum, index) = ChildByScan(countSum, index)
  <1> DEFINE W == Windows(countSum)
             N == Len(countSum)
             f == CHOOSE search : Searches(search, countSum, index)
             S == {k \in DOMAIN countSum : index < countSum[k]}
             K == Min(S)
             Fits(w) == w.low + 1 <= K /\ K <= w.high + 1 /\ w.low <= w.high
             Bad == {n \in Nat : \E w \in W : n = w.high - w.low /\ Fits(w) /\ f[w] # K}
  <1>1. N \in Nat /\ N # 0 /\ DOMAIN countSum = 1..N /\ index < countSum[N]
        /\ \A i \in 1..N : countSum[i] \in Nat
    BY DEF Last
  <1>2. K \in S /\ \A k \in S : K <= k
    <2>1. N \in S /\ S \in SUBSET Nat
      BY <1>1
    <2> HIDE DEF S
    <2> QED  BY <2>1, SmallestIs
  <1>3. K \in 1..N /\ index < countSum[K]
    BY <1>1, <1>2
  <1>4. \A k \in 1..N : index < countSum[k] => K <= k
    <2> SUFFICES ASSUME NEW k \in 1..N, index < countSum[k] PROVE K <= k
      OBVIOUS
    <2>1. k \in S
      BY <1>1
    <2> HIDE DEF S
    <2> QED  BY <1>2, <2>1
  <1>5. ChildByScan(countSum, index) = K
    BY DEF ChildByScan
  <1> HIDE DEF K, S
  <1>6. Searches(f, countSum, index)
    BY SearchExists
  <1>7. ChildByBisection(countSum, index) = f[[low |-> 0, high |-> N]]
    BY DEF ChildByBisection, Searches, Round, Windows
  <1> HIDE DEF f
  <1>8. \A w \in W : f[w] = Round(countSum, index, f, w)
    BY <1>6 DEF Searches
  <1>9. Bad = {}
    <2> SUFFICES ASSUME Bad # {} PROVE FALSE
      OBVIOUS
    <2>1. PICK m \in Bad : \A n \in Bad : m <= n
      <3>1. Bad \in SUBSET Nat
        OBVIOUS
      <3> HIDE DEF Bad
      <3> QED  BY <3>1, SmallestNumber
    <2>2. PICK w \in W : m = w.high - w.low /\ Fits(w) /\ f[w] # K
      BY <2>1
    <2>3. \A v \in W : v.high - v.low < w.high - w.low /\ Fits(v) => f[v] = K
      <3> SUFFICES ASSUME NEW v \in W, v.high - v.low < w.high - w.low, Fits(v), f[v] # K
                   PROVE  FALSE
        OBVIOUS
      <3>1. v.high - v.low \in Nat
        <4> DEFINE a == v.low
                   b == v.high
        <4>1. a \in 0..N /\ b \in 0..N /\ a <= b
          BY DEF Windows
        <4> HIDE DEF a, b
        <4>2. b - a \in Nat
          BY <1>1, <4>1
        <4> QED  BY <4>2 DEF a, b
      <3>2. v.high - v.low \in Bad
        BY <3>1
      <3>3. m <= v.high - v.low
        BY <2>1, <3>2
      <3> HIDE DEF Bad, Fits
      <3> QED  BY <2>1, <2>2, <3>1, <3>3
    <2> HIDE DEF Bad
    <2>4. w.low \in 0..N /\ w.high \in 0..N
      BY DEF Windows
    <2>5. CASE w.low >= w.high
      <3>1. f[w] = w.low + 1
        BY <1>8, <2>5 DEF Round
      <3> DEFINE a == w.low
                 b == w.high
      <3>2. /\ a \in 0..N /\ b \in 0..N /\ a >= b /\ a <= b /\ a + 1 <= K /\ K <= b + 1
            /\ f[w] # K /\ f[w] = a + 1
        BY <2>2, <2>4, <2>5, <3>1
      <3> HIDE DEF a, b
      <3> QED  BY <1>1, <1>3, <3>2
    <2>6. CASE ~ (w.low >= w.high)
      <3> DEFINE mid == (w.low + w.high) \div 2
                 upper == [low |-> mid + 1, high |-> w.high]
                 lower == [low |-> w.low, high |-> mid]
      <3>1. w.low < w.high
        BY <1>1, <2>4, <2>6
      <3>2. /\ mid \in 0..N /\ mid + 1 \in 1..N /\ w.low <= mid /\ mid < w.high
            /\ upper \in W /\ upper.high - upper.low < w.high - w.low
            /\ lower \in W /\ lower.high - lower.low < w.high - w.low
            /\ upper.low <= upper.high /\ lower.low <= lower.high
        BY <3>1, WindowsShrink
      <3>3. f[w] = IF countSum[mid + 1] < index THEN f[upper]
                   ELSE IF countSum[mid + 1] > index THEN f[lower]
                   ELSE mid + 2
        BY <1>8, <2>6 DEF Round
      <3>4. countSum[mid + 1] \in Nat
        BY <1>1, <3>2
      <3>5. upper.low = mid + 1 /\ upper.high = w.high /\ lower.low = w.low /\ lower.high = mid
        OBVIOUS
      <3>6. K \in Nat /\ w.low + 1 <= K /\ K <= w.high + 1 /\ w.low <= w.high
        BY <1>1, <1>3, <2>2
      <3> HIDE DEF mid, upper, lower
      <3>7. CASE index < countSum[mid + 1]
        <4>1. K <= mid + 1
          BY <1>4, <3>2, <3>7
        <4>2. Fits(lower)
          BY <3>2, <3>5, <3>6, <4>1
        <4>3. f[lower] = K
          BY <2>3, <3>2, <4>2
        <4>4. f[w] = f[lower]
          BY <3>3, <3>4, <3>7
        <4> QED  BY <2>2, <4>3, <4>4
      <3>8. CASE ~ (index < countSum[mid + 1])
        <4>1. ~ (K <= mid + 1)
          <5> SUFFICES ASSUME K <= mid + 1 PROVE FALSE
            OBVIOUS
          <5>1. K # mid + 1
            BY <1>3, <3>8
          <5>2. K < mid + 1
            BY <3>2, <3>6, <5>1
          <5>3. countSum[K] < countSum[mid + 1]
            BY <1>1, <1>3, <3>2, <5>2
          <5>4. countSum[K] \in Nat
            BY <1>1, <1>3
          <5> QED  BY <1>3, <3>4, <3>8, <5>3, <5>4
        <4>2. mid + 2 <= K /\ mid + 2 \in 1..N
          BY <1>1, <1>3, <3>2, <3>6, <4>1
        <4>3. CASE countSum[mid + 1] < index
          <5>1. Fits(upper)
            BY <3>2, <3>5, <3>6, <4>2
          <5>2. f[upper] = K
            BY <2>3, <3>2, <5>1
          <5>3. f[w] = f[upper]
            BY <3>3, <4>3
          <5> QED  BY <2>2, <5>2, <5>3
        <4>4. CASE ~ (countSum[mid + 1] < index)
          <5>1. countSum[mid + 1] = index
            BY <3>4, <3>8, <4>4
          <5>2. mid + 1 < mid + 2
            BY <3>2
          <5>3. countSum[mid + 1] < countSum[mid + 2]
            BY <1>1, <3>2, <4>2, <5>2
          <5>4. K <= mid + 2
            BY <1>4, <4>2, <5>1, <5>3
          <5>5. f[w] = mid + 2
            BY <3>3, <5>1
          <5> QED  BY <2>2, <3>2, <3>6, <4>2, <5>4, <5>5
        <4> QED  BY <4>3, <4>4
      <3> QED  BY <3>7, <3>8
    <2> QED  BY <2>5, <2>6
  <1>10. f[[low |-> 0, high |-> N]] = K
    <2> DEFINE w == [low |-> 0, high |-> N]
    <2>1. w \in W /\ w.low = 0 /\ w.high = N
      BY <1>1 DEF Windows
    <2>2. Fits(w) /\ w.high - w.low \in Nat
      BY <1>1, <1>3, <2>1
    <2> HIDE DEF w
    <2>3. f[w] = K
      BY <1>9, <2>1, <2>2
    <2> QED  BY <2>3 DEF w
  <1> QED  BY <1>5, <1>7, <1>10

-----------------------------------------------------------------------------
(* One element more, one less, another one.                                *)

\* What one number adds.
LEMMA TotalOfOne ==
    ASSUME NEW e \in Nat
    PROVE  <<e>> \in Seq(Nat) /\ Len(<<e>>) = 1 /\ <<e>>[1] = e /\ Total(<<e>>) = e
  <1> DEFINE s == <<e>>
  <1>1. s \in Seq(Nat) /\ Len(s) = 1 /\ s[1] = e
    OBVIOUS
  <1> HIDE DEF s
  <1>2. /\ Sums(s)[0] = 0
        /\ \A i \in 1..Len(s) : Sums(s)[i] = Sums(s)[i-1] + s[i]
    BY <1>1, SumsDef
  <1>3. Sums(s)[1] = Sums(s)[1-1] + s[1] /\ 1 - 1 = 0
    BY <1>1, <1>2
  <1>4. Total(s) = e
    BY <1>1, <1>2, <1>3 DEF Total
  <1> QED  BY <1>1, <1>4 DEF s

\* Sizes of elements between their limits.
AreSizes(s) ==
    s \in Seq(Nat) /\ \A i \in 1..Len(s) : 1 <= s[i] /\ s[i] <= MaxInlineElementSize

\* Elements before and after one of them: l, x, r.
LEMMA AroundElement ==
    ASSUME NEW s, AreSizes(s), NEW k \in 1..Len(s)
    PROVE  LET l == SubSeq(s, 1, k - 1)
               r == SubSeq(s, k + 1, Len(s))
           IN /\ AreSizes(l) /\ AreSizes(r) /\ Len(l) = k - 1 /\ Len(r) = Len(s) - k
              /\ Total(l) \in Nat /\ Total(r) \in Nat
              /\ Total(s) = (Total(l) + Total(r)) + s[k]
              /\ s[k] \in Nat /\ 1 <= s[k] /\ s[k] <= MaxInlineElementSize
              /\ \A i \in 1..Len(l) : l[i] = s[i]
              /\ \A i \in 1..Len(r) : r[i] = s[k + i]
  <1> DEFINE l == SubSeq(s, 1, k - 1)
             r == SubSeq(s, k + 1, Len(s))
             m == SubSeq(s, 1, k)
             f == Sums(s)
  <1>1. /\ s \in Seq(Nat) /\ Len(s) \in Nat /\ k - 1 \in 0..Len(s) /\ k \in 0..Len(s)
        /\ \A i \in 1..Len(s) : s[i] \in Nat /\ 1 <= s[i] /\ s[i] <= MaxInlineElementSize
    BY DEF AreSizes
  <1>2. /\ l \in Seq(Nat) /\ Len(l) = k - 1 /\ Total(l) = f[k-1]
    <2> DEFINE j == k - 1
    <2>1. j \in 0..Len(s)
      BY <1>1
    <2> HIDE DEF j
    <2>2. SubSeq(s, 1, j) \in Seq(Nat) /\ Len(SubSeq(s, 1, j)) = j /\ Total(SubSeq(s, 1, j)) = f[j]
      BY <1>1, <2>1, SumsOfParts
    <2> QED  BY <2>2 DEF j
  <1>3. /\ r \in Seq(Nat) /\ Len(r) = Len(s) - k /\ Total(r) = Total(s) - f[k]
    BY <1>1, SumsOfParts
  <1>4. /\ f \in [0..Len(s) -> Nat] /\ f[k] = f[k-1] + s[k] /\ Total(s) \in Nat
    BY <1>1, SumsDef
  <1>5. Total(l) \in Nat /\ Total(r) \in Nat
    BY <1>2, <1>3, SumsDef
  <1>6. \A i \in 1..Len(l) : i \in 1..Len(s) /\ l[i] = s[i]
    <2> DEFINE j == k - 1
    <2>1. j \in 0..Len(s)
      BY <1>1
    <2> HIDE DEF j
    <2>2. IsCut(SubSeq(s, 1, j), SubSeq(s, j + 1, Len(s)), s, j)
      BY <1>1, <2>1, Cut
    <2> QED  BY <2>2 DEF j, IsCut
  <1>7. \A i \in 1..Len(r) : k + i \in 1..Len(s) /\ r[i] = s[k + i]
    <2>1. IsCut(m, r, s, k)
      BY <1>1, Cut
    <2> QED  BY <2>1 DEF IsCut
  <1> HIDE DEF l, r, m
  <1>8. AreSizes(l) /\ AreSizes(r)
    BY <1>1, <1>2, <1>3, <1>6, <1>7 DEF AreSizes
  <1>9. Total(s) = (Total(l) + Total(r)) + s[k]
    <2> DEFINE a == f[k-1]
               b == f[k]
               x == s[k]
               y == Total(s)
    <2>1. a \in Nat /\ b \in Nat /\ x \in Nat /\ y \in Nat /\ b = a + x
      BY <1>1, <1>4
    <2>2. Total(l) = a /\ Total(r) = y - b
      BY <1>2, <1>3
    <2> HIDE DEF a, b, x, y
    <2>3. y = (Total(l) + Total(r)) + x
      BY <2>1, <2>2
    <2> QED  BY <2>3 DEF x, y
  <1> QED  BY <1>1, <1>2, <1>3, <1>5, <1>6, <1>7, <1>8, <1>9 DEF l, r

\* One list of sizes after another.
LEMMA SizesOfConcat ==
    ASSUME NEW a, NEW b, AreSizes(a), AreSizes(b)
    PROVE  /\ AreSizes(a \o b) /\ Len(a \o b) = Len(a) + Len(b)
           /\ Total(a \o b) = Total(a) + Total(b)
           /\ Total(a) \in Nat /\ Total(b) \in Nat
  <1>1. a \in Seq(Nat) /\ b \in Seq(Nat) /\ Len(a) \in Nat /\ Len(b) \in Nat
    BY DEF AreSizes
  <1>2. /\ a \o b \in Seq(Nat) /\ Len(a \o b) = Len(a) + Len(b)
        /\ Total(a \o b) = Total(a) + Total(b)
        /\ Total(a) \in Nat /\ Total(b) \in Nat
    BY <1>1, SumsOfConcat, SumsDef
  <1>3. ASSUME NEW i \in 1..(Len(a) + Len(b))
        PROVE  1 <= (a \o b)[i] /\ (a \o b)[i] <= MaxInlineElementSize
    <2>1. CASE i <= Len(a)
      <3>1. i \in 1..Len(a) /\ (a \o b)[i] = a[i]
        BY <1>1, <2>1
      <3> QED  BY <3>1 DEF AreSizes
    <2>2. CASE ~ (i <= Len(a))
      <3>1. i - Len(a) \in 1..Len(b) /\ (a \o b)[i] = b[i - Len(a)]
        BY <1>1, <2>2
      <3> QED  BY <3>1 DEF AreSizes
    <2> QED  BY <2>1, <2>2
  <1> QED  BY <1>2, <1>3 DEF AreSizes

\* A slab that is given other elements, with their number and sizes.
LEMMA DataChangeIsSound ==
    ASSUME NEW new \in DataSlabs, AreSizes(new.elements), new.count = Len(new.elements),
           new.size = DataPrefixSize + Total(new.elements)
    PROVE  SoundData(new)
  BY IsSound DEF AreSizes

\* What becomes of a slab that has grown by at most one element.
SplitInLimits(new, rightID) ==
    LET parts == Split(new, rightID)
    IN /\ SoundData(parts.left) /\ WithinLimits(parts.left)
       /\ SoundData(parts.right) /\ WithinLimits(parts.right)
       /\ parts.left.elements \o parts.right.elements = new.elements

\* A slab that one element has made full splits into two within the limits.
LEMMA GrownSplits ==
    ASSUME NEW new, SoundData(new), NEW rightID \in ID, IsFull(new),
           new.size <= MaxThreshold + MaxInlineElementSize
    PROVE  SplitInLimits(new, rightID)
  <1>1. new \in DataSlabs /\ new.size \in Nat
    BY SoundParts
  <1>2. new.size <= MaxThreshold + MaxInlineElementSize + DataPrefixSize
    BY <1>1, Limits
  <1>3. Split(new, rightID) = DataSplit(new, rightID)
    BY <1>1 DEF Split, IsData, DataSlabs
  <1>4. /\ SoundData(DataSplit(new, rightID).left) /\ WithinLimits(DataSplit(new, rightID).left)
        /\ SoundData(DataSplit(new, rightID).right) /\ WithinLimits(DataSplit(new, rightID).right)
        /\ DataSplit(new, rightID).left.elements \o DataSplit(new, rightID).right.elements
              = new.elements
    BY <1>2, DataSplitInLimits
  <1> QED  BY <1>3, <1>4 DEF SplitInLimits

\* An element inserted anywhere: counts and sizes are right, and a slab that has
\* become full splits into two within the limits (ArrayDataSlab.Insert, Split).
THEOREM DataInsertInLimits ==
    ASSUME NEW slab, SoundData(slab), WithinLimits(slab), NEW index \in 0..slab.count,
           NEW e \in 1..MaxInlineElementSize, NEW rightID \in ID
    PROVE  LET new == DataInsert(slab, index, e)
           IN /\ SoundData(new) /\ ~ IsUnderflow(new)
              /\ new.elements = InsertAt(slab.elements, index + 1, e)
              /\ IsFull(new) => SplitInLimits(new, rightID)
  <1> DEFINE s == slab.elements
             l == SubSeq(s, 1, index)
             r == SubSeq(s, index + 1, Len(s))
             u == (l \o <<e>>) \o r
             new == DataInsert(slab, index, e)
  <1>1. /\ s \in Seq(Nat) /\ slab.count = Len(s) /\ Len(s) \in Nat
        /\ slab.size \in Nat /\ slab.size = DataPrefixSize + Total(s)
        /\ \A i \in 1..Len(s) : s[i] \in Nat /\ 1 <= s[i] /\ s[i] <= MaxInlineElementSize
    BY SoundParts
  <1>2. index \in 0..Len(s) /\ index \in Nat /\ e \in Nat /\ 1 <= e /\ e <= MaxInlineElementSize
    BY <1>1, Limits
  <1>3. slab.size >= MinThreshold /\ slab.size <= MaxThreshold
    BY <1>1, Limits DEF WithinLimits, IsUnderflow, IsFull
  <1> HIDE DEF s
  <1>4. IsCut(l, r, s, index)
    BY <1>1, <1>2, Cut
  <1>5. /\ l \in Seq(Nat) /\ r \in Seq(Nat) /\ Len(l) = index /\ Len(r) = Len(s) - index
        /\ Total(l) = Sums(s)[index] /\ Total(r) = Total(s) - Sums(s)[index]
    BY <1>1, <1>2, SumsOfParts
  <1>6. Sums(s)[index] \in Nat /\ Total(s) \in Nat
    BY <1>1, <1>2, SumsDef
  <1>7. InsertAt(s, index + 1, e) = u
    <2>1. (index + 1) - 1 = index
      BY <1>2
    <2> QED  BY <2>1 DEF InsertAt
  <1> HIDE DEF l, r
  <1>8. AreSizes(l) /\ AreSizes(r) /\ AreSizes(<<e>>)
    <2>1. AreSizes(l) /\ AreSizes(r)
      BY <1>1, <1>4, <1>5 DEF IsCut, AreSizes
    <2>2. AreSizes(<<e>>)
      BY <1>2, TotalOfOne DEF AreSizes
    <2> QED  BY <2>1, <2>2
  <1>9. AreSizes(u) /\ Len(u) = slab.count + 1 /\ DataPrefixSize + Total(u) = slab.size + e
    <2> DEFINE m == l \o <<e>>
    <2>1. /\ AreSizes(m) /\ Len(m) = Len(l) + 1 /\ Total(m) = Total(l) + e
      BY <1>2, <1>8, SizesOfConcat, TotalOfOne
    <2> HIDE DEF m
    <2>2. /\ AreSizes(u) /\ Len(u) = Len(m) + Len(r) /\ Total(u) = Total(m) + Total(r)
      BY <1>8, <2>1, SizesOfConcat DEF m
    <2> HIDE DEF u
    <2>3. Len(u) = Len(s) + 1
      BY <1>1, <1>2, <1>5, <2>1, <2>2
    <2>4. Total(u) = Total(s) + e
      <3> DEFINE a == Sums(s)[index]
                 b == Total(s)
      <3>1. a \in Nat /\ b \in Nat /\ Total(u) = (a + e) + (b - a)
        BY <1>5, <1>6, <2>1, <2>2
      <3> HIDE DEF a, b
      <3>2. Total(u) = b + e
        BY <1>2, <3>1
      <3> QED  BY <3>2 DEF b
    <2> QED  BY <1>1, <1>2, <1>6, <2>2, <2>3, <2>4, Limits
  <1> DEFINE count == slab.count + 1
             size == slab.size + e
  <1>10. new = [slab EXCEPT !.elements = u, !.count = count, !.size = size]
    BY <1>7 DEF DataInsert, s
  <1> HIDE DEF u, count, size, new
  <1>11. count = Len(u) /\ size = DataPrefixSize + Total(u)
    BY <1>9 DEF count, size
  <1>12. SoundData(new) /\ new.elements = u /\ new.size = size /\ size \in Nat
    <2>1. slab \in DataSlabs /\ u \in Seq(Nat) /\ count \in Nat
      BY <1>9, <1>11, SoundParts DEF AreSizes
    <2>2. size \in Nat
      BY <1>1, <1>2 DEF size
    <2>3. new \in DataSlabs /\ new.elements = u /\ new.count = count /\ new.size = size
      BY <1>10, <2>1, <2>2 DEF DataSlabs
    <2> QED  BY <1>9, <1>11, <2>2, <2>3, DataChangeIsSound
  <1>13. size >= MinThreshold /\ size <= MaxThreshold + MaxInlineElementSize
    BY <1>1, <1>2, <1>3, Limits DEF size
  <1>14. ~ IsUnderflow(new)
    BY <1>12, <1>13, Limits DEF IsUnderflow
  <1>15. IsFull(new) => SplitInLimits(new, rightID)
    BY <1>12, <1>13, GrownSplits
  <1> QED  BY <1>7, <1>12, <1>14, <1>15 DEF new, s

\* An element removed: counts and sizes are right (ArrayDataSlab.Remove).
THEOREM DataRemoveIsSound ==
    ASSUME NEW slab, SoundData(slab), WithinLimits(slab), NEW index \in 0..(slab.count - 1)
    PROVE  LET new == DataRemove(slab, index)
           IN /\ SoundData(new) /\ ~ IsFull(new)
              /\ new.elements = RemoveAt(slab.elements, index + 1)
  <1> DEFINE s == slab.elements
             k == index + 1
             l == SubSeq(s, 1, k - 1)
             r == SubSeq(s, k + 1, Len(s))
             u == l \o r
             new == DataRemove(slab, index)
             count == slab.count - 1
             size == slab.size - s[k]
  <1>1. /\ s \in Seq(Nat) /\ slab.count = Len(s) /\ Len(s) \in Nat
        /\ slab.size \in Nat /\ slab.size = DataPrefixSize + Total(s) /\ AreSizes(s)
    BY SoundParts DEF AreSizes
  <1>2. k \in 1..Len(s)
    BY <1>1
  <1>3. slab.size <= MaxThreshold
    BY <1>1, Limits DEF WithinLimits, IsFull
  <1>4. RemoveAt(s, k) = u
    BY DEF RemoveAt
  <1>5. new = [slab EXCEPT !.elements = u, !.count = count, !.size = size]
    BY <1>4 DEF DataRemove
  <1> HIDE DEF s, k
  <1>6. /\ AreSizes(l) /\ AreSizes(r) /\ Len(l) = k - 1 /\ Len(r) = Len(s) - k
        /\ Total(l) \in Nat /\ Total(r) \in Nat
        /\ Total(s) = (Total(l) + Total(r)) + s[k] /\ s[k] \in Nat
    BY <1>1, <1>2, AroundElement
  <1> HIDE DEF l, r
  <1>7. AreSizes(u) /\ Len(u) = Len(l) + Len(r) /\ Total(u) = Total(l) + Total(r)
    BY <1>6, SizesOfConcat
  <1> HIDE DEF u, new
  <1>8. count = Len(u)
    BY <1>1, <1>2, <1>6, <1>7
  <1>9. size = DataPrefixSize + Total(u) /\ size <= MaxThreshold
    <2> DEFINE a == Total(l)
               b == Total(r)
               x == s[k]
    <2>1. /\ a \in Nat /\ b \in Nat /\ x \in Nat /\ slab.size = DataPrefixSize + ((a + b) + x)
          /\ Total(u) = a + b /\ size = slab.size - x
      BY <1>1, <1>6, <1>7
    <2> HIDE DEF a, b, x, size
    <2> QED  BY <1>3, <2>1, Limits
  <1> HIDE DEF count, size
  <1>10. SoundData(new) /\ new.elements = u /\ new.size = size /\ size \in Nat
    <2>1. slab \in DataSlabs /\ u \in Seq(Nat) /\ count \in Nat
      BY <1>7, <1>8, SoundParts DEF AreSizes
    <2>2. size \in Nat
      <3>1. Total(u) \in Nat
        BY <2>1, SumsDef
      <3> QED  BY <1>9, <3>1, Limits
    <2>3. new \in DataSlabs /\ new.elements = u /\ new.count = count /\ new.size = size
      BY <1>5, <2>1, <2>2 DEF DataSlabs
    <2> QED  BY <1>7, <1>8, <1>9, <2>2, <2>3, DataChangeIsSound
  <1>11. ~ IsFull(new)
    BY <1>9, <1>10, Limits DEF IsFull
  <1> QED  BY <1>4, <1>10, <1>11 DEF new, s, k

\* An element replaced by a smaller or larger one: sizes are right, and a slab
\* that has become full splits into two within the limits (ArrayDataSlab.Set).
THEOREM DataSetInLimits ==
    ASSUME NEW slab, SoundData(slab), WithinLimits(slab), NEW index \in 0..(slab.count - 1),
           NEW e \in 1..MaxInlineElementSize, NEW rightID \in ID
    PROVE  LET new == DataSet(slab, index, e)
           IN /\ SoundData(new)
              /\ new.elements = ReplaceAt(slab.elements, index + 1, e)
              /\ IsFull(new) => SplitInLimits(new, rightID)
  <1> DEFINE s == slab.elements
             k == index + 1
             l == SubSeq(s, 1, k - 1)
             r == SubSeq(s, k + 1, Len(s))
             u == (l \o <<e>>) \o r
             v == ReplaceAt(s, k, e)
             new == DataSet(slab, index, e)
             size == DataPrefixSize + Total(v)
  <1>1. /\ s \in Seq(Nat) /\ slab.count = Len(s) /\ Len(s) \in Nat
        /\ slab.size \in Nat /\ slab.size = DataPrefixSize + Total(s) /\ AreSizes(s)
        /\ slab.extra = FALSE
    <2>1. slab \in DataSlabs
      BY SoundParts
    <2>2. slab.extra = FALSE
      BY <2>1 DEF DataSlabs
    <2> QED  BY <2>2, SoundParts DEF AreSizes
  <1>2. k \in 1..Len(s) /\ e \in Nat /\ 1 <= e /\ e <= MaxInlineElementSize
    BY <1>1, Limits
  <1>3. slab.size <= MaxThreshold
    BY <1>1, Limits DEF WithinLimits, IsFull
  <1>4. new = [slab EXCEPT !.elements = v, !.size = size]
    <2>1. PrefixSize(slab) = DataPrefixSize
      BY <1>1 DEF PrefixSize
    <2> QED  BY <2>1 DEF DataSet
  <1> HIDE DEF s, k
  <1>5. /\ AreSizes(l) /\ AreSizes(r) /\ Len(l) = k - 1 /\ Len(r) = Len(s) - k
        /\ Total(l) \in Nat /\ Total(r) \in Nat
        /\ Total(s) = (Total(l) + Total(r)) + s[k] /\ s[k] \in Nat
    BY <1>1, <1>2, AroundElement
  <1>6. /\ \A i \in 1..(k-1) : l[i] = s[i]
        /\ \A i \in 1..(Len(s) - k) : r[i] = s[k + i]
    <2>1. /\ \A i \in 1..Len(l) : l[i] = s[i]
          /\ \A i \in 1..Len(r) : r[i] = s[k + i]
      BY <1>1, <1>2, AroundElement
    <2> QED  BY <1>5, <2>1
  <1> HIDE DEF l, r
  <1> DEFINE m == l \o <<e>>
  <1>7. AreSizes(<<e>>) /\ Len(<<e>>) = 1 /\ Total(<<e>>) = e /\ <<e>>[1] = e
    BY <1>2, TotalOfOne DEF AreSizes
  <1>8. /\ AreSizes(m) /\ Len(m) = k /\ Total(m) = Total(l) + e
        /\ \A i \in 1..(k-1) : m[i] = s[i]
        /\ m[k] = e
    <2>1. AreSizes(m) /\ Len(m) = Len(l) + 1 /\ Total(m) = Total(l) + e
      BY <1>5, <1>7, SizesOfConcat
    <2>2. l \in Seq(Nat) /\ <<e>> \in Seq(Nat)
      BY <1>5, <1>7 DEF AreSizes
    <2>3. \A i \in 1..(Len(l) + 1) : m[i] = IF i <= Len(l) THEN l[i] ELSE <<e>>[i - Len(l)]
      BY <1>7, <2>2, ConcatProperties
    <2> HIDE DEF m
    <2>4. Len(m) = k
      BY <1>2, <1>5, <2>1
    <2>5. ASSUME NEW i \in 1..(k-1) PROVE m[i] = s[i]
      <3>1. i \in 1..(Len(l) + 1) /\ i <= Len(l)
        BY <1>2, <1>5
      <3> QED  BY <1>6, <2>3, <3>1
    <2>6. m[k] = e
      <3>1. k \in 1..(Len(l) + 1) /\ ~ (k <= Len(l)) /\ k - Len(l) = 1
        BY <1>2, <1>5
      <3> QED  BY <1>7, <2>3, <3>1
    <2> QED  BY <2>1, <2>4, <2>5, <2>6
  <1> HIDE DEF m
  <1>9. /\ AreSizes(u) /\ Len(u) = Len(s) /\ Total(u) = (Total(l) + e) + Total(r)
        /\ \A i \in 1..Len(s) : u[i] = IF i <= k THEN m[i] ELSE r[i - k]
    <2>1. AreSizes(u) /\ Len(u) = Len(m) + Len(r) /\ Total(u) = Total(m) + Total(r)
      BY <1>5, <1>8, SizesOfConcat DEF m
    <2>2. m \in Seq(Nat) /\ r \in Seq(Nat)
      BY <1>5, <1>8 DEF AreSizes
    <2>3. \A i \in 1..(Len(m) + Len(r)) : u[i] = IF i <= Len(m) THEN m[i] ELSE r[i - Len(m)]
      BY <2>2, ConcatProperties DEF m
    <2>4. Len(m) + Len(r) = Len(s)
      BY <1>1, <1>2, <1>5, <1>8
    <2> HIDE DEF u
    <2> QED  BY <1>8, <2>1, <2>3, <2>4
  <1>10. v = u
    <2> HIDE DEF u
    <2>1. /\ v \in Seq(Nat) /\ Len(v) = Len(s)
          /\ \A i \in 1..Len(s) : v[i] = IF i = k THEN e ELSE s[i]
      BY <1>1, <1>2, ExceptSeq DEF ReplaceAt
    <2> HIDE DEF v
    <2>2. ASSUME NEW i \in 1..Len(s) PROVE v[i] = u[i]
      <3>1. CASE i < k
        <4>1. i \in 1..(k-1) /\ i <= k /\ i # k
          BY <1>1, <1>2, <3>1
        <4> QED  BY <1>8, <1>9, <2>1, <4>1
      <3>2. CASE i = k
        <4>1. i <= k
          BY <1>2, <3>2
        <4> QED  BY <1>8, <1>9, <2>1, <3>2, <4>1
      <3>3. CASE i > k
        <4>1. i - k \in 1..(Len(s) - k) /\ ~ (i <= k) /\ i # k /\ k + (i - k) = i
          BY <1>1, <1>2, <3>3
        <4> QED  BY <1>6, <1>9, <2>1, <4>1
      <3> QED  BY <1>1, <1>2, <3>1, <3>2, <3>3
    <2>3. u \in Seq(Nat)
      BY <1>9 DEF AreSizes
    <2> QED  BY <1>9, <2>1, <2>2, <2>3, SeqEqual
  <1> HIDE DEF u, v, new
  <1>11. AreSizes(v) /\ Len(v) = slab.count
    BY <1>1, <1>9, <1>10
  <1>12. size <= MaxThreshold + MaxInlineElementSize
    <2> DEFINE a == Total(l)
               b == Total(r)
               x == s[k]
    <2>1. /\ a \in Nat /\ b \in Nat /\ x \in Nat /\ slab.size = DataPrefixSize + ((a + b) + x)
          /\ Total(v) = (a + e) + b
      BY <1>1, <1>5, <1>9, <1>10
    <2> HIDE DEF a, b, x
    <2> QED  BY <1>2, <1>3, <2>1, Limits
  <1> DEFINE count == slab.count
  <1>13. count = Len(v)
    BY <1>11
  <1> HIDE DEF size, count
  <1>14. SoundData(new) /\ new.elements = v /\ new.size = size
    <2>1. slab.count = count
      BY DEF count
    <2>2. size = DataPrefixSize + Total(v)
      BY DEF size
    <2>3. slab \in DataSlabs /\ v \in Seq(Nat) /\ count \in Nat
      BY <1>11, <1>13, SoundParts DEF AreSizes
    <2>4. size \in Nat
      <3>1. Total(v) \in Nat
        BY <2>3, SumsDef
      <3> QED  BY <2>2, <3>1, Limits
    <2>5. new \in DataSlabs /\ new.elements = v /\ new.count = count /\ new.size = size
      BY <1>4, <2>1, <2>3, <2>4 DEF DataSlabs
    <2> QED  BY <1>11, <1>13, <2>2, <2>5, DataChangeIsSound
  <1>15. IsFull(new) => SplitInLimits(new, rightID)
    BY <1>12, <1>14, GrownSplits
  <1> QED  BY <1>14, <1>15 DEF new, v, s, k


-----------------------------------------------------------------------------
(* Cumulative counts.                                                      *)

Headers == [id : ID, count : Nat, size : Nat]

Counts(children) == [i \in DOMAIN children |-> children[i].count]

\* Counts of children are numbers.
LEMMA CountsAre ==
    ASSUME NEW children \in Seq(Headers)
    PROVE  /\ Counts(children) \in Seq(Nat)
           /\ Len(Counts(children)) = Len(children)
           /\ \A i \in 1..Len(children) : Counts(children)[i] = children[i].count
           /\ ChildCount(children) = Total(Counts(children))
  <1> DEFINE N == Len(children)
             c == [i \in 1..N |-> children[i].count]
  <1>1. N \in Nat /\ DOMAIN children = 1..N /\ \A i \in 1..N : children[i] \in Headers
    OBVIOUS
  <1>2. \A i \in 1..N : children[i].count \in Nat
    BY <1>1 DEF Headers
  <1>3. c \in Seq(Nat) /\ Len(c) = N
    <2>1. c \in [1..N -> Nat]
      BY <1>2
    <2> HIDE DEF c
    <2> QED  BY <1>1, <2>1
  <1>4. Counts(children) = c
    BY <1>1 DEF Counts
  <1> QED  BY <1>3, <1>4 DEF ChildCount, Counts

\* The entries of childrenCountSum are sums of counts.
CountSumOf(children) == [i \in 1..Len(children) |-> Sums(Counts(children))[i]]

\* They are as many as the children, and numbers.
LEMMA CountSumOfIs ==
    ASSUME NEW children \in Seq(Headers)
    PROVE  /\ CountSumOf(children) \in Seq(Nat)
           /\ Len(CountSumOf(children)) = Len(children)
           /\ \A i \in 1..Len(children) : CountSumOf(children)[i] = Sums(Counts(children))[i]
  <1> DEFINE c == Counts(children)
             N == Len(children)
             u == CountSumOf(children)
  <1>1. c \in Seq(Nat) /\ Len(c) = N /\ N \in Nat
    BY CountsAre
  <1>2. Sums(c) \in [0..N -> Nat]
    BY <1>1, SumsDef
  <1>3. u \in [1..N -> Nat] /\ \A i \in 1..N : u[i] = Sums(c)[i]
    <2>1. \A i \in 1..N : i \in 0..N
      BY <1>1
    <2> HIDE DEF c
    <2> QED  BY <1>2, <2>1 DEF CountSumOf, c
  <1> HIDE DEF u
  <1> QED  BY <1>1, <1>3 DEF u

\* One step of CountSums.
LEMMA CountSumStep ==
    ASSUME NEW children \in Seq(Headers), NEW i \in 1..Len(children)
    PROVE  LET u == CountSumOf(children)
               before == SubSeq(u, 1, i - 1)
           IN Append(before, children[i].count + IF i = 1 THEN 0 ELSE Last(before))
                = SubSeq(u, 1, i)
  <1> DEFINE u == CountSumOf(children)
             c == Counts(children)
             N == Len(children)
             before == SubSeq(u, 1, i - 1)
             f == Sums(c)
  <1>1. /\ u \in Seq(Nat) /\ Len(u) = N /\ N \in Nat
        /\ \A j \in 1..N : u[j] = f[j]
    BY CountSumOfIs
  <1>2. /\ f \in [0..N -> Nat] /\ f[0] = 0
        /\ \A j \in 1..N : f[j] = f[j-1] + c[j] /\ c[j] = children[j].count
    <2>1. /\ c \in Seq(Nat) /\ Len(c) = N
          /\ \A j \in 1..N : c[j] = children[j].count
      BY CountsAre
    <2> HIDE DEF c
    <2> QED  BY <2>1, SumsDef
  <1> HIDE DEF u, c, f
  <1>3. i - 1 \in 0..N /\ i \in 1..N /\ i \in Nat
    BY <1>1
  <1>4. before \in Seq(Nat) /\ Len(before) = i - 1 /\ \A j \in 1..(i-1) : before[j] = u[j]
    BY <1>1, <1>3
  <1>5. children[i].count + (IF i = 1 THEN 0 ELSE Last(before)) = u[i]
    <2>1. f[i] = f[i-1] + children[i].count /\ f[i-1] \in Nat /\ f[i] \in Nat /\ u[i] = f[i]
      <3>1. f[i] = f[i-1] + c[i] /\ c[i] = children[i].count
        BY <1>2, <1>3
      <3>2. i \in 0..N
        BY <1>3
      <3>3. f[i-1] \in Nat /\ f[i] \in Nat
        BY <1>2, <1>3, <3>2
      <3>4. u[i] = f[i]
        BY <1>1, <1>3
      <3> QED  BY <3>1, <3>3, <3>4
    <2>2. children[i].count \in Nat
      <3>1. children[i] \in Headers
        BY <1>3
      <3> QED  BY <3>1 DEF Headers
    <2>3. CASE i = 1
      <3>1. f[i-1] = 0
        BY <1>2, <2>3
      <3> QED  BY <2>1, <2>2, <2>3, <3>1
    <2>4. CASE i # 1
      <3>1. i - 1 \in 1..(i-1) /\ i - 1 \in 1..N
        BY <1>3, <2>4
      <3>2. Last(before) = f[i-1]
        BY <1>1, <1>4, <3>1 DEF Last
      <3> HIDE DEF before
      <3> QED  BY <2>1, <2>2, <2>4, <3>2
    <2> QED  BY <2>3, <2>4
  <1>6. SubSeq(u, 1, i) = Append(before, u[i])
    <2>1. SubSeq(u, 1, i) = SubSeq(u, 1, i - 1) \o <<u[i]>>
      <3>1. 1 \in 1..Len(u) /\ i \in 1..Len(u)
        BY <1>1, <1>3
      <3> QED  BY <1>1, <3>1, SubSeqRecursiveSecond
    <2> DEFINE x == u[i]
    <2>2. x \in Nat
      BY <1>1, <1>3
    <2> HIDE DEF before, x
    <2>3. before \o <<x>> = Append(before, x)
      BY <1>4, <2>2
    <2> QED  BY <2>1, <2>3 DEF before, x
  <1> QED  BY <1>5, <1>6 DEF u

ListsUp(sums, children) ==
    sums = [i \in 0..Len(children) |->
              IF i = 0 THEN <<>>
              ELSE Append(sums[i-1], children[i].count + IF i = 1 THEN 0 ELSE Last(sums[i-1]))]

\* childrenCountSum is rebuilt as the sums of the counts.
LEMMA CountSumsAre ==
    ASSUME NEW children \in Seq(Headers)
    PROVE  CountSums(children) = CountSumOf(children)
  <1> DEFINE u == CountSumOf(children)
             N == Len(children)
             e == [i \in 0..N |-> SubSeq(u, 1, i)]
             sums == CHOOSE f : ListsUp(f, children)
             Bad == {i \in 0..N : sums[i] # SubSeq(u, 1, i)}
  <1>1. u \in Seq(Nat) /\ Len(u) = N /\ N \in Nat
    BY CountSumOfIs
  <1>2. \A i \in 1..N :
           Append(SubSeq(u, 1, i - 1),
                  children[i].count + IF i = 1 THEN 0 ELSE Last(SubSeq(u, 1, i - 1)))
             = SubSeq(u, 1, i)
    BY CountSumStep
  <1>3. SubSeq(u, 1, 0) = <<>>
    BY SubSeqEmpty
  <1>4. ListsUp(e, children)
    <2>1. \A i \in 0..N : e[i] = SubSeq(u, 1, i)
      OBVIOUS
    <2> HIDE DEF u
    <2>2. ASSUME NEW i \in 0..N
          PROVE  SubSeq(u, 1, i) = IF i = 0 THEN <<>>
                   ELSE Append(e[i-1], children[i].count + IF i = 1 THEN 0 ELSE Last(e[i-1]))
      <3>1. CASE i = 0
        BY <1>3, <3>1
      <3>2. CASE i # 0
        <4>1. i \in 1..N /\ i - 1 \in 0..N
          BY <1>1, <3>2
        <4>2. e[i-1] = SubSeq(u, 1, i - 1)
          BY <4>1
        <4> QED  BY <1>2, <3>2, <4>1, <4>2
      <3> QED  BY <3>1, <3>2
    <2> QED  BY <2>2, Zenon DEF ListsUp
  <1>5. ListsUp(sums, children)
    BY <1>4, Zenon
  <1>6. CountSums(children) = sums[N]
    BY DEF CountSums, ListsUp
  <1> HIDE DEF u, sums
  <1>7. /\ sums[0] = <<>>
        /\ \A i \in 1..N : sums[i] = Append(sums[i-1],
                               children[i].count + IF i = 1 THEN 0 ELSE Last(sums[i-1]))
    <2>1. \A i \in 0..N : sums[i] = IF i = 0 THEN <<>>
             ELSE Append(sums[i-1], children[i].count + IF i = 1 THEN 0 ELSE Last(sums[i-1]))
      BY <1>5, Zenon DEF ListsUp
    <2>2. 0 \in 0..N /\ \A i \in 1..N : i \in 0..N /\ i # 0
      BY <1>1
    <2> QED  BY <2>1, <2>2, Zenon
  <1>8. Bad = {}
    <2> SUFFICES ASSUME Bad # {} PROVE FALSE
      OBVIOUS
    <2>1. PICK m \in Bad : \A n \in Bad : m <= n
      <3>1. Bad \in SUBSET Nat
        BY <1>1
      <3> HIDE DEF Bad
      <3> QED  BY <3>1, SmallestNumber
    <2>2. m \in 0..N /\ sums[m] # SubSeq(u, 1, m) /\ m # 0
      BY <1>3, <1>7, <2>1
    <2>3. m \in 1..N /\ m - 1 \in 0..N /\ ~ (m <= m - 1)
      BY <1>1, <2>2
    <2>4. sums[m-1] = SubSeq(u, 1, m - 1)
      BY <2>1, <2>3
    <2> QED  BY <1>2, <1>7, <2>2, <2>3, <2>4
  <1>9. sums[N] = SubSeq(u, 1, N)
    BY <1>1, <1>8
  <1>10. SubSeq(u, 1, N) = u
    BY <1>1, SubSeqFull
  <1> QED  BY <1>6, <1>9, <1>10 DEF u

\* The counts of two lists, one after the other.
LEMMA CountsOfConcat ==
    ASSUME NEW a \in Seq(Headers), NEW b \in Seq(Headers)
    PROVE  /\ a \o b \in Seq(Headers)
           /\ Len(a \o b) = Len(a) + Len(b)
           /\ Counts(a \o b) = Counts(a) \o Counts(b)
           /\ ChildCount(a \o b) = ChildCount(a) + ChildCount(b)
           /\ ChildCount(a) \in Nat /\ ChildCount(b) \in Nat
  <1> DEFINE x == Counts(a)
             y == Counts(b)
             z == Counts(a \o b)
  <1>1. a \o b \in Seq(Headers) /\ Len(a \o b) = Len(a) + Len(b)
        /\ Len(a) \in Nat /\ Len(b) \in Nat
    OBVIOUS
  <1>2. /\ x \in Seq(Nat) /\ Len(x) = Len(a) /\ \A i \in 1..Len(a) : x[i] = a[i].count
        /\ ChildCount(a) = Total(x)
    BY CountsAre
  <1>3. /\ y \in Seq(Nat) /\ Len(y) = Len(b) /\ \A i \in 1..Len(b) : y[i] = b[i].count
        /\ ChildCount(b) = Total(y)
    BY CountsAre
  <1>4. /\ z \in Seq(Nat) /\ Len(z) = Len(a) + Len(b)
        /\ \A i \in 1..(Len(a) + Len(b)) : z[i] = (a \o b)[i].count
        /\ ChildCount(a \o b) = Total(z)
    BY <1>1, CountsAre
  <1> HIDE DEF x, y, z
  <1>5. x \o y \in Seq(Nat) /\ Len(x \o y) = Len(z)
    BY <1>2, <1>3, <1>4
  <1>6. ASSUME NEW i \in 1..Len(z) PROVE z[i] = (x \o y)[i]
    <2>1. i \in 1..(Len(a) + Len(b))
      BY <1>4
    <2>2. CASE i <= Len(a)
      <3>1. i \in 1..Len(a) /\ (a \o b)[i] = a[i] /\ (x \o y)[i] = x[i]
        BY <1>1, <1>2, <1>3, <2>1, <2>2
      <3> QED  BY <1>2, <1>4, <2>1, <3>1
    <2>3. CASE ~ (i <= Len(a))
      <3>1. i - Len(a) \in 1..Len(b)
        BY <1>1, <2>1, <2>3
      <3>2. (a \o b)[i] = b[i - Len(a)] /\ (x \o y)[i] = y[i - Len(a)]
        BY <1>1, <1>2, <1>3, <2>1, <2>3
      <3> QED  BY <1>3, <1>4, <2>1, <3>1, <3>2
    <2> QED  BY <2>2, <2>3
  <1>7. z = x \o y
    BY <1>4, <1>5, <1>6, SeqEqual
  <1>8. Total(x \o y) = Total(x) + Total(y) /\ Total(x) \in Nat /\ Total(y) \in Nat
    BY <1>2, <1>3, SumsOfConcat, SumsDef
  <1> QED  BY <1>1, <1>2, <1>3, <1>4, <1>7, <1>8 DEF x, y, z

\* The cumulative counts of two lists, one after the other.
LEMMA CountSumOfConcat ==
    ASSUME NEW a \in Seq(Headers), NEW b \in Seq(Headers)
    PROVE  CountSumOf(a \o b)
              = CountSumOf(a) \o [i \in 1..Len(b) |-> ChildCount(a) + CountSumOf(b)[i]]
  <1> DEFINE x == Counts(a)
             y == Counts(b)
             u == CountSumOf(a)
             v == CountSumOf(b)
             w == CountSumOf(a \o b)
             d == ChildCount(a)
             t == [i \in 1..Len(b) |-> d + v[i]]
  <1>1. /\ x \in Seq(Nat) /\ y \in Seq(Nat) /\ Len(x) = Len(a) /\ Len(y) = Len(b)
        /\ d = Total(x)
    BY CountsAre
  <1>2. /\ a \o b \in Seq(Headers) /\ Len(a \o b) = Len(a) + Len(b)
        /\ Counts(a \o b) = x \o y /\ d \in Nat
        /\ Len(a) \in Nat /\ Len(b) \in Nat
    BY CountsOfConcat
  <1>3. /\ \A i \in 0..Len(a) : Sums(x \o y)[i] = Sums(x)[i]
        /\ \A i \in 0..Len(b) : Sums(x \o y)[Len(a) + i] = d + Sums(y)[i]
    <2> HIDE DEF x, y, d
    <2>1. /\ \A i \in 0..Len(x) : Sums(x \o y)[i] = Sums(x)[i]
          /\ \A i \in 0..Len(y) : Sums(x \o y)[Len(x) + i] = Total(x) + Sums(y)[i]
      BY <1>1, SumsOfConcat
    <2> QED  BY <1>1, <2>1
  <1>4. u \in Seq(Nat) /\ Len(u) = Len(a) /\ \A i \in 1..Len(a) : u[i] = Sums(x)[i]
    BY CountSumOfIs
  <1>5. v \in Seq(Nat) /\ Len(v) = Len(b) /\ \A i \in 1..Len(b) : v[i] = Sums(y)[i]
    BY CountSumOfIs
  <1>6. /\ w \in Seq(Nat) /\ Len(w) = Len(a) + Len(b)
        /\ \A i \in 1..(Len(a) + Len(b)) : w[i] = Sums(x \o y)[i]
    <2>1. /\ w \in Seq(Nat) /\ Len(w) = Len(a \o b)
          /\ \A i \in 1..Len(a \o b) : w[i] = Sums(Counts(a \o b))[i]
      BY <1>2, CountSumOfIs
    <2> QED  BY <1>2, <2>1
  <1> HIDE DEF x, y, u, v, w, d
  <1>7. t \in Seq(Nat) /\ Len(t) = Len(b) /\ \A i \in 1..Len(b) : t[i] = d + v[i]
    <2>1. \A i \in 1..Len(b) : d + v[i] \in Nat
      BY <1>2, <1>5
    <2>2. t \in [1..Len(b) -> Nat]
      BY <2>1
    <2>3. \A i \in 1..Len(b) : t[i] = d + v[i]
      OBVIOUS
    <2> HIDE DEF t
    <2> QED  BY <1>2, <2>2, <2>3
  <1> HIDE DEF t
  <1>8. u \o t \in Seq(Nat) /\ Len(u \o t) = Len(w)
    <2>1. u \in Seq(Nat) /\ t \in Seq(Nat)
      BY <1>4, <1>7
    <2>2. u \o t \in Seq(Nat) /\ Len(u \o t) = Len(u) + Len(t)
      BY <2>1, ConcatProperties
    <2> QED  BY <1>4, <1>6, <1>7, <2>2
  <1>9. ASSUME NEW i \in 1..Len(w) PROVE w[i] = (u \o t)[i]
    <2>1. i \in 1..(Len(a) + Len(b))
      BY <1>6
    <2>2. CASE i <= Len(a)
      <3>1. i \in 1..Len(a) /\ i \in 0..Len(a) /\ (u \o t)[i] = u[i]
        BY <1>2, <1>4, <1>7, <2>1, <2>2
      <3> QED  BY <1>3, <1>4, <1>6, <2>1, <3>1
    <2>3. CASE ~ (i <= Len(a))
      <3> DEFINE k == i - Len(a)
      <3>1. k \in 1..Len(b) /\ k \in 0..Len(b) /\ i = Len(a) + k
        BY <1>2, <2>1, <2>3
      <3>2. (u \o t)[i] = t[k]
        BY <1>2, <1>4, <1>7, <2>1, <2>3
      <3> HIDE DEF k
      <3>3. Sums(x \o y)[Len(a) + k] = d + Sums(y)[k]
        BY <1>3, <3>1
      <3>4. w[i] = Sums(x \o y)[Len(a) + k]
        BY <1>6, <2>1, <3>1
      <3>5. t[k] = d + v[k] /\ v[k] = Sums(y)[k]
        BY <1>5, <1>7, <3>1
      <3> QED  BY <3>2, <3>3, <3>4, <3>5
    <2> QED  BY <2>2, <2>3
  <1>10. w = u \o t
    BY <1>6, <1>8, <1>9, SeqEqual
  <1> QED  BY <1>10 DEF t, u, v, w, d

\* The cumulative counts of the first n children are the first n of them.
LEMMA CountSumOfPrefix ==
    ASSUME NEW a \in Seq(Headers), NEW b \in Seq(Headers)
    PROVE  CountSumOf(a) = SubSeq(CountSumOf(a \o b), 1, Len(a))
  <1> DEFINE x == Counts(a)
             y == Counts(b)
             u == CountSumOf(a)
             w == CountSumOf(a \o b)
  <1>1. x \in Seq(Nat) /\ y \in Seq(Nat) /\ Len(x) = Len(a)
    BY CountsAre
  <1>2. /\ a \o b \in Seq(Headers) /\ Len(a \o b) = Len(a) + Len(b)
        /\ Counts(a \o b) = x \o y /\ Len(a) \in Nat /\ Len(b) \in Nat
    <2>1. Len(a) \in Nat /\ Len(b) \in Nat
      OBVIOUS
    <2>2. /\ a \o b \in Seq(Headers) /\ Len(a \o b) = Len(a) + Len(b)
          /\ Counts(a \o b) = Counts(a) \o Counts(b)
      BY CountsOfConcat
    <2> QED  BY <2>1, <2>2
  <1>3. \A i \in 0..Len(a) : Sums(x \o y)[i] = Sums(x)[i]
    <2> HIDE DEF x, y
    <2> QED  BY <1>1, SumsOfConcat
  <1>4. u \in Seq(Nat) /\ Len(u) = Len(a) /\ \A i \in 1..Len(a) : u[i] = Sums(x)[i]
    BY CountSumOfIs
  <1>5. /\ w \in Seq(Nat) /\ Len(w) = Len(a) + Len(b)
        /\ \A i \in 1..(Len(a) + Len(b)) : w[i] = Sums(x \o y)[i]
    <2>1. /\ w \in Seq(Nat) /\ Len(w) = Len(a \o b)
          /\ \A i \in 1..Len(a \o b) : w[i] = Sums(Counts(a \o b))[i]
      BY <1>2, CountSumOfIs
    <2> QED  BY <1>2, <2>1
  <1> HIDE DEF x, y, u, w
  <1> DEFINE p == SubSeq(w, 1, Len(a))
  <1>6. p \in Seq(Nat) /\ Len(p) = Len(a) /\ \A i \in 1..Len(a) : p[i] = w[i]
    BY <1>2, <1>5
  <1> HIDE DEF p
  <1>7. \A i \in 1..Len(u) : u[i] = p[i]
    <2> SUFFICES ASSUME NEW i \in 1..Len(a) PROVE u[i] = p[i]
      BY <1>4
    <2>1. i \in 0..Len(a) /\ i \in 1..(Len(a) + Len(b))
      BY <1>2
    <2> QED  BY <1>3, <1>4, <1>5, <1>6, <2>1
  <1>8. u = p
    BY <1>4, <1>6, <1>7, SeqEqual
  <1> QED  BY <1>8 DEF u, p, w

-----------------------------------------------------------------------------
(* Metadata slabs.                                                         *)

\* A metadata slab that is not the root, as VerifyArray wants it.
MetaSlabs == [kind : {"meta"}, count : Nat, size : Nat, children : Seq(Headers),
              countSum : Seq(Nat), extra : {FALSE}]

SoundMeta(slab) == slab \in MetaSlabs /\ verifyMetaDataSlab(slab)

\* Sizes of metadata slabs.
LEMMA MetaLimits ==
    /\ MetaPrefixSize \in Nat /\ HeaderSize \in Nat /\ MetaPrefixSize > 0 /\ HeaderSize > 0
    /\ MinThreshold \in Nat /\ MaxThreshold \in Nat /\ TargetThreshold \in Nat
    /\ 2 * MinThreshold <= TargetThreshold /\ TargetThreshold <= 2 * MinThreshold + 1
    /\ 2 * MaxThreshold <= 3 * TargetThreshold /\ 3 * TargetThreshold <= 2 * MaxThreshold + 1
    /\ MetaPrefixSize + HeaderSize < MinThreshold
    /\ MetaPrefixSize + 4 * HeaderSize <= MaxThreshold
  BY StoreAssumption, SizesAssumption DEF MinThreshold, MaxThreshold

\* The headers of more children are larger.
LEMMA HeaderSizes ==
    ASSUME NEW a \in Nat, NEW b \in Nat
    PROVE  /\ a * HeaderSize \in Nat /\ (a + b) * HeaderSize = a * HeaderSize + b * HeaderSize
           /\ a <= b => a * HeaderSize <= b * HeaderSize
           /\ HeaderSize * a = a * HeaderSize
           /\ a = b + 1 => a * HeaderSize = b * HeaderSize + HeaderSize
  <1> DEFINE h == HeaderSize
  <1>1. h \in Nat
    BY MetaLimits
  <1> HIDE DEF h
  <1>2. /\ a * h \in Nat /\ (a + b) * h = a * h + b * h /\ h * a = a * h
    BY <1>1
  <1>3. a <= b => a * h <= b * h
    BY <1>1
  <1>4. a = b + 1 => a * h = b * h + h
    BY <1>1
  <1> QED  BY <1>2, <1>3, <1>4 DEF h

\* What a sound metadata slab is made of.
LEMMA MetaParts ==
    ASSUME NEW slab, SoundMeta(slab)
    PROVE  /\ slab \in MetaSlabs /\ slab.children \in Seq(Headers) /\ ~ IsData(slab)
           /\ slab.countSum = CountSumOf(slab.children)
           /\ slab.count = ChildCount(slab.children) /\ slab.count \in Nat
           /\ slab.size = MetaPrefixSize + Len(slab.children) * HeaderSize
           /\ slab.size \in Nat /\ Len(slab.children) \in Nat
  <1>1. /\ slab \in MetaSlabs /\ slab.children \in Seq(Headers)
        /\ slab.kind = "meta" /\ slab.count \in Nat /\ slab.size \in Nat
    BY DEF SoundMeta, MetaSlabs
  <1>2. /\ slab.countSum = CountSums(slab.children)
        /\ slab.count = ChildCount(slab.children)
        /\ slab.size = MetaPrefixSize + Len(slab.children) * HeaderSize
    BY DEF SoundMeta, verifyMetaDataSlab
  <1> QED  BY <1>1, <1>2, CountSumsAre DEF IsData

\* A slab with children counted and added up is sound.
LEMMA MetaIsSound ==
    ASSUME NEW slab, NEW children \in Seq(Headers),
           slab = [kind |-> "meta", count |-> ChildCount(children),
                   size |-> MetaPrefixSize + Len(children) * HeaderSize,
                   children |-> children, countSum |-> CountSumOf(children), extra |-> FALSE]
    PROVE  /\ SoundMeta(slab) /\ slab.children = children
           /\ slab.size = MetaPrefixSize + Len(children) * HeaderSize
  <1>1. /\ slab.children = children /\ slab.countSum = CountSumOf(children)
        /\ slab.count = ChildCount(children) /\ slab.kind = "meta" /\ slab.extra = FALSE
        /\ slab.size = MetaPrefixSize + Len(children) * HeaderSize
    OBVIOUS
  <1>2. CountSumOf(children) \in Seq(Nat) /\ CountSums(children) = CountSumOf(children)
    BY CountSumOfIs, CountSumsAre
  <1>3. ChildCount(children) \in Nat
    BY CountsOfConcat
  <1>4. MetaPrefixSize + Len(children) * HeaderSize \in Nat
    <2>1. Len(children) \in Nat
      OBVIOUS
    <2> DEFINE n == Len(children)
               z == n * HeaderSize
    <2>2. z \in Nat
      BY <2>1, HeaderSizes
    <2> HIDE DEF z
    <2> QED  BY <2>2, MetaLimits DEF z
  <1>5. slab \in MetaSlabs
    BY <1>2, <1>3, <1>4 DEF MetaSlabs
  <1> QED  BY <1>1, <1>2, <1>5 DEF SoundMeta, verifyMetaDataSlab

\* A metadata slab made anew is sound.
LEMMA MetaOfIsSound ==
    ASSUME NEW children \in Seq(Headers)
    PROVE  /\ SoundMeta(MetaOf(children)) /\ MetaOf(children).children = children
           /\ MetaOf(children).size = MetaPrefixSize + Len(children) * HeaderSize
           /\ MetaOf(children).countSum = CountSumOf(children)
  <1>1. MetaOf(children)
          = [kind |-> "meta", count |-> ChildCount(children),
             size |-> MetaPrefixSize + Len(children) * HeaderSize,
             children |-> children, countSum |-> CountSumOf(children), extra |-> FALSE]
    BY CountSumsAre DEF MetaOf, MetaSlab
  <1> QED  BY <1>1, MetaIsSound

\* A sound slab is the one made of its children.
LEMMA SoundIsMetaOf ==
    ASSUME NEW slab, SoundMeta(slab)
    PROVE  slab = MetaOf(slab.children)
  <1> DEFINE c == slab.children
  <1>1. /\ slab \in MetaSlabs /\ c \in Seq(Headers)
        /\ slab.countSum = CountSumOf(c) /\ slab.count = ChildCount(c)
        /\ slab.size = MetaPrefixSize + Len(c) * HeaderSize
    BY MetaParts
  <1>2. slab = [kind |-> "meta", count |-> slab.count, size |-> slab.size,
                children |-> c, countSum |-> slab.countSum, extra |-> FALSE]
    BY <1>1 DEF MetaSlabs
  <1> QED  BY <1>1, <1>2, CountSumsAre DEF MetaOf, MetaSlab

\* Children shared between two slabs made anew.
MetaShare(children, n) ==
    [left  |-> MetaOf(SubSeq(children, 1, n)),
     right |-> MetaOf(SubSeq(children, n + 1, Len(children)))]

\* What is left of two neighbours: their children, in order.
SharedChildren(parts, children, n) ==
    /\ SoundMeta(parts.left) /\ SoundMeta(parts.right)
    /\ parts.left.children \o parts.right.children = children
    /\ parts.left.size = MetaPrefixSize + n * HeaderSize
    /\ parts.right.size = MetaPrefixSize + (Len(children) - n) * HeaderSize

\* Wherever the children of two slabs are cut, both slabs are sound.
LEMMA MetaShareIsSound ==
    ASSUME NEW children \in Seq(Headers), NEW n \in 0..Len(children)
    PROVE  SharedChildren(MetaShare(children, n), children, n)
  <1> DEFINE l == SubSeq(children, 1, n)
             r == SubSeq(children, n + 1, Len(children))
  <1>1. l \in Seq(Headers) /\ r \in Seq(Headers) /\ IsCut(l, r, children, n)
    BY Cut
  <1>2. Len(l) = n /\ Len(r) = Len(children) - n /\ l \o r = children
    BY <1>1 DEF IsCut
  <1>3. MetaShare(children, n).left = MetaOf(l) /\ MetaShare(children, n).right = MetaOf(r)
    BY DEF MetaShare
  <1> HIDE DEF l, r
  <1>4. /\ SoundMeta(MetaOf(l)) /\ MetaOf(l).children = l
        /\ MetaOf(l).size = MetaPrefixSize + n * HeaderSize
    BY <1>1, <1>2, MetaOfIsSound
  <1>5. /\ SoundMeta(MetaOf(r)) /\ MetaOf(r).children = r
        /\ MetaOf(r).size = MetaPrefixSize + (Len(children) - n) * HeaderSize
    BY <1>1, <1>2, MetaOfIsSound
  <1> QED  BY <1>2, <1>3, <1>4, <1>5 DEF SharedChildren

\* The metadata slab with these fields.
MetaRecord(ch, cs, ct, sz) ==
    [kind |-> "meta", count |-> ct, size |-> sz, children |-> ch, countSum |-> cs,
     extra |-> FALSE]

MetaRecords(ch, cs, ct, sz) ==
    [kind : {"meta"}, count : {ct}, size : {sz}, children : {ch}, countSum : {cs},
     extra : {FALSE}]

\* A slab is known by its fields.
LEMMA MetaFields ==
    ASSUME NEW ch, NEW cs, NEW ct, NEW sz, NEW x \in MetaRecords(ch, cs, ct, sz)
    PROVE  x = MetaRecord(ch, cs, ct, sz)
  <1>1. x = [kind |-> x.kind, count |-> x.count, size |-> x.size,
             children |-> x.children, countSum |-> x.countSum, extra |-> x.extra]
    BY DEF MetaRecords
  <1>2. /\ x.kind = "meta" /\ x.count = ct /\ x.size = sz
        /\ x.children = ch /\ x.countSum = cs /\ x.extra = FALSE
    BY DEF MetaRecords
  <1> QED  BY <1>1, <1>2 DEF MetaRecord

\* A split keeps the cumulative counts of the left children and makes those of
\* the right ones anew: both are what they should be.
LEMMA MetaSplitIs ==
    ASSUME NEW slab, SoundMeta(slab)
    PROVE  MetaSplit(slab) = MetaShare(slab.children, (Len(slab.children) + 1) \div 2)
  <1> DEFINE c == slab.children
             n == (Len(c) + 1) \div 2
             l == SubSeq(c, 1, n)
             r == SubSeq(c, n + 1, Len(c))
             leftCount == ChildCount(l)
             new == MetaSlab(r, slab.count - leftCount, slab.size - n * HeaderSize)
             old == [slab EXCEPT !.children = l, !.countSum = SubSeq(slab.countSum, 1, n),
                                 !.count = leftCount, !.size = MetaPrefixSize + n * HeaderSize]
  <1>1. /\ slab \in MetaSlabs /\ c \in Seq(Headers)
        /\ slab.countSum = CountSumOf(c) /\ slab.count = ChildCount(c)
        /\ slab.size = MetaPrefixSize + Len(c) * HeaderSize /\ Len(c) \in Nat
    BY MetaParts
  <1>2. n \in 0..Len(c) /\ n \in Nat /\ Len(c) - n \in Nat
    <2> DEFINE k == Len(c)
    <2>1. k \in Nat
      BY <1>1
    <2> HIDE DEF k
    <2>2. (k + 1) \div 2 \in 0..k /\ (k + 1) \div 2 \in Nat /\ k - ((k + 1) \div 2) \in Nat
      BY <2>1
    <2> QED  BY <2>2 DEF k
  <1>3. MetaSplit(slab) = [left |-> old, right |-> new]
    BY DEF MetaSplit
  <1> HIDE DEF n, c
  <1>5. l \in Seq(Headers) /\ r \in Seq(Headers) /\ IsCut(l, r, c, n)
    BY <1>1, <1>2, Cut
  <1>6. Len(l) = n /\ Len(r) = Len(c) - n /\ l \o r = c
    BY <1>5 DEF IsCut
  <1> HIDE DEF l, r
  <1>7. CountSumOf(l) = SubSeq(slab.countSum, 1, n)
    BY <1>1, <1>5, <1>6, CountSumOfPrefix
  <1>8. slab.count - leftCount = ChildCount(r)
    <2>1. ChildCount(c) = ChildCount(l) + ChildCount(r)
          /\ ChildCount(l) \in Nat /\ ChildCount(r) \in Nat
      BY <1>5, <1>6, CountsOfConcat
    <2> QED  BY <1>1, <2>1
  <1>9. slab.size - n * HeaderSize = MetaPrefixSize + Len(r) * HeaderSize
    <2> DEFINE k == Len(r)
               x == n * HeaderSize
               y == k * HeaderSize
               z == Len(c) * HeaderSize
    <2>1. k \in Nat /\ n + k = Len(c)
      BY <1>1, <1>2, <1>6
    <2>2. x \in Nat /\ y \in Nat /\ z = x + y
      <3>1. x \in Nat /\ y \in Nat /\ (n + k) * HeaderSize = x + y
        <4> HIDE DEF k
        <4> QED  BY <1>2, <2>1, HeaderSizes
      <3> QED  BY <2>1, <3>1
    <2>3. slab.size = MetaPrefixSize + z
      BY <1>1
    <2> HIDE DEF x, y, z
    <2> QED  BY <2>2, <2>3, MetaLimits DEF x, y
  <1>10. old = MetaOf(l)
    <2> DEFINE cs == SubSeq(slab.countSum, 1, n)
               sz == MetaPrefixSize + n * HeaderSize
    <2>0. old = [slab EXCEPT !.children = l, !.countSum = cs, !.count = leftCount, !.size = sz]
      OBVIOUS
    <2> HIDE DEF old, cs, sz, leftCount
    <2>1. old \in MetaRecords(l, cs, leftCount, sz)
      BY <1>1, <2>0 DEF MetaSlabs, MetaRecords
    <2>2. old = MetaRecord(l, cs, leftCount, sz)
      BY <2>1, MetaFields
    <2> QED  BY <1>5, <1>6, <1>7, <2>2, CountSumsAre
             DEF MetaOf, MetaSlab, MetaRecord, cs, sz, leftCount
  <1>11. new = MetaOf(r)
    BY <1>8, <1>9 DEF MetaOf
  <1> QED  BY <1>3, <1>10, <1>11 DEF MetaShare, l, r, n, c

\* A merge shifts the cumulative counts of the right children by the last one
\* of the left children.
LEMMA MetaMergeIs ==
    ASSUME NEW left, NEW right, SoundMeta(left), SoundMeta(right), left.children # <<>>
    PROVE  MetaMerge(left, right) = MetaOf(left.children \o right.children)
  <1> DEFINE a == left.children
             b == right.children
             base == Last(left.countSum)
             sums == CountSums(b)
             shifted == [i \in DOMAIN sums |-> base + sums[i]]
  <1>1. /\ left \in MetaSlabs /\ a \in Seq(Headers) /\ left.countSum = CountSumOf(a)
        /\ left.count = ChildCount(a) /\ left.size = MetaPrefixSize + Len(a) * HeaderSize
        /\ Len(a) \in Nat
    BY MetaParts
  <1>2. /\ b \in Seq(Headers) /\ right.count = ChildCount(b)
        /\ right.size = MetaPrefixSize + Len(b) * HeaderSize /\ Len(b) \in Nat
    BY MetaParts
  <1>4. /\ a \o b \in Seq(Headers) /\ Len(a \o b) = Len(a) + Len(b)
        /\ ChildCount(a \o b) = ChildCount(a) + ChildCount(b)
    BY <1>1, <1>2, CountsOfConcat
  <1>5. base = ChildCount(a)
    <2> DEFINE u == CountSumOf(a)
               x == Counts(a)
               k == Len(a)
    <2>1. /\ u \in Seq(Nat) /\ Len(u) = k /\ \A i \in 1..k : u[i] = Sums(x)[i]
      BY <1>1, CountSumOfIs
    <2>2. Len(x) = k /\ ChildCount(a) = Total(x)
      BY <1>1, CountsAre
    <2>3. k \in 1..k
      BY <1>1
    <2> HIDE DEF u, x, k
    <2>4. Last(u) = ChildCount(a)
      BY <2>1, <2>2, <2>3 DEF Last, Total
    <2> QED  BY <1>1, <2>4 DEF u
  <1>6. shifted = [i \in 1..Len(b) |-> ChildCount(a) + CountSumOf(b)[i]]
    <2>1. sums = CountSumOf(b)
      BY <1>2, CountSumsAre
    <2>2. CountSumOf(b) \in Seq(Nat) /\ Len(CountSumOf(b)) = Len(b)
      BY <1>2, CountSumOfIs
    <2>3. DOMAIN sums = 1..Len(b)
      BY <2>1, <2>2
    <2> HIDE DEF sums, base
    <2> QED  BY <1>5, <2>1, <2>3
  <1>7. left.countSum \o shifted = CountSumOf(a \o b)
    <2> HIDE DEF shifted
    <2> QED  BY <1>1, <1>2, <1>6, CountSumOfConcat
  <1>8. left.size + (right.size - MetaPrefixSize) = MetaPrefixSize + Len(a \o b) * HeaderSize
    <2> DEFINE m == Len(a)
               k == Len(b)
               x == m * HeaderSize
               y == k * HeaderSize
               z == (m + k) * HeaderSize
    <2>1. x \in Nat /\ y \in Nat /\ z = x + y
      BY <1>1, <1>2, HeaderSizes
    <2>2. left.size = MetaPrefixSize + x /\ right.size = MetaPrefixSize + y
          /\ Len(a \o b) * HeaderSize = z
      BY <1>1, <1>2, <1>4
    <2> HIDE DEF x, y, z
    <2>3. left.size + (right.size - MetaPrefixSize) = MetaPrefixSize + z
      BY <2>1, <2>2, MetaLimits
    <2> QED  BY <2>2, <2>3
  <1>9. MetaMerge(left, right)
          = [left EXCEPT !.children = a \o b, !.size = left.size + (right.size - MetaPrefixSize),
                         !.count = left.count + right.count,
                         !.countSum = left.countSum \o shifted]
    BY DEF MetaMerge
  <1> HIDE DEF a, b, shifted
  <1>10. MetaMerge(left, right)
          = [kind |-> "meta", count |-> ChildCount(a \o b),
             size |-> MetaPrefixSize + Len(a \o b) * HeaderSize,
             children |-> a \o b, countSum |-> CountSumOf(a \o b), extra |-> FALSE]
    <2> DEFINE ch == a \o b
               cs == CountSumOf(a \o b)
               ct == ChildCount(a \o b)
               sz == MetaPrefixSize + Len(a \o b) * HeaderSize
    <2>1. MetaMerge(left, right)
            = [left EXCEPT !.children = ch, !.size = sz, !.count = ct, !.countSum = cs]
      BY <1>1, <1>2, <1>4, <1>7, <1>8, <1>9
    <2> HIDE DEF ch, cs, ct, sz
    <2>2. MetaMerge(left, right) \in MetaRecords(ch, cs, ct, sz)
      BY <1>1, <2>1 DEF MetaSlabs, MetaRecords
    <2>3. MetaMerge(left, right) = MetaRecord(ch, cs, ct, sz)
      BY <2>2, MetaFields
    <2> QED  BY <2>3 DEF ch, cs, ct, sz, MetaRecord
  <1> QED  BY <1>4, <1>10, CountSumsAre DEF MetaOf, MetaSlab, a, b

\* The start of two lists, one after the other.
LEMMA PrefixOfConcat ==
    ASSUME NEW a \in Seq(Headers), NEW b \in Seq(Headers), NEW n \in 0..(Len(a) + Len(b))
    PROVE  /\ n <= Len(a) => SubSeq(a \o b, 1, n) = SubSeq(a, 1, n)
           /\ n >= Len(a) => SubSeq(a \o b, 1, n) = a \o SubSeq(b, 1, n - Len(a))
  <1> DEFINE c == a \o b
             p == SubSeq(c, 1, n)
  <1>1. Len(a) \in Nat /\ Len(b) \in Nat /\ n \in Nat /\ n <= Len(a) + Len(b)
    OBVIOUS
  <1>2. /\ c \in Seq(Headers) /\ Len(c) = Len(a) + Len(b)
        /\ \A i \in 1..(Len(a) + Len(b)) : c[i] = IF i <= Len(a) THEN a[i] ELSE b[i - Len(a)]
    BY ConcatProperties
  <1> HIDE DEF c
  <1>3. p \in Seq(Headers) /\ Len(p) = n /\ \A i \in 1..n : p[i] = c[i]
    BY <1>1, <1>2
  <1> HIDE DEF p
  <1>4. ASSUME n <= Len(a) PROVE p = SubSeq(a, 1, n)
    <2> DEFINE q == SubSeq(a, 1, n)
    <2>1. q \in Seq(Headers) /\ Len(q) = n /\ \A i \in 1..n : q[i] = a[i]
      BY <1>1, <1>4
    <2> HIDE DEF q
    <2>2. \A i \in 1..Len(p) : p[i] = q[i]
      <3> SUFFICES ASSUME NEW i \in 1..n PROVE p[i] = q[i]
        BY <1>3
      <3>1. i \in 1..(Len(a) + Len(b)) /\ i <= Len(a)
        BY <1>1, <1>4
      <3> QED  BY <1>2, <1>3, <2>1, <3>1
    <2>3. p = q
      BY <1>3, <2>1, <2>2, SeqEqual
    <2> QED  BY <2>3 DEF q
  <1>5. ASSUME n >= Len(a) PROVE p = a \o SubSeq(b, 1, n - Len(a))
    <2> DEFINE d == n - Len(a)
               t == SubSeq(b, 1, d)
               q == a \o t
    <2>1. d \in 0..Len(b) /\ d \in Nat /\ Len(a) + d = n
      BY <1>1, <1>5
    <2>2. t \in Seq(Headers) /\ Len(t) = d /\ \A i \in 1..d : t[i] = b[i]
      <3> HIDE DEF d
      <3> QED  BY <1>1, <2>1
    <2> HIDE DEF t, d
    <2>3. /\ q \in Seq(Headers) /\ Len(q) = Len(a) + Len(t)
          /\ \A i \in 1..(Len(a) + Len(t)) : q[i] = IF i <= Len(a) THEN a[i] ELSE t[i - Len(a)]
      BY <2>2, ConcatProperties
    <2>4. Len(q) = n
      BY <2>1, <2>2, <2>3
    <2> HIDE DEF q
    <2>5. \A i \in 1..Len(p) : p[i] = q[i]
      <3> SUFFICES ASSUME NEW i \in 1..n PROVE p[i] = q[i]
        BY <1>3
      <3>1. i \in 1..(Len(a) + Len(b)) /\ i \in 1..(Len(a) + Len(t))
        BY <1>1, <2>1, <2>2
      <3>2. CASE i <= Len(a)
        BY <1>2, <1>3, <2>3, <3>1, <3>2
      <3>3. CASE ~ (i <= Len(a))
        <4>1. i - Len(a) \in 1..d
          BY <1>1, <2>1, <3>3
        <4>2. t[i - Len(a)] = b[i - Len(a)]
          BY <2>2, <4>1
        <4> QED  BY <1>2, <1>3, <2>3, <3>1, <3>3, <4>2
      <3> QED  BY <3>2, <3>3
    <2>6. p = q
      BY <1>3, <2>3, <2>4, <2>5, SeqEqual
    <2> QED  BY <2>6 DEF q, t, d
  <1> QED  BY <1>4, <1>5 DEF p, c

\* The left slab keeps the cumulative counts of the children it keeps.
LEMMA MetaLendIs ==
    ASSUME NEW left, NEW right, SoundMeta(left), SoundMeta(right),
           (Len(left.children) + Len(right.children)) \div 2 <= Len(left.children)
    PROVE  MetaLendToRight(left, right)
             = MetaShare(left.children \o right.children,
                         (Len(left.children) + Len(right.children)) \div 2)
  <1> DEFINE a == left.children
             b == right.children
             n == (Len(a) + Len(b)) \div 2
             c == a \o b
             l == SubSeq(c, 1, n)
             cs == SubSeq(left.countSum, 1, n)
  <1>1. a \in Seq(Headers) /\ left.countSum = CountSumOf(a) /\ Len(a) \in Nat
    BY MetaParts
  <1>2. b \in Seq(Headers) /\ Len(b) \in Nat
    BY MetaParts
  <1>3. n \in 0..(Len(a) + Len(b)) /\ n <= Len(a) /\ n \in 0..Len(a)
    <2> HIDE DEF a, b
    <2>1. n <= Len(a)
      BY DEF a, b
    <2> QED  BY <1>1, <1>2, <2>1
  <1>4. Len(c) = Len(a) + Len(b)
    BY <1>1, <1>2
  <1>5. MetaLendToRight(left, right)
          = [left  |-> [MetaOf(l) EXCEPT !.countSum = cs],
             right |-> MetaOf(SubSeq(c, n + 1, Len(c)))]
    BY <1>4 DEF MetaLendToRight
  <1> HIDE DEF n
  <1>6. l = SubSeq(a, 1, n)
    BY <1>1, <1>2, <1>3, PrefixOfConcat
  <1>7. l \in Seq(Headers) /\ CountSumOf(l) = cs
    <2> DEFINE m == SubSeq(a, 1, n)
               r == SubSeq(a, n + 1, Len(a))
    <2>1. m \in Seq(Headers) /\ r \in Seq(Headers) /\ IsCut(m, r, a, n)
      BY <1>1, <1>3, Cut
    <2>2. Len(m) = n /\ m \o r = a
      BY <2>1 DEF IsCut
    <2> HIDE DEF m, r, l
    <2>3. CountSumOf(m) = SubSeq(CountSumOf(a), 1, n)
      BY <2>1, <2>2, CountSumOfPrefix
    <2> QED  BY <1>1, <1>6, <2>1, <2>3 DEF m
  <1>8. [MetaOf(l) EXCEPT !.countSum = cs] = MetaOf(l)
    <2> DEFINE x == MetaOf(l)
    <2>1. x \in MetaSlabs /\ x.countSum = cs
      <3> HIDE DEF l, cs
      <3> QED  BY <1>7, MetaOfIsSound DEF SoundMeta
    <2> HIDE DEF x, cs
    <2>2. [x EXCEPT !.countSum = cs] = x
      BY <2>1 DEF MetaSlabs
    <2> QED  BY <2>2 DEF x
  <1> QED  BY <1>4, <1>5, <1>8 DEF MetaShare, n

\* The left slab adds to its cumulative counts those of the children it takes.
LEMMA MetaBorrowIs ==
    ASSUME NEW left, NEW right, SoundMeta(left), SoundMeta(right),
           (Len(left.children) + Len(right.children)) \div 2 >= Len(left.children)
    PROVE  MetaBorrowFromRight(left, right)
             = MetaShare(left.children \o right.children,
                         (Len(left.children) + Len(right.children)) \div 2)
  <1> DEFINE a == left.children
             b == right.children
             n == (Len(a) + Len(b)) \div 2
             c == a \o b
             moved == SubSeq(b, 1, n - Len(a))
             sums == CountSums(moved)
             shifted == [i \in DOMAIN sums |-> left.count + sums[i]]
             ch == a \o moved
             cs == left.countSum \o shifted
             ct == left.count + ChildCount(moved)
             sz == MetaPrefixSize + n * HeaderSize
             new == [left EXCEPT !.children = ch, !.countSum = cs, !.count = ct, !.size = sz]
  <1>1. /\ left \in MetaSlabs /\ a \in Seq(Headers) /\ left.countSum = CountSumOf(a)
        /\ left.count = ChildCount(a) /\ Len(a) \in Nat
    BY MetaParts
  <1>2. b \in Seq(Headers) /\ Len(b) \in Nat
    BY MetaParts
  <1>3. n \in 0..(Len(a) + Len(b)) /\ n >= Len(a) /\ n - Len(a) \in 0..Len(b) /\ n \in Nat
    <2> HIDE DEF a, b
    <2>1. n >= Len(a)
      BY DEF a, b
    <2> QED  BY <1>1, <1>2, <2>1
  <1>4. Len(c) = Len(a) + Len(b)
    BY <1>1, <1>2
  <1>5. MetaBorrowFromRight(left, right)
          = [left  |-> new, right |-> MetaOf(SubSeq(c, n + 1, Len(c)))]
    BY <1>4 DEF MetaBorrowFromRight
  <1> HIDE DEF n, a, b
  <1>6. SubSeq(c, 1, n) = ch
    BY <1>1, <1>2, <1>3, PrefixOfConcat
  <1>7. moved \in Seq(Headers) /\ Len(moved) = n - Len(a)
    <2> DEFINE d == n - Len(a)
    <2>1. d \in 0..Len(b)
      BY <1>3
    <2> HIDE DEF d
    <2>2. SubSeq(b, 1, d) \in Seq(Headers) /\ Len(SubSeq(b, 1, d)) = d
      BY <1>2, <2>1
    <2> QED  BY <2>2 DEF d
  <1> HIDE DEF moved
  <1>8. /\ ch \in Seq(Headers) /\ ct = ChildCount(ch) /\ Len(ch) = n
    <2>1. /\ ch \in Seq(Headers) /\ Len(ch) = Len(a) + Len(moved)
          /\ ChildCount(ch) = ChildCount(a) + ChildCount(moved)
      BY <1>1, <1>7, CountsOfConcat
    <2>2. Len(ch) = n
      <3> HIDE DEF ch
      <3> QED  BY <1>1, <1>3, <1>7, <2>1
    <2> QED  BY <1>1, <2>1, <2>2
  <1>9. cs = CountSumOf(ch)
    <2>1. sums = CountSumOf(moved)
      BY <1>7, CountSumsAre
    <2>2. CountSumOf(moved) \in Seq(Nat) /\ Len(CountSumOf(moved)) = Len(moved)
      BY <1>7, CountSumOfIs
    <2>3. DOMAIN sums = 1..Len(moved)
      BY <2>1, <2>2
    <2> HIDE DEF sums
    <2>4. shifted = [i \in 1..Len(moved) |-> ChildCount(a) + CountSumOf(moved)[i]]
      BY <1>1, <2>1, <2>3
    <2> HIDE DEF shifted
    <2> QED  BY <1>1, <1>7, <2>4, CountSumOfConcat
  <1> HIDE DEF ch, cs, ct, sz
  <1>10. new = MetaOf(ch)
    <2> HIDE DEF new
    <2>1. new \in MetaRecords(ch, cs, ct, sz)
      BY <1>1 DEF MetaSlabs, MetaRecords, new
    <2>2. new = MetaRecord(ch, cs, ct, sz)
      BY <2>1, MetaFields
    <2> QED  BY <1>8, <1>9, <2>2, CountSumsAre DEF MetaOf, MetaSlab, MetaRecord, sz
  <1> HIDE DEF new
  <1> QED  BY <1>4, <1>5, <1>6, <1>10 DEF MetaShare, n, a, b

\* Two slabs made of shared children are within the limits if their numbers of
\* children are.
LEMMA SharedInLimits ==
    ASSUME NEW parts, NEW children \in Seq(Headers), NEW n \in 0..Len(children),
           SharedChildren(parts, children, n),
           MinThreshold <= MetaPrefixSize + n * HeaderSize,
           MetaPrefixSize + n * HeaderSize <= MaxThreshold,
           MinThreshold <= MetaPrefixSize + (Len(children) - n) * HeaderSize,
           MetaPrefixSize + (Len(children) - n) * HeaderSize <= MaxThreshold
    PROVE  WithinLimits(parts.left) /\ WithinLimits(parts.right)
  <1> DEFINE k == Len(children) - n
             x == n * HeaderSize
             y == k * HeaderSize
  <1>1. k \in Nat /\ n \in Nat
    OBVIOUS
  <1>2. x \in Nat /\ y \in Nat
    <2> HIDE DEF k
    <2> QED  BY <1>1, HeaderSizes
  <1>3. parts.left.size = MetaPrefixSize + x /\ parts.right.size = MetaPrefixSize + y
    BY DEF SharedChildren
  <1>4. /\ MinThreshold <= MetaPrefixSize + x /\ MetaPrefixSize + x <= MaxThreshold
        /\ MinThreshold <= MetaPrefixSize + y /\ MetaPrefixSize + y <= MaxThreshold
    OBVIOUS
  <1> HIDE DEF x, y
  <1>5. MetaPrefixSize + x \in Int /\ MetaPrefixSize + y \in Int
    BY <1>2, MetaLimits
  <1> QED  BY <1>3, <1>4, <1>5, InLimits

\* A metadata slab that has become full by one child is split into two within
\* the limits, with correct counts (ArrayMetaDataSlab.Split).
THEOREM MetaSplitInLimits ==
    ASSUME NEW slab, SoundMeta(slab), IsFull(slab), slab.size <= MaxThreshold + HeaderSize,
           NEW rightID
    PROVE  LET parts == Split(slab, rightID)
           IN /\ SoundMeta(parts.left) /\ SoundMeta(parts.right)
              /\ parts.left.children \o parts.right.children = slab.children
              /\ WithinLimits(parts.left) /\ WithinLimits(parts.right)
  <1> DEFINE c == slab.children
             N == Len(c)
             n == (N + 1) \div 2
             k == N - n
             parts == MetaSplit(slab)
             x == n * HeaderSize
             y == k * HeaderSize
             z == N * HeaderSize
  <1>1. /\ c \in Seq(Headers) /\ ~ IsData(slab) /\ slab.size = MetaPrefixSize + z /\ N \in Nat
    BY MetaParts
  <1>2. Split(slab, rightID) = parts /\ parts = MetaShare(c, n)
    BY <1>1, MetaSplitIs DEF Split
  <1>3. n \in 0..N /\ n \in Nat /\ k \in Nat /\ n + k = N /\ k <= n /\ n <= k + 1
    <2> HIDE DEF N
    <2> QED  BY <1>1
  <1>4. SharedChildren(parts, c, n)
    <2> HIDE DEF n, c, parts
    <2> QED  BY <1>1, <1>2, <1>3, MetaShareIsSound
  <1>5. x \in Nat /\ y \in Nat /\ z = x + y /\ y <= x /\ x <= y + HeaderSize
    <2> HIDE DEF n, k, N
    <2>1. x \in Nat /\ y \in Nat /\ (n + k) * HeaderSize = x + y /\ y <= x
      BY <1>3, HeaderSizes
    <2>2. x <= (k + 1) * HeaderSize /\ (k + 1) * HeaderSize = y + HeaderSize
      <3> DEFINE j == k + 1
      <3>1. j \in Nat /\ n <= j /\ j = k + 1
        BY <1>3
      <3> HIDE DEF j
      <3>2. x <= j * HeaderSize /\ j * HeaderSize = y + HeaderSize
        BY <1>3, <3>1, HeaderSizes
      <3> QED  BY <3>1, <3>2
    <2>3. z = x + y
      BY <1>3, <2>1
    <2> HIDE DEF x, y, z
    <2> QED  BY <2>1, <2>2, <2>3, MetaLimits
  <1> HIDE DEF x, y, z
  <1>6. /\ MinThreshold <= MetaPrefixSize + x /\ MetaPrefixSize + x <= MaxThreshold
        /\ MinThreshold <= MetaPrefixSize + y /\ MetaPrefixSize + y <= MaxThreshold
    <2>1. MetaPrefixSize + z > MaxThreshold /\ MetaPrefixSize + z <= MaxThreshold + HeaderSize
      BY <1>1 DEF IsFull
    <2> QED  BY <1>5, <2>1, MetaLimits
  <1>7. WithinLimits(parts.left) /\ WithinLimits(parts.right)
    <2> HIDE DEF n, c, parts
    <2> QED  BY <1>1, <1>3, <1>4, <1>6, SharedInLimits DEF x, y
  <1> QED  BY <1>2, <1>4, <1>7 DEF SharedChildren

\* A metadata slab that is too small is merged with a neighbour that cannot lend
\* into one within the limits, with correct counts (ArrayMetaDataSlab.Merge,
\* CanLendToLeft, CanLendToRight).
THEOREM MetaMergeInLimits ==
    ASSUME NEW left, NEW right, SoundMeta(left), SoundMeta(right), left.children # <<>>,
           \/ /\ IsUnderflow(left) /\ WithinLimits(right)
              /\ ~ CanLendToLeft(right, MinThreshold - left.size)
           \/ /\ IsUnderflow(right) /\ WithinLimits(left)
              /\ ~ CanLendToRight(left, MinThreshold - right.size)
    PROVE  LET merged == Merge(left, right)
           IN /\ SoundMeta(merged) /\ WithinLimits(merged)
              /\ merged.children = left.children \o right.children
  <1> DEFINE a == left.children
             b == right.children
             m == Len(a)
             k == Len(b)
             x == m * HeaderSize
             y == k * HeaderSize
             merged == MetaMerge(left, right)
  <1>1. /\ a \in Seq(Headers) /\ ~ IsData(left) /\ left.size = MetaPrefixSize + x /\ m \in Nat
        /\ b \in Seq(Headers) /\ ~ IsData(right) /\ right.size = MetaPrefixSize + y /\ k \in Nat
        /\ left.size \in Nat /\ right.size \in Nat
    BY MetaParts
  <1>2. Merge(left, right) = merged /\ merged = MetaOf(a \o b)
    BY <1>1, MetaMergeIs DEF Merge
  <1>3. a \o b \in Seq(Headers) /\ Len(a \o b) = m + k
    BY <1>1
  <1>4. x \in Nat /\ y \in Nat /\ (m + k) * HeaderSize = x + y
    <2> HIDE DEF m, k
    <2> QED  BY <1>1, HeaderSizes
  <1>5. /\ SoundMeta(merged) /\ merged.children = a \o b
        /\ merged.size = MetaPrefixSize + (x + y)
    <2> DEFINE c == a \o b
    <2>1. c \in Seq(Headers) /\ Len(c) * HeaderSize = x + y
      BY <1>3, <1>4
    <2> HIDE DEF c
    <2>2. /\ SoundMeta(MetaOf(c)) /\ MetaOf(c).children = c
          /\ MetaOf(c).size = MetaPrefixSize + Len(c) * HeaderSize
      BY <2>1, MetaOfIsSound
    <2> QED  BY <1>2, <2>1, <2>2 DEF c
  <1> HIDE DEF merged
  <1>6. ASSUME NEW lender, NEW need \in Nat, lender.size \in Nat, ~ MetaCanLend(lender, need)
        PROVE  lender.size <= (MinThreshold + need) + HeaderSize
    <2> DEFINE w == need + HeaderSize - 1
               h == HeaderSize
               q == h * (w \div h)
    <2>1. w \in Nat /\ h \in Nat /\ h > 0 /\ w <= need + h
      BY MetaLimits
    <2>2. ~ (lender.size - q > MinThreshold)
      BY <1>6 DEF MetaCanLend
    <2>3. q \in Nat /\ q <= w
      <3> HIDE DEF w, h
      <3> QED  BY <2>1
    <2> HIDE DEF q, w, h
    <2>4. lender.size <= (MinThreshold + need) + h
      BY <1>6, <2>1, <2>2, <2>3, MetaLimits
    <2> QED  BY <2>4 DEF h
  <1> HIDE DEF x, y
  <1>7. MinThreshold <= merged.size /\ merged.size <= MaxThreshold /\ merged.size \in Nat
    <2>1. CASE /\ IsUnderflow(left) /\ WithinLimits(right)
               /\ ~ CanLendToLeft(right, MinThreshold - left.size)
      <3>1. ~ MetaCanLend(right, MinThreshold - left.size)
        BY <1>1, <2>1 DEF CanLendToLeft
      <3>2. MinThreshold - left.size \in Nat
        BY <1>1, <2>1, MetaLimits DEF IsUnderflow
      <3>3. right.size <= (MinThreshold + (MinThreshold - left.size)) + HeaderSize
        BY <1>1, <1>6, <3>1, <3>2
      <3>4. right.size >= MinThreshold
        BY <1>1, <2>1, MetaLimits DEF WithinLimits, IsUnderflow
      <3> QED  BY <1>1, <1>4, <1>5, <3>3, <3>4, MetaLimits
    <2>2. CASE /\ IsUnderflow(right) /\ WithinLimits(left)
               /\ ~ CanLendToRight(left, MinThreshold - right.size)
      <3>1. ~ MetaCanLend(left, MinThreshold - right.size)
        BY <1>1, <2>2 DEF CanLendToRight
      <3>2. MinThreshold - right.size \in Nat
        BY <1>1, <2>2, MetaLimits DEF IsUnderflow
      <3>3. left.size <= (MinThreshold + (MinThreshold - right.size)) + HeaderSize
        BY <1>1, <1>6, <3>1, <3>2
      <3>4. left.size >= MinThreshold
        BY <1>1, <2>2, MetaLimits DEF WithinLimits, IsUnderflow
      <3> QED  BY <1>1, <1>4, <1>5, <3>3, <3>4, MetaLimits
    <2> QED  BY <2>1, <2>2
  <1>8. WithinLimits(merged)
    <2>1. merged.size \in Int
      BY <1>7
    <2> QED  BY <1>7, <2>1, InLimits
  <1> QED  BY <1>2, <1>5, <1>8 DEF merged

\* When a slab of g children can lend to a neighbour of t, which is too small,
\* half of all the children are enough for either.
LEMMA HalvesInLimits ==
    ASSUME NEW g \in Nat, NEW t \in Nat, NEW lender,
           lender.size = MetaPrefixSize + g * HeaderSize, ~ (lender.size > MaxThreshold),
           MetaPrefixSize + t * HeaderSize < MinThreshold,
           ~ (lender.size < MinThreshold),
           MetaCanLend(lender, MinThreshold - (MetaPrefixSize + t * HeaderSize))
    PROVE  LET n == (g + t) \div 2
               k == (g + t) - n
           IN /\ n \in 0..(g + t) /\ t <= n /\ n <= g
              /\ MinThreshold <= MetaPrefixSize + n * HeaderSize
              /\ MetaPrefixSize + n * HeaderSize <= MaxThreshold
              /\ MinThreshold <= MetaPrefixSize + k * HeaderSize
              /\ MetaPrefixSize + k * HeaderSize <= MaxThreshold
  <1> DEFINE h == HeaderSize
             G == g * h
             T == t * h
             need == MinThreshold - (MetaPrefixSize + T)
             w == need + h - 1
             q == w \div h
             Q == h * q
             n == (g + t) \div 2
             k == (g + t) - n
  <1>1. h \in Nat /\ h > 0 /\ G \in Nat /\ T \in Nat
    BY MetaLimits, HeaderSizes
  <1>2. /\ lender.size = MetaPrefixSize + G /\ ~ (lender.size > MaxThreshold)
        /\ MetaPrefixSize + T < MinThreshold /\ lender.size - Q > MinThreshold
        /\ ~ (lender.size < MinThreshold)
    BY DEF MetaCanLend
  <1> HIDE DEF h, G, T
  <1>3. need \in Nat /\ need > 0 /\ w \in Nat /\ w + 1 = need + h
    BY <1>1, <1>2, MetaLimits
  <1> HIDE DEF need, w
  <1>4. q \in Nat /\ Q \in Nat /\ w < Q + h /\ Q = q * h
    BY <1>1, <1>3
  <1> HIDE DEF q, Q
  <1>5. Q >= need
    BY <1>1, <1>3, <1>4
  <1>6. MetaPrefixSize + G > Q + MinThreshold
    BY <1>1, <1>2, <1>4, MetaLimits
  <1>7. q <= g
    <2> SUFFICES ASSUME ~ (q <= g) PROVE FALSE
      OBVIOUS
    <2>1. g <= q
      BY <1>4
    <2>2. g * HeaderSize <= q * HeaderSize
      BY <1>4, <2>1, HeaderSizes
    <2>3. G <= Q
      BY <1>4, <2>2 DEF G, h
    <2> QED  BY <1>1, <1>4, <1>6, <2>3, MetaLimits
  <1> DEFINE p == g - q
             r == t + q
             P == p * h
             R == r * h
  <1>8. p \in Nat /\ r \in Nat /\ p + q = g /\ p + r = g + t
    BY <1>4, <1>7
  <1>9. P \in Nat /\ R \in Nat /\ G = P + Q /\ R = T + Q
    <2> HIDE DEF p
    <2>1. P \in Nat /\ (p + q) * HeaderSize = P + q * HeaderSize
      BY <1>4, <1>8, HeaderSizes DEF h
    <2>2. R \in Nat /\ R = t * HeaderSize + q * HeaderSize
      <3>1. (t + q) * HeaderSize = t * HeaderSize + q * HeaderSize
        BY <1>4, HeaderSizes
      <3>2. R = (t + q) * HeaderSize
        BY DEF h
      <3>3. r \in Nat
        BY <1>8
      <3> HIDE DEF r
      <3>4. R \in Nat
        BY <3>3, HeaderSizes DEF h
      <3> QED  BY <3>1, <3>2, <3>4 DEF r
    <2> QED  BY <1>4, <1>8, <2>1, <2>2 DEF G, T, h
  <1> HIDE DEF p, r, P, R
  <1>10. MetaPrefixSize + P >= MinThreshold /\ MetaPrefixSize + R >= MinThreshold
    <2>1. MetaPrefixSize + P >= MinThreshold
      BY <1>4, <1>6, <1>9, MetaLimits
    <2>2. MetaPrefixSize + R >= MinThreshold
      BY <1>1, <1>4, <1>5, <1>9, MetaLimits DEF need
    <2> QED  BY <2>1, <2>2
  <1>11. n \in Nat /\ k \in Nat /\ n <= k /\ k <= n + 1 /\ n + k = g + t /\ n \in 0..(g + t)
    OBVIOUS
  <1> HIDE DEF n, k
  <1> DEFINE X == n * h
             Y == k * h
  <1>12. t < g
    <2> SUFFICES ASSUME g <= t PROVE FALSE
      OBVIOUS
    <2>1. G <= T
      BY HeaderSizes DEF G, T, h
    <2> QED  BY <1>1, <1>2, <2>1, MetaLimits
  <1>13. t <= n /\ n <= g /\ k <= g
    BY <1>11, <1>12
  <1>14. X \in Nat /\ Y \in Nat /\ X <= Y /\ X <= G /\ Y <= G
    BY <1>11, <1>13, HeaderSizes DEF G, h
  <1>15. P <= X \/ R <= X
    <2>1. p <= n \/ r <= n
      BY <1>8, <1>11
    <2> QED  BY <1>8, <1>11, <2>1, HeaderSizes DEF P, R, h
  <1> HIDE DEF X, Y
  <1>16. /\ MinThreshold <= MetaPrefixSize + X /\ MetaPrefixSize + X <= MaxThreshold
         /\ MinThreshold <= MetaPrefixSize + Y /\ MetaPrefixSize + Y <= MaxThreshold
    BY <1>1, <1>2, <1>9, <1>10, <1>14, <1>15, MetaLimits
  <1> QED  BY <1>11, <1>13, <1>16 DEF X, Y, n, k, h

\* A metadata slab that can lend to its right neighbour, which is too small,
\* leaves two slabs within the limits, with correct counts
\* (ArrayMetaDataSlab.CanLendToRight, LendToRight).
THEOREM MetaLendInLimits ==
    ASSUME NEW left, NEW right, SoundMeta(left), SoundMeta(right),
           WithinLimits(left), IsUnderflow(right),
           CanLendToRight(left, MinThreshold - right.size)
    PROVE  LET parts == LendToRight(left, right)
           IN /\ SoundMeta(parts.left) /\ SoundMeta(parts.right)
              /\ parts.left.children \o parts.right.children = left.children \o right.children
              /\ WithinLimits(parts.left) /\ WithinLimits(parts.right)
  <1> DEFINE c == left.children \o right.children
             g == Len(left.children)
             t == Len(right.children)
             n == (g + t) \div 2
             parts == LendToRight(left, right)
  <1>1. /\ left.children \in Seq(Headers) /\ ~ IsData(left) /\ g \in Nat
        /\ left.size = MetaPrefixSize + g * HeaderSize
    BY MetaParts
  <1>2. /\ right.children \in Seq(Headers) /\ t \in Nat
        /\ right.size = MetaPrefixSize + t * HeaderSize
    BY MetaParts
  <1>3. c \in Seq(Headers) /\ Len(c) = g + t
    BY <1>1, <1>2
  <1>4. /\ n \in 0..(g + t) /\ n <= g
        /\ MinThreshold <= MetaPrefixSize + n * HeaderSize
        /\ MetaPrefixSize + n * HeaderSize <= MaxThreshold
        /\ MinThreshold <= MetaPrefixSize + ((g + t) - n) * HeaderSize
        /\ MetaPrefixSize + ((g + t) - n) * HeaderSize <= MaxThreshold
    <2>1. MetaCanLend(left, MinThreshold - (MetaPrefixSize + t * HeaderSize))
      BY <1>1, <1>2 DEF CanLendToRight
    <2>2. /\ ~ (left.size > MaxThreshold) /\ ~ (left.size < MinThreshold)
          /\ MetaPrefixSize + t * HeaderSize < MinThreshold
      BY <1>2 DEF WithinLimits, IsFull, IsUnderflow
    <2> HIDE DEF g, t
    <2> QED  BY <1>1, <1>2, <2>1, <2>2, HalvesInLimits
  <1>5. parts = MetaShare(c, n)
    BY <1>1, <1>4, MetaLendIs DEF LendToRight
  <1> HIDE DEF c, n, parts, g, t
  <1>6. SharedChildren(parts, c, n)
    BY <1>3, <1>4, <1>5, MetaShareIsSound
  <1>7. WithinLimits(parts.left) /\ WithinLimits(parts.right)
    BY <1>3, <1>4, <1>6, SharedInLimits
  <1> QED  BY <1>6, <1>7 DEF SharedChildren, parts, c

\* A metadata slab that is too small borrows from its right neighbour, if that
\* can lend: both are within the limits then, with correct counts
\* (ArrayMetaDataSlab.CanLendToLeft, BorrowFromRight).
THEOREM MetaBorrowInLimits ==
    ASSUME NEW left, NEW right, SoundMeta(left), SoundMeta(right),
           IsUnderflow(left), WithinLimits(right),
           CanLendToLeft(right, MinThreshold - left.size)
    PROVE  LET parts == BorrowFromRight(left, right)
           IN /\ SoundMeta(parts.left) /\ SoundMeta(parts.right)
              /\ parts.left.children \o parts.right.children = left.children \o right.children
              /\ WithinLimits(parts.left) /\ WithinLimits(parts.right)
  <1> DEFINE c == left.children \o right.children
             t == Len(left.children)
             g == Len(right.children)
             n == (t + g) \div 2
             parts == BorrowFromRight(left, right)
  <1>1. /\ left.children \in Seq(Headers) /\ ~ IsData(left) /\ t \in Nat
        /\ left.size = MetaPrefixSize + t * HeaderSize
    BY MetaParts
  <1>2. /\ right.children \in Seq(Headers) /\ ~ IsData(right) /\ g \in Nat
        /\ right.size = MetaPrefixSize + g * HeaderSize
    BY MetaParts
  <1>3. c \in Seq(Headers) /\ Len(c) = t + g
    BY <1>1, <1>2
  <1>4. /\ n \in 0..(t + g) /\ n >= t
        /\ MinThreshold <= MetaPrefixSize + n * HeaderSize
        /\ MetaPrefixSize + n * HeaderSize <= MaxThreshold
        /\ MinThreshold <= MetaPrefixSize + ((t + g) - n) * HeaderSize
        /\ MetaPrefixSize + ((t + g) - n) * HeaderSize <= MaxThreshold
    <2>1. MetaCanLend(right, MinThreshold - (MetaPrefixSize + t * HeaderSize))
      BY <1>1, <1>2 DEF CanLendToLeft
    <2>2. /\ ~ (right.size > MaxThreshold) /\ ~ (right.size < MinThreshold)
          /\ MetaPrefixSize + t * HeaderSize < MinThreshold
      BY <1>1 DEF WithinLimits, IsFull, IsUnderflow
    <2> HIDE DEF g, t
    <2> DEFINE m == (g + t) \div 2
               k == (g + t) - m
    <2>3. /\ m \in 0..(g + t) /\ t <= m
          /\ MinThreshold <= MetaPrefixSize + m * HeaderSize
          /\ MetaPrefixSize + m * HeaderSize <= MaxThreshold
          /\ MinThreshold <= MetaPrefixSize + k * HeaderSize
          /\ MetaPrefixSize + k * HeaderSize <= MaxThreshold
      BY <1>1, <1>2, <2>1, <2>2, HalvesInLimits
    <2>4. g + t = t + g
      BY <1>1, <1>2
    <2>5. n = m /\ k = (t + g) - n
      BY <2>4
    <2>6. t \in Int /\ m \in Int /\ (t <= m => m >= t)
      BY <1>1, <2>3
    <2> HIDE DEF m, n, k
    <2> QED  BY <2>3, <2>4, <2>5, <2>6
  <1>5. parts = MetaShare(c, n)
    BY <1>1, <1>4, MetaBorrowIs DEF BorrowFromRight
  <1> HIDE DEF c, n, parts, g, t
  <1>6. SharedChildren(parts, c, n)
    BY <1>3, <1>4, <1>5, MetaShareIsSound
  <1>7. WithinLimits(parts.left) /\ WithinLimits(parts.right)
    BY <1>3, <1>4, <1>6, SharedInLimits
  <1> QED  BY <1>6, <1>7 DEF SharedChildren, parts, c

-----------------------------------------------------------------------------
(* Finding an element, encoding.                                           *)

\* In a metadata slab without empty children every index leads to the child
\* that holds the element, and to its place there, by scan and by bisection
\* (ArrayMetaDataSlab.childSlabIndexInfo).
THEOREM ChildIndexIsRight ==
    ASSUME NEW slab, slab.children \in Seq(Headers), verifyMetaDataSlab(slab),
           \A i \in DOMAIN slab.children : slab.children[i].count > 0,
           NEW index \in Nat, index < slab.count
    PROVE  LET k == ChildIndex(slab, index)
               adjusted == AdjustedIndex(slab, k, index)
           IN /\ k \in DOMAIN slab.children
              /\ adjusted \in 0..(slab.children[k].count - 1)
              /\ index = Sums(Counts(slab.children))[k-1] + adjusted
  <1> DEFINE c == slab.children
             x == Counts(c)
             f == Sums(x)
             N == Len(c)
             u == slab.countSum
             S == {j \in DOMAIN u : index < u[j]}
             K == Min(S)
  <1>1. c \in Seq(Headers) /\ N \in Nat /\ DOMAIN c = 1..N
    OBVIOUS
  <1>2. /\ x \in Seq(Nat) /\ Len(x) = N /\ \A i \in 1..N : x[i] = c[i].count /\ x[i] \in Nat
        /\ slab.count = Total(x)
    <2>1. /\ x \in Seq(Nat) /\ Len(x) = N /\ \A i \in 1..N : x[i] = c[i].count
          /\ ChildCount(c) = Total(x)
      BY CountsAre
    <2>2. slab.count = ChildCount(c)
      BY DEF verifyMetaDataSlab
    <2> HIDE DEF x
    <2> QED  BY <2>1, <2>2
  <1>3. u \in Seq(Nat) /\ Len(u) = N /\ \A i \in 1..N : u[i] = f[i]
    <2>1. u = CountSumOf(c)
      BY CountSumsAre DEF verifyMetaDataSlab
    <2> QED  BY <2>1, CountSumOfIs
  <1> HIDE DEF u, x
  <1>4. /\ f \in [0..N -> Nat] /\ f[0] = 0 /\ f[N] = Total(x)
        /\ \A i \in 1..N : f[i] = f[i-1] + x[i]
    BY <1>2, SumsDef DEF Total
  <1>5. \A i, j \in 0..N : i <= j => f[i] <= f[j]
    BY <1>2, SumsGrow
  <1> HIDE DEF f
  <1>6. ASSUME NEW i \in 1..N, NEW j \in 1..N, i < j PROVE u[i] < u[j]
    <2>1. i \in 0..N /\ j - 1 \in 0..N /\ j \in 0..N /\ i <= j - 1
      BY <1>1, <1>6
    <2>2. f[i] <= f[j-1] /\ f[i] \in Nat /\ f[j-1] \in Nat /\ f[j] = f[j-1] + x[j]
      BY <1>4, <1>5, <2>1
    <2>3. x[j] > 0 /\ x[j] \in Nat
      BY <1>1, <1>2
    <2>4. f[i] < f[j]
      BY <2>2, <2>3
    <2> QED  BY <1>3, <2>4
  <1>7. N # 0
    BY <1>2, <1>4
  <1>8. DOMAIN u = 1..N /\ index < u[N]
    <2>1. N \in 1..N
      BY <1>1, <1>7
    <2> QED  BY <1>2, <1>3, <1>4, <2>1
  <1>9. K \in S /\ \A j \in S : K <= j
    <2>1. N \in S /\ S \in SUBSET Nat
      BY <1>1, <1>7, <1>8
    <2> HIDE DEF S
    <2> QED  BY <2>1, SmallestIs
  <1>10. ChildIndex(slab, index) = K
    <2>1. ChildByScan(u, index) = K
      BY DEF ChildByScan
    <2>2. ChildByBisection(u, index) = ChildByScan(u, index)
      <3>1. u # <<>>
        BY <1>3, <1>7
      <3>2. Last(u) = u[N]
        BY <1>3 DEF Last
      <3> QED  BY <1>3, <1>6, <1>8, <3>1, <3>2, BisectionIsScan
    <2> HIDE DEF K
    <2> QED  BY <2>1, <2>2 DEF ChildIndex, u
  <1>11. K \in 1..N /\ index < u[K]
    BY <1>8, <1>9
  <1>12. \A j \in 1..N : index < u[j] => K <= j
    <2> SUFFICES ASSUME NEW j \in 1..N, index < u[j] PROVE K <= j
      OBVIOUS
    <2>1. j \in S
      BY <1>8
    <2> HIDE DEF S, K
    <2> QED  BY <1>9, <2>1
  <1> HIDE DEF K, S
  <1>13. f[K-1] <= index
    <2>1. CASE K = 1
      BY <1>4, <2>1
    <2>2. CASE K # 1
      <3>1. K - 1 \in 1..N /\ K - 1 \in 0..N /\ ~ (K <= K - 1)
        BY <1>1, <1>11, <2>2
      <3>2. ~ (index < u[K-1])
        BY <1>12, <3>1
      <3>3. u[K-1] = f[K-1] /\ f[K-1] \in Nat
        BY <1>3, <1>4, <3>1
      <3> QED  BY <3>2, <3>3
    <2> QED  BY <2>1, <2>2
  <1> DEFINE y == x[K]
             z == f[K-1]
             adjusted == AdjustedIndex(slab, K, index)
  <1>14. y \in Nat /\ z \in Nat /\ u[K] = z + y /\ index < z + y /\ z <= index
    <2>1. K - 1 \in 0..N
      BY <1>1, <1>11
    <2> QED  BY <1>2, <1>3, <1>4, <1>11, <1>13, <2>1
  <1>15. adjusted = index + (y - u[K])
    BY <1>2, <1>11 DEF AdjustedIndex, u
  <1> HIDE DEF y, z, adjusted
  <1>16. adjusted \in 0..(y - 1) /\ index = z + adjusted
    BY <1>14, <1>15
  <1>17. y = c[K].count
    BY <1>2, <1>11 DEF y
  <1> QED  BY <1>1, <1>10, <1>11, <1>16, <1>17 DEF adjusted, z, f, x

\* A data slab, the root or not, comes back from its bytes as it was: the count
\* and the size that the bytes leave out are the ones it had
\* (ArrayDataSlab.Encode, newArrayDataSlabFromDataV1).
THEOREM DataSlabDecodes ==
    ASSUME NEW slab \in [kind : {"data"}, count : Nat, size : Nat, next : ID \cup {Undefined},
                         elements : Seq(Nat), extra : BOOLEAN],
           verifyDataSlab(slab)
    PROVE  DecodeSlab(EncodeSlab(slab)) = slab
  <1> DEFINE data == EncodeDataSlab(slab)
  <1>1. EncodeSlab(slab) = data
    BY DEF EncodeSlab, IsData
  <1>2. /\ data.kind = "data" /\ data.extra = slab.extra /\ data.next = slab.next
        /\ data.elements = slab.elements
    BY DEF EncodeDataSlab
  <1> HIDE DEF data
  <1>3. DecodeSlab(data) = newArrayDataSlabFromData(data)
    BY <1>2 DEF DecodeSlab, IsData
  <1>4. PrefixSize(data) = PrefixSize(slab)
    BY <1>2 DEF PrefixSize
  <1>5. PrefixSize(data) + Total(data.elements) = slab.size /\ Len(data.elements) = slab.count
    BY <1>2, <1>4 DEF verifyDataSlab
  <1>6. newArrayDataSlabFromData(data)
          = [kind |-> "data", count |-> slab.count, size |-> slab.size, next |-> slab.next,
             elements |-> slab.elements, extra |-> slab.extra]
    BY <1>2, <1>5 DEF newArrayDataSlabFromData, DataSlab
  <1>7. slab = [kind |-> "data", count |-> slab.count, size |-> slab.size, next |-> slab.next,
                elements |-> slab.elements, extra |-> slab.extra]
    OBVIOUS
  <1> QED  BY <1>1, <1>3, <1>6, <1>7

\* A header with a size that fits into two bytes comes back from them.
LEMMA HeaderIsKept ==
    ASSUME NEW e \in Headers, e.size < 65536
    PROVE  EncodedHeader(e) = e
  <1> DEFINE z == e.size
             b == 65536
  <1>1. z \in Nat /\ z < b /\ b \in Nat
    BY DEF Headers
  <1>2. EncodedHeader(e) = [e EXCEPT !.size = z % b]
    BY DEF EncodedHeader
  <1> HIDE DEF b, z
  <1>3. z % b = z
    BY <1>1
  <1>4. [e EXCEPT !.size = z] = e
    BY DEF Headers, z
  <1> QED  BY <1>2, <1>3, <1>4

\* A metadata slab, the root or not, comes back from its bytes as it was if the
\* sizes of its children fit into the two bytes a header has for them
\* (ArrayMetaDataSlab.Encode, newArrayMetaDataSlabFromDataV1).
THEOREM MetaSlabDecodes ==
    ASSUME NEW slab \in [kind : {"meta"}, count : Nat, size : Nat, children : Seq(Headers),
                         countSum : Seq(Nat), extra : BOOLEAN],
           verifyMetaDataSlab(slab),
           \A i \in DOMAIN slab.children : slab.children[i].size < 65536
    PROVE  DecodeSlab(EncodeSlab(slab)) = slab
  <1> DEFINE data == EncodeMetaSlab(slab)
             c == slab.children
  <1>0. c \in Seq(Headers) /\ Len(c) \in Nat /\ DOMAIN c = 1..Len(c)
    OBVIOUS
  <1>1. EncodeSlab(slab) = data
    BY DEF EncodeSlab, IsData
  <1>2. \A i \in DOMAIN c : EncodedHeader(c[i]) = c[i]
    <2> SUFFICES ASSUME NEW i \in DOMAIN c PROVE EncodedHeader(c[i]) = c[i]
      OBVIOUS
    <2> DEFINE e == c[i]
    <2>1. e \in Headers /\ e.size < 65536
      BY <1>0
    <2> HIDE DEF e
    <2>2. EncodedHeader(e) = e
      BY <2>1, HeaderIsKept
    <2> QED  BY <2>2 DEF e
  <1>3. data.kind = "meta" /\ data.extra = slab.extra /\ data.children = c
    <2>1. [i \in DOMAIN c |-> EncodedHeader(c[i])] = [i \in DOMAIN c |-> c[i]]
      BY <1>2
    <2>2. [i \in DOMAIN c |-> c[i]] = c
      BY <1>0
    <2> QED  BY <2>1, <2>2 DEF EncodeMetaSlab
  <1> HIDE DEF data
  <1>4. DecodeSlab(data) = newArrayMetaDataSlabFromData(data)
    BY <1>3 DEF DecodeSlab, IsData
  <1>5. /\ CountSums(c) = slab.countSum /\ ChildCount(c) = slab.count
        /\ MetaPrefixSize + HeaderSize * Len(c) = slab.size
    <2> DEFINE n == Len(c)
    <2>1. HeaderSize * n = n * HeaderSize
      <3>1. n \in Nat
        BY <1>0
      <3> HIDE DEF n
      <3> QED  BY <3>1, HeaderSizes
    <2> QED  BY <2>1 DEF verifyMetaDataSlab
  <1>6. newArrayMetaDataSlabFromData(data)
          = [kind |-> "meta", count |-> slab.count, size |-> slab.size, children |-> c,
             countSum |-> slab.countSum, extra |-> slab.extra]
    BY <1>3, <1>5 DEF newArrayMetaDataSlabFromData, MetaSlab
  <1>7. slab = [kind |-> "meta", count |-> slab.count, size |-> slab.size, children |-> c,
                countSum |-> slab.countSum, extra |-> slab.extra]
    OBVIOUS
  <1> QED  BY <1>1, <1>4, <1>6, <1>7
-----------------------------------------------------------------------------
(* What a metadata slab notes about its children.  Its cumulative counts   *)
(* are patched: they are right if each is the one before and the count of  *)
(* its child.                                                              *)

StepsUp(u, children) ==
    /\ u \in Seq(Int) /\ Len(u) = Len(children)
    /\ \A i \in 1..Len(children) :
          u[i] = children[i].count + IF i = 1 THEN 0 ELSE u[i-1]

\* The sums of counts go up step by step, to the count of all children.
LEMMA CountSumSteps ==
    ASSUME NEW children \in Seq(Headers), Len(children) > 0
    PROVE  /\ StepsUp(CountSumOf(children), children)
           /\ ChildCount(children) = CountSumOf(children)[Len(children)]
  <1> DEFINE c == Counts(children)
             u == CountSumOf(children)
             N == Len(children)
             f == Sums(c)
  <1>1. /\ c \in Seq(Nat) /\ Len(c) = N /\ N \in Nat /\ N > 0
        /\ \A i \in 1..N : c[i] = children[i].count
    BY CountsAre
  <1>2. u \in Seq(Nat) /\ Len(u) = N /\ \A i \in 1..N : u[i] = f[i]
    BY CountSumOfIs
  <1>3. ChildCount(children) = f[N]
    BY <1>1, CountsAre DEF Total
  <1> HIDE DEF c, u, N
  <1>4. f \in [0..N -> Nat] /\ f[0] = 0 /\ \A i \in 1..N : f[i] = f[i-1] + c[i]
    BY <1>1, SumsDef
  <1> HIDE DEF f
  <1>5. ASSUME NEW i \in 1..N
        PROVE  u[i] = children[i].count + IF i = 1 THEN 0 ELSE u[i-1]
    <2>1. u[i] = f[i-1] + children[i].count /\ children[i].count \in Nat /\ f[i-1] \in Nat
      <3>1. c[i] \in Nat /\ i - 1 \in 0..N
        BY <1>1
      <3> QED  BY <1>1, <1>2, <1>4, <3>1
    <2>2. CASE i = 1
      <3>1. f[i-1] = 0
        BY <1>4, <2>2
      <3> QED  BY <2>1, <2>2, <3>1
    <2>3. CASE i # 1
      <3>1. i - 1 \in 1..N
        BY <1>1, <2>3
      <3>2. u[i-1] = f[i-1]
        BY <1>2, <3>1
      <3> QED  BY <2>1, <2>3, <3>2
    <2> QED  BY <2>2, <2>3
  <1>6. u \in Seq(Int)
    BY <1>2
  <1>7. StepsUp(u, children)
    BY <1>2, <1>5, <1>6 DEF StepsUp, N
  <1>8. u[N] = f[N]
    BY <1>1, <1>2
  <1> QED  BY <1>3, <1>7, <1>8 DEF u, N

\* What goes up step by step is the sums of counts.
LEMMA StepsAreSums ==
    ASSUME NEW children \in Seq(Headers), Len(children) > 0, NEW u, StepsUp(u, children)
    PROVE  u = CountSumOf(children)
  <1> DEFINE v == CountSumOf(children)
             N == Len(children)
             Bad == {i \in 1..N : u[i] # v[i]}
  <1>1. /\ StepsUp(v, children) /\ N \in Nat /\ N > 0
        /\ \A i \in 1..N : children[i].count \in Nat
    <2>1. N \in Nat /\ \A i \in 1..N : children[i] \in Headers
      OBVIOUS
    <2>2. \A i \in 1..N : children[i].count \in Nat
      BY <2>1 DEF Headers
    <2> QED  BY <2>1, <2>2, CountSumSteps
  <1> HIDE DEF v
  <1>2. Bad = {}
    <2> SUFFICES ASSUME Bad # {} PROVE FALSE
      OBVIOUS
    <2>0. Bad \in SUBSET Nat
      BY <1>1
    <2> HIDE DEF Bad
    <2>1. PICK m \in Bad : \A n \in Bad : m <= n
      BY <2>0, SmallestNumber
    <2> USE DEF Bad
    <2>2. m \in 1..N /\ u[m] # v[m]
      BY <2>1
    <2>3. CASE m = 1
      BY <2>2, <2>3, <1>1 DEF StepsUp
    <2>4. CASE m # 1
      <3>1. m - 1 \in 1..N /\ ~ (m <= m - 1)
        BY <1>1, <2>2, <2>4
      <3>2. m - 1 \notin Bad
        BY <2>1, <3>1
      <3>3. u[m-1] = v[m-1]
        BY <3>1, <3>2
      <3> QED  BY <1>1, <2>2, <2>4, <3>3 DEF StepsUp
    <2> QED  BY <2>3, <2>4
  <1>3. u \in Seq(Int) /\ v \in Seq(Int) /\ Len(u) = N /\ Len(v) = N
    BY <1>1 DEF StepsUp
  <1>4. \A i \in 1..Len(u) : u[i] = v[i]
    BY <1>2, <1>3
  <1>5. u = v
    BY <1>3, <1>4, SeqEqual
  <1> QED  BY <1>5 DEF v

\* A slab whose cumulative counts go up step by step is sound.
LEMMA PatchedIsSound ==
    ASSUME NEW slab, NEW children \in Seq(Headers), Len(children) > 0,
           NEW u, StepsUp(u, children), NEW count, count = u[Len(children)],
           NEW size, size = MetaPrefixSize + Len(children) * HeaderSize,
           slab \in MetaRecords(children, u, count, size)
    PROVE  SoundMeta(slab) /\ slab.children = children /\ slab.count = count
  <1>1. u = CountSumOf(children)
    BY StepsAreSums
  <1>2. count = ChildCount(children)
    BY <1>1, CountSumSteps
  <1>3. slab = [kind |-> "meta", count |-> ChildCount(children),
                size |-> MetaPrefixSize + Len(children) * HeaderSize,
                children |-> children, countSum |-> CountSumOf(children), extra |-> FALSE]
    <2>1. slab = MetaRecord(children, u, count, size)
      BY MetaFields
    <2> QED  BY <1>1, <1>2, <2>1 DEF MetaRecord
  <1>4. slab.count = count
    BY <1>2, <1>3
  <1> QED  BY <1>3, <1>4, MetaIsSound

\* What a sound slab with children is made of.
LEMMA MetaSteps ==
    ASSUME NEW meta, SoundMeta(meta), Len(meta.children) > 0
    PROVE  /\ StepsUp(meta.countSum, meta.children)
           /\ meta.count = meta.countSum[Len(meta.children)]
           /\ \A i \in 1..Len(meta.children) :
                 meta.children[i] \in Headers /\ meta.children[i].count \in Nat
  <1>1. /\ meta.children \in Seq(Headers) /\ meta.countSum = CountSumOf(meta.children)
        /\ meta.count = ChildCount(meta.children)
    BY MetaParts
  <1>2. \A i \in 1..Len(meta.children) :
           meta.children[i] \in Headers /\ meta.children[i].count \in Nat
    <2>1. \A i \in 1..Len(meta.children) : meta.children[i] \in Headers
      BY <1>1
    <2> QED  BY <2>1 DEF Headers
  <1> QED  BY <1>1, <1>2, CountSumSteps

-----------------------------------------------------------------------------
(* Sequences with one element more, less or replaced.                      *)

\* u is s with e inserted, without an element, with e for an element, and with
\* all numbers from k on adjusted.
Inserted(u, s, k, e) ==
    /\ Len(u) = Len(s) + 1
    /\ \A i \in 1..(Len(s) + 1) :
          u[i] = IF i < k THEN s[i] ELSE IF i = k THEN e ELSE s[i-1]

Removed(u, s, k) ==
    /\ Len(u) = Len(s) - 1
    /\ \A i \in 1..(Len(s) - 1) : u[i] = IF i < k THEN s[i] ELSE s[i+1]

Replaced(u, s, k, e) ==
    /\ Len(u) = Len(s)
    /\ \A i \in 1..Len(s) : u[i] = IF i = k THEN e ELSE s[i]

Adjusted(u, s, k, d) ==
    /\ Len(u) = Len(s)
    /\ \A i \in 1..Len(s) : u[i] = IF i < k THEN s[i] ELSE s[i] + d

\* Every element of a sequence after an insertion.
LEMMA InsertedAt ==
    ASSUME NEW T, NEW s \in Seq(T), NEW k \in 1..(Len(s) + 1), NEW e \in T
    PROVE  InsertAt(s, k, e) \in Seq(T) /\ Inserted(InsertAt(s, k, e), s, k, e)
  <1> DEFINE l == SubSeq(s, 1, k - 1)
             m == l \o <<e>>
             r == SubSeq(s, k, Len(s))
             u == m \o r
  <1>1. Len(s) \in Nat /\ k \in Nat /\ k - 1 \in 0..Len(s) /\ (k - 1) + 1 = k
    OBVIOUS
  <1>2. l \in Seq(T) /\ r \in Seq(T) /\ IsCut(l, r, s, k - 1)
    <2> DEFINE j == k - 1
    <2>1. j \in 0..Len(s) /\ j + 1 = k
      BY <1>1
    <2> HIDE DEF j
    <2>2. /\ SubSeq(s, 1, j) \in Seq(T) /\ SubSeq(s, j + 1, Len(s)) \in Seq(T)
          /\ IsCut(SubSeq(s, 1, j), SubSeq(s, j + 1, Len(s)), s, j)
      BY <2>1, Cut
    <2> QED  BY <2>1, <2>2 DEF j
  <1>3. InsertAt(s, k, e) = u
    BY DEF InsertAt
  <1>4. <<e>> \in Seq(T) /\ Len(<<e>>) = 1 /\ <<e>>[1] = e
    OBVIOUS
  <1> DEFINE o == <<e>>
  <1>5. o \in Seq(T) /\ Len(o) = 1 /\ o[1] = e
    BY <1>4
  <1> HIDE DEF l, r, o
  <1>6. /\ m \in Seq(T) /\ Len(m) = Len(l) + 1
        /\ \A i \in 1..(Len(l) + 1) : m[i] = IF i <= Len(l) THEN l[i] ELSE o[i - Len(l)]
    <2>1. m = l \o o
      BY DEF o
    <2> QED  BY <1>2, <1>5, <2>1, ConcatProperties
  <1> HIDE DEF m
  <1>7. /\ u \in Seq(T) /\ Len(u) = Len(m) + Len(r)
        /\ \A i \in 1..(Len(m) + Len(r)) : u[i] = IF i <= Len(m) THEN m[i] ELSE r[i - Len(m)]
    <2>1. m \in Seq(T) /\ r \in Seq(T)
      BY <1>2, <1>6
    <2> QED  BY <2>1, ConcatProperties
  <1> HIDE DEF u
  <1>8. Len(l) = k - 1 /\ Len(m) = k /\ Len(r) = Len(s) - (k - 1)
    BY <1>1, <1>2, <1>6 DEF IsCut
  <1>9. Len(u) = Len(s) + 1 /\ Len(m) + Len(r) = Len(s) + 1
    BY <1>1, <1>7, <1>8
  <1>10. ASSUME NEW i \in 1..(Len(s) + 1)
         PROVE  u[i] = IF i < k THEN s[i] ELSE IF i = k THEN e ELSE s[i-1]
    <2>1. CASE i < k
      <3>1. i \in 1..(Len(m) + Len(r)) /\ i <= Len(m) /\ i \in 1..(Len(l) + 1) /\ i <= Len(l)
            /\ i \in 1..Len(l)
        BY <1>1, <1>8, <1>9, <2>1
      <3>2. u[i] = l[i]
        BY <1>6, <1>7, <3>1
      <3> QED  BY <1>2, <2>1, <3>1, <3>2 DEF IsCut
    <2>2. CASE i = k
      <3>1. i \in 1..(Len(m) + Len(r)) /\ i <= Len(m) /\ i \in 1..(Len(l) + 1) /\ ~ (i <= Len(l))
            /\ i - Len(l) = 1 /\ ~ (i < k)
        BY <1>1, <1>8, <1>9, <2>2
      <3>2. u[i] = e
        BY <1>5, <1>6, <1>7, <3>1
      <3> QED  BY <2>2, <3>1, <3>2
    <2>3. CASE i > k
      <3>1. i \in 1..(Len(m) + Len(r)) /\ ~ (i <= Len(m)) /\ i - Len(m) \in 1..Len(r)
            /\ (k - 1) + (i - Len(m)) = i - 1 /\ ~ (i < k) /\ i # k
        BY <1>1, <1>8, <1>9, <2>3
      <3>2. u[i] = r[i - Len(m)]
        BY <1>7, <3>1
      <3>3. r[i - Len(m)] = s[i - 1]
        BY <1>2, <3>1 DEF IsCut
      <3> QED  BY <3>1, <3>2, <3>3
    <2> QED  BY <1>1, <2>1, <2>2, <2>3
  <1> QED  BY <1>3, <1>7, <1>9, <1>10 DEF Inserted

\* Every element of a sequence after a removal.
LEMMA RemovedAt ==
    ASSUME NEW T, NEW s \in Seq(T), NEW k \in 1..Len(s)
    PROVE  RemoveAt(s, k) \in Seq(T) /\ Removed(RemoveAt(s, k), s, k)
  <1> DEFINE l == SubSeq(s, 1, k - 1)
             r == SubSeq(s, k + 1, Len(s))
             u == l \o r
  <1>1. Len(s) \in Nat /\ k \in Nat /\ k \in 0..Len(s) /\ k - 1 \in 0..Len(s)
    OBVIOUS
  <1>2. r \in Seq(T) /\ Len(r) = Len(s) - k /\ \A i \in 1..Len(r) : r[i] = s[k + i]
    <2>1. r \in Seq(T) /\ IsCut(SubSeq(s, 1, k), r, s, k)
      BY <1>1, Cut
    <2> QED  BY <2>1 DEF IsCut
  <1>3. l \in Seq(T) /\ Len(l) = k - 1 /\ \A i \in 1..Len(l) : l[i] = s[i]
    <2> DEFINE j == k - 1
    <2>1. j \in 0..Len(s)
      BY <1>1
    <2> HIDE DEF j
    <2>2. SubSeq(s, 1, j) \in Seq(T) /\ IsCut(SubSeq(s, 1, j), SubSeq(s, j + 1, Len(s)), s, j)
      BY <2>1, Cut
    <2> QED  BY <2>2 DEF j, IsCut
  <1>4. RemoveAt(s, k) = u
    BY DEF RemoveAt
  <1> HIDE DEF l, r
  <1>5. /\ u \in Seq(T) /\ Len(u) = Len(l) + Len(r)
        /\ \A i \in 1..(Len(l) + Len(r)) : u[i] = IF i <= Len(l) THEN l[i] ELSE r[i - Len(l)]
    BY <1>2, <1>3, ConcatProperties
  <1> HIDE DEF u
  <1>6. Len(l) + Len(r) = Len(s) - 1
    BY <1>1, <1>2, <1>3
  <1>7. ASSUME NEW i \in 1..(Len(s) - 1)
        PROVE  u[i] = IF i < k THEN s[i] ELSE s[i+1]
    <2>1. CASE i < k
      <3>1. i \in 1..(Len(l) + Len(r)) /\ i <= Len(l) /\ i \in 1..Len(l)
        BY <1>1, <1>3, <1>6, <2>1
      <3> QED  BY <1>3, <1>5, <2>1, <3>1
    <2>2. CASE ~ (i < k)
      <3>1. i \in 1..(Len(l) + Len(r)) /\ ~ (i <= Len(l)) /\ i - Len(l) \in 1..Len(r)
            /\ k + (i - Len(l)) = i + 1
        BY <1>1, <1>2, <1>3, <1>6, <2>2
      <3> QED  BY <1>2, <1>5, <2>2, <3>1
    <2> QED  BY <2>1, <2>2
  <1> QED  BY <1>4, <1>5, <1>6, <1>7 DEF Removed

\* Every element of a sequence after a replacement.
LEMMA ReplacedAt ==
    ASSUME NEW T, NEW s \in Seq(T), NEW k \in 1..Len(s), NEW e \in T
    PROVE  ReplaceAt(s, k, e) \in Seq(T) /\ Replaced(ReplaceAt(s, k, e), s, k, e)
  BY ExceptSeq DEF ReplaceAt, Replaced

\* Every cumulative count after those from k on are adjusted.
LEMMA AddedFrom ==
    ASSUME NEW s \in Seq(Int), NEW k \in 1..Len(s), NEW d \in Int
    PROVE  AddFrom(s, k, d) \in Seq(Int) /\ Adjusted(AddFrom(s, k, d), s, k, d)
  <1> DEFINE l == SubSeq(s, 1, k - 1)
             N == (Len(s) - k) + 1
             r == [i \in 1..N |-> s[(k + i) - 1] + d]
             u == l \o r
  <1>1. Len(s) \in Nat /\ k \in Nat /\ k - 1 \in 0..Len(s) /\ N \in Nat
    OBVIOUS
  <1>2. l \in Seq(Int) /\ Len(l) = k - 1 /\ \A i \in 1..Len(l) : l[i] = s[i]
    <2> DEFINE j == k - 1
    <2>1. j \in 0..Len(s)
      BY <1>1
    <2> HIDE DEF j
    <2>2. SubSeq(s, 1, j) \in Seq(Int) /\ IsCut(SubSeq(s, 1, j), SubSeq(s, j + 1, Len(s)), s, j)
      BY <2>1, Cut
    <2> QED  BY <2>2 DEF j, IsCut
  <1>3. AddFrom(s, k, d) = u
    <2>1. \A i \in 1..N : k + i - 1 = (k + i) - 1
      BY <1>1
    <2>2. Len(s) - k + 1 = N
      BY <1>1
    <2> QED  BY <2>1, <2>2 DEF AddFrom
  <1>4. \A i \in 1..N : (k + i) - 1 \in 1..Len(s) /\ s[(k + i) - 1] \in Int
    BY <1>1
  <1>5. r \in [1..N -> Int]
    BY <1>4
  <1>6. r \in Seq(Int) /\ Len(r) = N
    <2> HIDE DEF r, N
    <2> QED  BY <1>1, <1>5
  <1>7. \A i \in 1..N : r[i] = s[(k + i) - 1] + d
    OBVIOUS
  <1>8. Len(l) + N = Len(s)
    BY <1>1, <1>2
  <1> HIDE DEF l, r
  <1>9. /\ u \in Seq(Int) /\ Len(u) = Len(l) + N
        /\ \A i \in 1..(Len(l) + N) : u[i] = IF i <= Len(l) THEN l[i] ELSE r[i - Len(l)]
    <2> HIDE DEF N
    <2> QED  BY <1>2, <1>6, ConcatProperties
  <1> HIDE DEF u
  <1>10. ASSUME NEW i \in 1..Len(s)
         PROVE  u[i] = IF i < k THEN s[i] ELSE s[i] + d
    <2>1. CASE i < k
      <3>1. i <= Len(l) /\ i \in 1..Len(l) /\ i \in 1..(Len(l) + N)
        BY <1>1, <1>2, <1>8, <2>1
      <3> QED  BY <1>2, <1>9, <2>1, <3>1
    <2>2. CASE ~ (i < k)
      <3>1. ~ (i <= Len(l)) /\ i - Len(l) \in 1..N /\ (k + (i - Len(l))) - 1 = i
            /\ i \in 1..(Len(l) + N)
        BY <1>1, <1>2, <1>8, <2>2
      <3> HIDE DEF N
      <3> QED  BY <1>7, <1>9, <2>2, <3>1
    <2> QED  BY <2>1, <2>2
  <1> QED  BY <1>3, <1>8, <1>9, <1>10 DEF Adjusted
-----------------------------------------------------------------------------
(* The four ways in which a metadata slab adjusts its copies.              *)

\* A child with more or fewer elements: count, cumulative counts and the copy of
\* its header agree again (ArrayMetaDataSlab.Insert, Remove, Set).
THEOREM ChildChangedIsSound ==
    ASSUME NEW meta, SoundMeta(meta), NEW k \in 1..Len(meta.children),
           NEW header \in Headers, NEW added \in Int,
           header.count = meta.children[k].count + added
    PROVE  LET new == ChildChanged(meta, k, header, added)
           IN SoundMeta(new) /\ new.children = ReplaceAt(meta.children, k, header)
  <1> DEFINE c == meta.children
             u == meta.countSum
             N == Len(c)
             d == ReplaceAt(c, k, header)
             v == AddFrom(u, k, added)
             count == meta.count + added
             new == ChildChanged(meta, k, header, added)
  <1>0. meta \in MetaSlabs
    BY MetaParts
  <1>1. /\ c \in Seq(Headers) /\ N \in Nat /\ meta.size = MetaPrefixSize + N * HeaderSize
    BY MetaParts
  <1>2. N > 0 /\ k \in 1..N /\ k \in Nat
    BY <1>1
  <1>3. /\ StepsUp(u, c) /\ meta.count = u[N]
        /\ \A i \in 1..N : c[i].count \in Nat
    BY <1>2, MetaSteps
  <1>4. new = [meta EXCEPT !.count = count, !.countSum = v, !.children = d]
    BY DEF ChildChanged
  <1>5. d \in Seq(Headers) /\ Len(d) = N /\ \A i \in 1..N : d[i] = IF i = k THEN header ELSE c[i]
    <2>1. d \in Seq(Headers) /\ Replaced(d, c, k, header)
      BY <1>1, ReplacedAt
    <2> QED  BY <2>1 DEF Replaced
  <1> HIDE DEF c, u, N, d
  <1>6. u \in Seq(Int) /\ Len(u) = N /\ N \in Nat /\ \A i \in 1..N : u[i] \in Int
    BY <1>1, <1>3 DEF StepsUp, N
  <1>7. v \in Seq(Int) /\ Len(v) = N /\ \A i \in 1..N : v[i] = IF i < k THEN u[i] ELSE u[i] + added
    <2>1. v \in Seq(Int) /\ Adjusted(v, u, k, added)
      BY <1>2, <1>6, AddedFrom
    <2> QED  BY <1>6, <2>1 DEF Adjusted
  <1> HIDE DEF v
  <1>8. \A i \in 1..N : u[i] = c[i].count + IF i = 1 THEN 0 ELSE u[i-1]
    BY <1>3 DEF StepsUp, N
  <1>9. header.count = c[k].count + added
    BY DEF c
  <1>10. ASSUME NEW i \in 1..N
         PROVE  v[i] = d[i].count + IF i = 1 THEN 0 ELSE v[i-1]
    <2> DEFINE x == u[i]
               y == c[i].count
               w == u[i-1]
    <2>1. i \in Nat /\ x \in Int /\ y \in Nat /\ x = y + IF i = 1 THEN 0 ELSE w
      BY <1>1, <1>3, <1>6, <1>8
    <2>2. i # 1 => i - 1 \in 1..N /\ w \in Int
      BY <1>1, <1>6
    <2>3. i # 1 => v[i-1] = IF i - 1 < k THEN w ELSE w + added
      BY <1>7, <2>2
    <2>4. v[i] = IF i < k THEN x ELSE x + added
      BY <1>7
    <2>5. d[i].count = IF i = k THEN y + added ELSE y
      BY <1>5, <1>9
    <2> HIDE DEF x, y, w
    <2> QED  BY <1>2, <2>1, <2>2, <2>3, <2>4, <2>5
  <1>11. StepsUp(v, d)
    BY <1>5, <1>7, <1>10 DEF StepsUp
  <1>12. count = v[Len(d)]
    BY <1>1, <1>2, <1>3, <1>5, <1>7
  <1>13. meta.size = MetaPrefixSize + Len(d) * HeaderSize
    BY <1>1, <1>5
  <1> HIDE DEF new, count
  <1>14. new \in MetaRecords(d, v, count, meta.size)
    BY <1>0, <1>4 DEF MetaSlabs, MetaRecords
  <1>15. SoundMeta(new) /\ new.children = d
    BY <1>2, <1>5, <1>11, <1>12, <1>13, <1>14, PatchedIsSound
  <1> QED  BY <1>15 DEF new, d, c

\* The list with x in place of the n entries from k on.
Spliced(new, old, k, n, x) ==
    /\ Len(new) = (Len(old) - n) + Len(x)
    /\ \A i \in 1..Len(new) :
          new[i] = IF i < k THEN old[i]
                   ELSE IF i < k + Len(x) THEN x[(i - k) + 1]
                   ELSE old[(i - Len(x)) + n]

\* A child is split: the parent has both parts in its place and counts as many
\* elements (ArrayMetaDataSlab.SplitChildSlab).
THEOREM ChildSplitIsSound ==
    ASSUME NEW meta, SoundMeta(meta), NEW k \in 1..Len(meta.children),
           NEW left \in Headers, NEW right \in Headers,
           left.count + right.count = meta.children[k].count
    PROVE  LET new == ChildSplit(meta, k, left, right)
           IN /\ SoundMeta(new) /\ new.count = meta.count
              /\ Spliced(new.children, meta.children, k, 1, <<left, right>>)
  <1> DEFINE c == meta.children
             u == meta.countSum
             N == Len(c)
             b == ReplaceAt(c, k, left)
             d == InsertAt(b, k + 1, right)
             z == u[k] - right.count
             v == InsertAt(u, k, z)
             size == meta.size + HeaderSize
             new == ChildSplit(meta, k, left, right)
  <1>0. meta \in MetaSlabs
    BY MetaParts
  <1>1. /\ c \in Seq(Headers) /\ N \in Nat /\ meta.size = MetaPrefixSize + N * HeaderSize
    BY MetaParts
  <1>2. N > 0 /\ k \in 1..N /\ k \in Nat
    BY <1>1
  <1>3. /\ StepsUp(u, c) /\ meta.count = u[N]
        /\ \A i \in 1..N : c[i].count \in Nat
    BY <1>2, MetaSteps
  <1>4. new = [meta EXCEPT !.children = d, !.countSum = v, !.size = size]
    BY DEF ChildSplit
  <1>5. b \in Seq(Headers) /\ Len(b) = N /\ \A i \in 1..N : b[i] = IF i = k THEN left ELSE c[i]
    <2>1. b \in Seq(Headers) /\ Replaced(b, c, k, left)
      BY <1>1, ReplacedAt
    <2> QED  BY <2>1 DEF Replaced
  <1> HIDE DEF c, u, N, b
  <1>6. /\ d \in Seq(Headers) /\ Len(d) = N + 1
        /\ \A i \in 1..(N + 1) :
              d[i] = IF i < k + 1 THEN b[i] ELSE IF i = k + 1 THEN right ELSE b[i-1]
    <2> DEFINE j == k + 1
    <2>1. j \in 1..(Len(b) + 1)
      BY <1>1, <1>2, <1>5
    <2> HIDE DEF j
    <2>2. InsertAt(b, j, right) \in Seq(Headers) /\ Inserted(InsertAt(b, j, right), b, j, right)
      BY <1>5, <2>1, InsertedAt
    <2>3. d = InsertAt(b, j, right)
      BY DEF j
    <2> HIDE DEF d
    <2> QED  BY <1>5, <2>2, <2>3 DEF j, Inserted
  <1>7. u \in Seq(Int) /\ Len(u) = N /\ N \in Nat /\ \A i \in 1..N : u[i] \in Int
    BY <1>1, <1>3 DEF StepsUp, N
  <1>8. left.count \in Nat /\ right.count \in Nat /\ z \in Int
    BY <1>2, <1>7 DEF Headers
  <1> HIDE DEF d, z
  <1>9. /\ v \in Seq(Int) /\ Len(v) = N + 1
        /\ \A i \in 1..(N + 1) : v[i] = IF i < k THEN u[i] ELSE IF i = k THEN z ELSE u[i-1]
    <2>1. k \in 1..(Len(u) + 1)
      BY <1>2, <1>7
    <2>2. v \in Seq(Int) /\ Inserted(v, u, k, z)
      BY <1>7, <1>8, <2>1, InsertedAt
    <2> HIDE DEF v
    <2> QED  BY <1>7, <2>2 DEF Inserted
  <1> HIDE DEF v
  <1>10. \A i \in 1..N : u[i] = c[i].count + IF i = 1 THEN 0 ELSE u[i-1]
    BY <1>3 DEF StepsUp, N
  <1>11. left.count + right.count = c[k].count
    BY DEF c
  <1>12. ASSUME NEW i \in 1..(N + 1)
         PROVE  v[i] = d[i].count + IF i = 1 THEN 0 ELSE v[i-1]
    <2>1. CASE i < k
      <3>1. i \in 1..N /\ i < k + 1 /\ i # k /\ (i # 1 => i - 1 \in 1..(N+1) /\ i - 1 < k)
        BY <1>1, <1>2, <2>1
      <3>2. v[i] = u[i] /\ d[i] = c[i] /\ (i # 1 => v[i-1] = u[i-1])
        BY <1>5, <1>6, <1>9, <2>1, <3>1
      <3> QED  BY <1>10, <3>1, <3>2
    <2>2. CASE i = k
      <3>1. i \in 1..N /\ i < k + 1 /\ ~ (i < k) /\ (i # 1 => i - 1 \in 1..(N+1) /\ i - 1 < k)
        BY <1>1, <1>2, <2>2
      <3>2. v[i] = z /\ d[i] = left /\ (i # 1 => v[i-1] = u[i-1])
        BY <1>5, <1>6, <1>9, <2>2, <3>1
      <3>3. u[k] = c[k].count + IF i = 1 THEN 0 ELSE u[i-1]
        BY <1>10, <2>2, <3>1
      <3>4. i # 1 => i - 1 \in 1..N /\ u[i-1] \in Int
        BY <1>7, <3>1, <2>2
      <3>5. z = u[k] - right.count /\ u[k] \in Int /\ c[k].count \in Nat
        BY <1>2, <1>3, <1>7 DEF z
      <3> DEFINE w == u[i-1]
                 x == u[k]
                 y == c[k].count
      <3> HIDE DEF w, x, y
      <3>6. z = left.count + IF i = 1 THEN 0 ELSE w
        <4>1. /\ x = y + (IF i = 1 THEN 0 ELSE w) /\ z = x - right.count
              /\ x \in Int /\ y \in Nat /\ (i # 1 => w \in Int)
              /\ left.count + right.count = y
          BY <1>11, <3>3, <3>4, <3>5 DEF w, x, y
        <4> QED  BY <1>8, <4>1
      <3> QED  BY <3>2, <3>6 DEF w
    <2>3. CASE i = k + 1
      <3>1. /\ i # 1 /\ i - 1 = k /\ ~ (i < k + 1) /\ ~ (i < k) /\ i # k
            /\ k \in 1..(N + 1) /\ ~ (k < k)
        BY <1>1, <1>2, <2>3
      <3>2. v[i] = u[k] /\ d[i] = right /\ v[i-1] = z
        BY <1>6, <1>9, <2>3, <3>1
      <3>3. z = u[k] - right.count /\ u[k] \in Int
        BY <1>2, <1>7 DEF z
      <3> DEFINE x == u[k]
      <3> HIDE DEF x
      <3>4. x = right.count + z
        <4>1. z = x - right.count /\ x \in Int
          BY <3>3 DEF x
        <4> QED  BY <1>8, <4>1
      <3> QED  BY <3>1, <3>2, <3>4 DEF x
    <2>4. CASE i > k + 1
      <3> DEFINE j == i - 1
      <3>1. /\ j \in 1..N /\ j # 1 /\ i # 1 /\ ~ (i < k + 1) /\ i # k + 1 /\ ~ (i < k) /\ i # k
            /\ j # k /\ j \in 1..(N + 1) /\ ~ (j < k)
        BY <1>1, <1>2, <2>4
      <3>2. v[i] = u[j] /\ v[j] = u[j-1] /\ d[i] = b[j] /\ b[j] = c[j]
        BY <1>5, <1>6, <1>9, <3>1
      <3>3. u[j] = c[j].count + u[j-1]
        BY <1>10, <3>1
      <3> QED  BY <3>1, <3>2, <3>3
    <2> QED  BY <1>1, <1>2, <2>1, <2>2, <2>3, <2>4
  <1>13. StepsUp(v, d)
    BY <1>6, <1>9, <1>12 DEF StepsUp
  <1>14. Len(d) > 0 /\ meta.count = v[Len(d)]
    <2>1. N + 1 \in 1..(N + 1) /\ ~ (N + 1 < k) /\ N + 1 # k /\ (N + 1) - 1 = N
      BY <1>1, <1>2
    <2> QED  BY <1>1, <1>3, <1>6, <1>9, <2>1
  <1>15. size = MetaPrefixSize + Len(d) * HeaderSize
    <2> DEFINE h == HeaderSize
               p == N * h
    <2>1. (N + 1) * h = N * h + h /\ p \in Nat
      BY <1>1, HeaderSizes
    <2>2. h \in Nat /\ MetaPrefixSize \in Nat
      BY MetaLimits
    <2>3. size = (MetaPrefixSize + p) + h
      BY <1>1
    <2>4. (N + 1) * h = p + h
      BY <2>1
    <2> HIDE DEF p, size, h
    <2>5. size = MetaPrefixSize + (N + 1) * h
      BY <2>1, <2>2, <2>3, <2>4
    <2> QED  BY <1>6, <2>5 DEF h
  <1>16. Spliced(d, c, k, 1, <<left, right>>)
    <2> DEFINE x == <<left, right>>
    <2>1. Len(x) = 2 /\ x[1] = left /\ x[2] = right
      OBVIOUS
    <2> HIDE DEF x
    <2>2. ASSUME NEW i \in 1..(N + 1)
          PROVE  d[i] = IF i < k THEN c[i] ELSE IF i < k + 2 THEN x[(i - k) + 1]
                        ELSE c[(i - 2) + 1]
      <3>1. CASE i < k
        <4>1. i \in 1..N /\ i < k + 1 /\ i # k
          BY <1>1, <1>2, <3>1
        <4> QED  BY <1>5, <1>6, <3>1, <4>1
      <3>2. CASE i = k
        <4>1. i \in 1..N /\ i < k + 1 /\ ~ (i < k) /\ i < k + 2 /\ (i - k) + 1 = 1
          BY <1>1, <1>2, <3>2
        <4> QED  BY <1>5, <1>6, <2>1, <3>2, <4>1
      <3>3. CASE i = k + 1
        <4>0. k \in Int
          BY <1>2
        <4>1. ~ (i < k + 1) /\ ~ (i < k) /\ i < k + 2 /\ (i - k) + 1 = 2
          BY <3>3, <4>0
        <4> QED  BY <1>6, <2>1, <3>3, <4>1
      <3>4. CASE i > k + 1
        <4>1. /\ ~ (i < k + 1) /\ ~ (i < k) /\ ~ (i < k + 2) /\ (i - 2) + 1 = i - 1 /\ i # k + 1
              /\ i - 1 \in 1..N /\ i - 1 # k
          BY <1>1, <1>2, <3>4
        <4> QED  BY <1>5, <1>6, <4>1
      <3> QED  BY <1>1, <1>2, <3>1, <3>2, <3>3, <3>4
    <2>3. Len(d) = (N - 1) + Len(x)
      BY <1>1, <1>6, <2>1
    <2>4. Spliced(d, c, k, 1, x)
      BY <1>6, <2>1, <2>2, <2>3 DEF Spliced, N
    <2> QED  BY <2>4 DEF x
  <1>17. SoundMeta(new) /\ new.children = d /\ new.count = meta.count
    <2> HIDE DEF new, size
    <2>1. new \in MetaRecords(d, v, meta.count, size)
      BY <1>0, <1>4 DEF MetaSlabs, MetaRecords
    <2> QED  BY <1>6, <1>13, <1>14, <1>15, <2>1, PatchedIsSound
  <1> HIDE DEF new
  <1> QED  BY <1>16, <1>17 DEF new, c

\* Two neighbours share their elements anew: only the cumulative count of the
\* left one changes (ArrayMetaDataSlab.MergeOrRebalanceChildSlab).
THEOREM ChildrenRebalancedIsSound ==
    ASSUME NEW meta, SoundMeta(meta), NEW k \in 1..(Len(meta.children) - 1),
           NEW left \in Headers, NEW right \in Headers,
           left.count + right.count = meta.children[k].count + meta.children[k+1].count
    PROVE  LET new == ChildrenRebalanced(meta, k, meta.children[k].count, left, right)
           IN /\ SoundMeta(new) /\ new.count = meta.count
              /\ Spliced(new.children, meta.children, k, 2, <<left, right>>)
  <1> DEFINE c == meta.children
             u == meta.countSum
             N == Len(c)
             b == ReplaceAt(c, k, left)
             d == ReplaceAt(b, k + 1, right)
             z == u[k] - c[k].count + left.count
             v == ReplaceAt(u, k, z)
             new == ChildrenRebalanced(meta, k, c[k].count, left, right)
  <1>0. meta \in MetaSlabs
    BY MetaParts
  <1>1. /\ c \in Seq(Headers) /\ N \in Nat /\ meta.size = MetaPrefixSize + N * HeaderSize
    BY MetaParts
  <1>2. N > 0 /\ k \in 1..N /\ k \in Nat /\ k + 1 \in 1..N
    BY <1>1
  <1>3. /\ StepsUp(u, c) /\ meta.count = u[N]
        /\ \A i \in 1..N : c[i].count \in Nat
    BY <1>2, MetaSteps
  <1>4. new = [meta EXCEPT !.children = d, !.countSum = v]
    BY DEF ChildrenRebalanced
  <1>5. b \in Seq(Headers) /\ Len(b) = N /\ \A i \in 1..N : b[i] = IF i = k THEN left ELSE c[i]
    <2>1. b \in Seq(Headers) /\ Replaced(b, c, k, left)
      BY <1>1, <1>2, ReplacedAt
    <2> QED  BY <2>1 DEF Replaced
  <1>11. left.count + right.count = c[k].count + c[k+1].count
    BY DEF c
  <1> HIDE DEF c, u, N, b
  <1>6. d \in Seq(Headers) /\ Len(d) = N /\ \A i \in 1..N : d[i] = IF i = k + 1 THEN right ELSE b[i]
    <2> DEFINE j == k + 1
    <2>1. j \in 1..Len(b)
      BY <1>1, <1>2, <1>5
    <2> HIDE DEF j
    <2>2. ReplaceAt(b, j, right) \in Seq(Headers) /\ Replaced(ReplaceAt(b, j, right), b, j, right)
      BY <1>5, <2>1, ReplacedAt
    <2>3. d = ReplaceAt(b, j, right)
      BY DEF j
    <2> HIDE DEF d
    <2> QED  BY <1>5, <2>2, <2>3 DEF j, Replaced
  <1>7. u \in Seq(Int) /\ Len(u) = N /\ N \in Nat /\ \A i \in 1..N : u[i] \in Int
    BY <1>1, <1>3 DEF StepsUp, N
  <1>8. /\ left.count \in Nat /\ right.count \in Nat /\ u[k] \in Int
        /\ c[k].count \in Nat /\ c[k+1].count \in Nat /\ z \in Int
    <2>1. left.count \in Nat /\ right.count \in Nat
      BY DEF Headers
    <2>2. u[k] \in Int /\ c[k].count \in Nat /\ c[k+1].count \in Nat
      BY <1>2, <1>3, <1>7
    <2> QED  BY <2>1, <2>2
  <1> HIDE DEF d, z
  <1>9. v \in Seq(Int) /\ Len(v) = N /\ \A i \in 1..N : v[i] = IF i = k THEN z ELSE u[i]
    <2>1. v \in Seq(Int) /\ Replaced(v, u, k, z)
      BY <1>2, <1>7, <1>8, ReplacedAt
    <2> HIDE DEF v
    <2> QED  BY <1>7, <2>1 DEF Replaced
  <1> HIDE DEF v
  <1>10. \A i \in 1..N : u[i] = c[i].count + IF i = 1 THEN 0 ELSE u[i-1]
    BY <1>3 DEF StepsUp, N
  <1>12. ASSUME NEW i \in 1..N
         PROVE  v[i] = d[i].count + IF i = 1 THEN 0 ELSE v[i-1]
    <2>1. CASE i # k /\ i # k + 1
      <3>1. i # 1 => i - 1 \in 1..N /\ i - 1 # k
        BY <1>1, <1>2, <2>1
      <3>2. v[i] = u[i] /\ d[i] = c[i] /\ (i # 1 => v[i-1] = u[i-1])
        BY <1>5, <1>6, <1>9, <2>1, <3>1
      <3> QED  BY <1>10, <3>2
    <2>2. CASE i = k
      <3>1. i # k + 1 /\ (i # 1 => i - 1 \in 1..N /\ i - 1 # k)
        BY <1>1, <1>2, <2>2
      <3>2. v[i] = z /\ d[i] = left /\ (i # 1 => v[i-1] = u[i-1])
        BY <1>5, <1>6, <1>9, <2>2, <3>1
      <3> DEFINE w == u[i-1]
                 x == u[k]
                 y == c[k].count
                 p == left.count
      <3>3. /\ x = y + (IF i = 1 THEN 0 ELSE w) /\ z = (x - y) + p
            /\ x \in Int /\ y \in Nat /\ p \in Nat /\ (i # 1 => w \in Int)
        BY <1>7, <1>8, <1>10, <2>2, <3>1 DEF z
      <3> HIDE DEF w, x, y, p
      <3>4. z = p + IF i = 1 THEN 0 ELSE w
        BY <3>3
      <3> QED  BY <3>2, <3>4 DEF p, w
    <2>3. CASE i = k + 1
      <3>1. i # 1 /\ i - 1 = k /\ i # k
        BY <1>1, <1>2, <2>3
      <3>2. v[i] = u[i] /\ d[i] = right /\ v[i-1] = z
        BY <1>2, <1>6, <1>9, <2>3, <3>1
      <3> DEFINE w == u[i]
                 x == u[k]
                 y == c[k].count
                 q == c[k+1].count
                 p == left.count
                 r == right.count
      <3>3. /\ w = q + x /\ z = (x - y) + p /\ p + r = y + q
            /\ x \in Int /\ y \in Nat /\ p \in Nat /\ q \in Nat /\ r \in Nat
        BY <1>8, <1>10, <1>11, <2>3, <3>1 DEF z
      <3> HIDE DEF w, x, y, p, q, r
      <3>4. w = r + z
        BY <3>3
      <3> QED  BY <3>1, <3>2, <3>4 DEF r, w
    <2> QED  BY <2>1, <2>2, <2>3
  <1>13. StepsUp(v, d)
    BY <1>6, <1>9, <1>12 DEF StepsUp
  <1>14. Len(d) > 0 /\ meta.count = v[Len(d)]
    <2>1. N \in 1..N /\ N # k
      BY <1>1, <1>2
    <2> QED  BY <1>2, <1>3, <1>6, <1>9, <2>1
  <1>15. meta.size = MetaPrefixSize + Len(d) * HeaderSize
    BY <1>1, <1>6
  <1>16. Spliced(d, c, k, 2, <<left, right>>)
    <2> DEFINE x == <<left, right>>
    <2>1. Len(x) = 2 /\ x[1] = left /\ x[2] = right
      OBVIOUS
    <2> HIDE DEF x
    <2>2. ASSUME NEW i \in 1..N
          PROVE  d[i] = IF i < k THEN c[i] ELSE IF i < k + 2 THEN x[(i - k) + 1]
                        ELSE c[(i - 2) + 2]
      <3>1. CASE i < k
        <4>1. i # k /\ i # k + 1
          BY <1>2, <3>1
        <4> QED  BY <1>5, <1>6, <3>1, <4>1
      <3>2. CASE i = k
        <4>1. i # k + 1 /\ ~ (i < k) /\ i < k + 2 /\ (i - k) + 1 = 1
          BY <1>2, <3>2
        <4> QED  BY <1>5, <1>6, <2>1, <3>2, <4>1
      <3>3. CASE i = k + 1
        <4>1. ~ (i < k) /\ i < k + 2 /\ (i - k) + 1 = 2
          BY <1>2, <3>3
        <4> QED  BY <1>6, <2>1, <3>3, <4>1
      <3>4. CASE i > k + 1
        <4>1. ~ (i < k) /\ ~ (i < k + 2) /\ (i - 2) + 2 = i /\ i # k + 1 /\ i # k
          BY <1>2, <3>4
        <4> QED  BY <1>5, <1>6, <4>1
      <3> QED  BY <1>2, <3>1, <3>2, <3>3, <3>4
    <2>3. Len(d) = (N - 2) + Len(x)
      BY <1>1, <1>6, <2>1
    <2>4. Spliced(d, c, k, 2, x)
      BY <1>6, <2>1, <2>2, <2>3 DEF Spliced, N
    <2> QED  BY <2>4 DEF x
  <1>17. SoundMeta(new) /\ new.children = d /\ new.count = meta.count
    <2> HIDE DEF new
    <2>1. new \in MetaRecords(d, v, meta.count, meta.size)
      BY <1>0, <1>4 DEF MetaSlabs, MetaRecords
    <2> QED  BY <1>6, <1>13, <1>14, <1>15, <2>1, PatchedIsSound
  <1> HIDE DEF new
  <1> QED  BY <1>16, <1>17 DEF new, c

\* Two neighbours become one: the cumulative count of the left one goes, and the
\* one of the right is that of the child they are now
\* (ArrayMetaDataSlab.MergeOrRebalanceChildSlab).
THEOREM ChildrenMergedIsSound ==
    ASSUME NEW meta, SoundMeta(meta), NEW k \in 1..(Len(meta.children) - 1),
           NEW left \in Headers,
           left.count = meta.children[k].count + meta.children[k+1].count
    PROVE  LET new == ChildrenMerged(meta, k, left)
           IN /\ SoundMeta(new) /\ new.count = meta.count
              /\ Spliced(new.children, meta.children, k, 2, <<left>>)
  <1> DEFINE c == meta.children
             u == meta.countSum
             N == Len(c)
             b == ReplaceAt(c, k, left)
             d == RemoveAt(b, k + 1)
             v == RemoveAt(u, k)
             size == meta.size - HeaderSize
             new == ChildrenMerged(meta, k, left)
  <1>0. meta \in MetaSlabs
    BY MetaParts
  <1>1. /\ c \in Seq(Headers) /\ N \in Nat /\ meta.size = MetaPrefixSize + N * HeaderSize
    BY MetaParts
  <1>2. N > 1 /\ k \in 1..N /\ k \in Nat /\ k + 1 \in 1..N
    BY <1>1
  <1>3. /\ StepsUp(u, c) /\ meta.count = u[N]
        /\ \A i \in 1..N : c[i].count \in Nat
    BY <1>1, <1>2, MetaSteps
  <1>4. new = [meta EXCEPT !.children = d, !.countSum = v, !.size = size]
    BY DEF ChildrenMerged
  <1>5. b \in Seq(Headers) /\ Len(b) = N /\ \A i \in 1..N : b[i] = IF i = k THEN left ELSE c[i]
    <2>1. b \in Seq(Headers) /\ Replaced(b, c, k, left)
      BY <1>1, <1>2, ReplacedAt
    <2> QED  BY <2>1 DEF Replaced
  <1>11. left.count = c[k].count + c[k+1].count
    BY DEF c
  <1> HIDE DEF c, u, N, b
  <1>6. /\ d \in Seq(Headers) /\ Len(d) = N - 1
        /\ \A i \in 1..(N - 1) : d[i] = IF i < k + 1 THEN b[i] ELSE b[i+1]
    <2> DEFINE j == k + 1
    <2>1. j \in 1..Len(b)
      BY <1>1, <1>2, <1>5
    <2> HIDE DEF j
    <2>2. RemoveAt(b, j) \in Seq(Headers) /\ Removed(RemoveAt(b, j), b, j)
      BY <1>5, <2>1, RemovedAt
    <2>3. d = RemoveAt(b, j)
      BY DEF j
    <2> HIDE DEF d
    <2> QED  BY <1>5, <2>2, <2>3 DEF j, Removed
  <1>7. u \in Seq(Int) /\ Len(u) = N /\ N \in Nat /\ \A i \in 1..N : u[i] \in Int
    BY <1>1, <1>3 DEF StepsUp, N
  <1> HIDE DEF d
  <1>9. v \in Seq(Int) /\ Len(v) = N - 1 /\ \A i \in 1..(N - 1) : v[i] = IF i < k THEN u[i] ELSE u[i+1]
    <2>1. v \in Seq(Int) /\ Removed(v, u, k)
      BY <1>2, <1>7, RemovedAt
    <2> HIDE DEF v
    <2> QED  BY <1>7, <2>1 DEF Removed
  <1> HIDE DEF v
  <1>10. \A i \in 1..N : u[i] = c[i].count + IF i = 1 THEN 0 ELSE u[i-1]
    BY <1>3 DEF StepsUp, N
  <1>12. ASSUME NEW i \in 1..(N - 1)
         PROVE  v[i] = d[i].count + IF i = 1 THEN 0 ELSE v[i-1]
    <2>0. i \in 1..N /\ i + 1 \in 1..N
      BY <1>1
    <2>1. CASE i < k
      <3>1. i # k /\ i < k + 1 /\ (i # 1 => i - 1 \in 1..(N - 1) /\ i - 1 < k)
        BY <1>1, <1>2, <2>1
      <3>2. v[i] = u[i] /\ d[i] = c[i] /\ (i # 1 => v[i-1] = u[i-1])
        BY <1>5, <1>6, <1>9, <2>0, <2>1, <3>1
      <3> QED  BY <1>10, <2>0, <3>2
    <2>2. CASE i = k
      <3>1. ~ (i < k) /\ i < k + 1 /\ (i # 1 => i - 1 \in 1..(N - 1) /\ i - 1 < k)
            /\ i + 1 # 1 /\ (i + 1) - 1 = i
        BY <1>1, <1>2, <2>2
      <3>2. v[i] = u[i+1] /\ d[i] = left /\ (i # 1 => v[i-1] = u[i-1])
        BY <1>5, <1>6, <1>9, <2>0, <2>2, <3>1
      <3> DEFINE w == u[i-1]
                 x == u[i]
                 t == u[i+1]
                 y == c[i].count
                 q == c[i+1].count
                 p == left.count
      <3>3. x = y + (IF i = 1 THEN 0 ELSE w) /\ y \in Nat /\ q \in Nat
        BY <1>3, <1>10, <2>0
      <3>4. t = q + x /\ p = y + q
        BY <1>10, <1>11, <2>0, <2>2, <3>1
      <3>5. i # 1 => w \in Int
        BY <1>1, <1>7, <3>1
      <3> HIDE DEF w, x, y, p, q, t
      <3>6. t = p + IF i = 1 THEN 0 ELSE w
        BY <3>3, <3>4, <3>5
      <3> QED  BY <3>2, <3>6 DEF p, t, w
    <2>3. CASE i > k
      <3>1. /\ ~ (i < k) /\ ~ (i < k + 1) /\ i + 1 # k /\ i # 1 /\ i - 1 \in 1..(N - 1)
            /\ ~ (i - 1 < k) /\ (i - 1) + 1 = i /\ i + 1 # 1 /\ (i + 1) - 1 = i
        BY <1>1, <1>2, <2>3
      <3>2. v[i] = u[i+1] /\ d[i] = c[i+1] /\ v[i-1] = u[i]
        BY <1>5, <1>6, <1>9, <2>0, <3>1
      <3>3. u[i+1] = c[i+1].count + u[i]
        BY <1>10, <2>0, <3>1
      <3> QED  BY <3>1, <3>2, <3>3
    <2> QED  BY <1>2, <2>0, <2>1, <2>2, <2>3
  <1>13. StepsUp(v, d)
    BY <1>6, <1>9, <1>12 DEF StepsUp
  <1>14. Len(d) > 0 /\ meta.count = v[Len(d)]
    <2>1. N - 1 \in 1..(N - 1) /\ ~ (N - 1 < k) /\ (N - 1) + 1 = N
      BY <1>1, <1>2
    <2> QED  BY <1>1, <1>2, <1>3, <1>6, <1>9, <2>1
  <1>15. size = MetaPrefixSize + Len(d) * HeaderSize
    <2> DEFINE n == N - 1
               h == HeaderSize
               p == n * h
    <2>1. n \in Nat /\ N = n + 1
      BY <1>1, <1>2
    <2>2. N * h = n * h + h /\ p \in Nat
      <3> HIDE DEF n
      <3> QED  BY <1>1, <2>1, HeaderSizes DEF n
    <2>3. h \in Nat /\ MetaPrefixSize \in Nat
      BY MetaLimits
    <2>4. size = (MetaPrefixSize + (p + h)) - h
      BY <1>1, <2>2
    <2>5. Len(d) * h = p
      BY <1>6
    <2> HIDE DEF p, size, h
    <2>6. size = MetaPrefixSize + p
      BY <2>2, <2>3, <2>4
    <2> QED  BY <2>5, <2>6 DEF h
  <1>16. Spliced(d, c, k, 2, <<left>>)
    <2> DEFINE x == <<left>>
    <2>1. Len(x) = 1 /\ x[1] = left
      OBVIOUS
    <2> HIDE DEF x
    <2>2. ASSUME NEW i \in 1..(N - 1)
          PROVE  d[i] = IF i < k THEN c[i] ELSE IF i < k + 1 THEN x[(i - k) + 1]
                        ELSE c[(i - 1) + 2]
      <3>0. i \in 1..N /\ i + 1 \in 1..N
        BY <1>1
      <3>1. CASE i < k
        <4>1. i # k /\ i < k + 1
          BY <1>2, <3>0, <3>1
        <4> QED  BY <1>5, <1>6, <3>0, <3>1, <4>1
      <3>2. CASE i = k
        <4>1. ~ (i < k) /\ i < k + 1 /\ (i - k) + 1 = 1
          BY <1>2, <3>2
        <4> QED  BY <1>5, <1>6, <2>1, <3>0, <3>2, <4>1
      <3>3. CASE i > k
        <4>1. ~ (i < k) /\ ~ (i < k + 1) /\ (i - 1) + 2 = i + 1 /\ i + 1 # k
          BY <1>2, <3>0, <3>3
        <4> QED  BY <1>5, <1>6, <3>0, <4>1
      <3> QED  BY <1>2, <3>0, <3>1, <3>2, <3>3
    <2>3. Len(d) = (N - 2) + Len(x)
      BY <1>1, <1>6, <2>1
    <2>4. Spliced(d, c, k, 2, x)
      BY <1>6, <2>1, <2>2, <2>3 DEF Spliced, N
    <2> QED  BY <2>4 DEF x
  <1>17. SoundMeta(new) /\ new.children = d /\ new.count = meta.count
    <2> HIDE DEF new, size
    <2>1. new \in MetaRecords(d, v, meta.count, size)
      BY <1>0, <1>4 DEF MetaSlabs, MetaRecords
    <2> DEFINE q == meta.count
    <2>2. q = v[Len(d)] /\ new \in MetaRecords(d, v, q, size)
      BY <1>14, <2>1
    <2>3. d \in Seq(Headers) /\ Len(d) > 0
      BY <1>6, <1>14
    <2> HIDE DEF q
    <2>4. SoundMeta(new) /\ new.children = d /\ new.count = q
      BY <1>13, <1>15, <2>2, <2>3, PatchedIsSound
    <2> QED  BY <2>4 DEF q
  <1> HIDE DEF new
  <1> QED  BY <1>16, <1>17 DEF new, c
=============================================================================
