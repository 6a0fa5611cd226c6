-------------------------- MODULE FastCommitProofs --------------------------
(***************************************************************************)
(* Proofs about FastCommit for any addresses, objects, contents and any    *)
(* number of goroutines: the calls keep the storage's invariant, race with *)
(* nobody, and do exactly what Commit does.                                *)
(***************************************************************************)
EXTENDS FastCommit, SlabStorageProofs

-----------------------------------------------------------------------------
(* Sorting the keys.                                                       *)

\* Slab IDs are totally ordered.
LEMMA BeforeIsTotalOrder ==
    ASSUME NEW x \in SlabID, NEW y \in SlabID
    PROVE  /\ x = y \/ Before(x, y) \/ Before(y, x)
           /\ ~ (Before(x, y) /\ Before(y, x))
           /\ ~ Before(x, x)
           /\ \A z \in SlabID : Before(x, y) /\ Before(y, z) => Before(x, z)
  <1>1. \A z \in SlabID : z[1] \in Nat /\ z[2] \in Nat /\ z = <<z[1], z[2]>>
    BY SlabIDParts, ConstantsAssumption
  <1> QED  BY <1>1 DEF Before

\* A property that the smallest sets of slab IDs have and that is inherited by
\* larger ones holds for all: if some set is in Bad, one is whose parts are not.
LEMMA SmallestBadSet ==
    ASSUME NEW Bad \in SUBSET SUBSET SlabID, Bad # {}
    PROVE  \E S \in Bad : \A T \in SUBSET S : T # S => T \notin Bad
  <1>1. FiniteSubsetsOf(SlabID) = SUBSET SlabID
    BY SlabIDsAreFinite, FS_FiniteSubsetsOfFinite
  <1>2. IsWellFoundedOn(StrictSubsetOrdering(SlabID), SUBSET SlabID)
    BY <1>1, FS_StrictSubsetOrderingWellFounded
  <1>3. PICK S \in Bad : \A T \in Bad : <<T, S>> \notin StrictSubsetOrdering(SlabID)
    BY <1>2, WFMin
  <1> QED  BY <1>3 DEF StrictSubsetOrdering

\* A set of slab IDs has a last one.
LEMMA LastID ==
    ASSUME NEW S \in SUBSET SlabID, S # {}
    PROVE  \E m \in S : \A x \in S \ {m} : Before(x, m)
  <1> DEFINE HasLast(T) == \E m \in T : \A x \in T \ {m} : Before(x, m)
             Bad == {T \in SUBSET SlabID : T # {} /\ ~ HasLast(T)}
  <1> SUFFICES Bad = {}
    OBVIOUS
  <1> SUFFICES ASSUME Bad # {} PROVE FALSE
    OBVIOUS
  <1>1. PICK B \in Bad : \A T \in SUBSET B : T # B => T \notin Bad
    <2> HIDE DEF Bad
    <2>1. Bad \in SUBSET SUBSET SlabID
      BY DEF Bad
    <2> QED  BY <2>1, SmallestBadSet
  <1>2. PICK x \in B : TRUE
    OBVIOUS
  <1>3. CASE B \ {x} = {}
    BY <1>2, <1>3
  <1>4. CASE B \ {x} # {}
    <2>1. HasLast(B \ {x})
      <3>1. B \ {x} \in SUBSET B /\ B \ {x} # B
        BY <1>2
      <3>2. B \ {x} \notin Bad
        BY <1>1, <3>1
      <3>3. B \ {x} \in SUBSET SlabID
        BY <1>1
      <3> HIDE DEF HasLast
      <3> QED  BY <1>4, <3>2, <3>3
    <2>2. PICK m \in B \ {x} : \A y \in (B \ {x}) \ {m} : Before(y, m)
      BY <2>1
    <2>3. Before(x, m) \/ Before(m, x)
      BY <1>2, <2>2, BeforeIsTotalOrder
    <2>4. CASE Before(x, m)
      BY <1>2, <2>2, <2>4
    <2>5. CASE Before(m, x)
      <3>1. \A y \in B \ {x} : Before(y, x)
        BY <1>2, <2>2, <2>5, BeforeIsTotalOrder
      <3> QED  BY <1>2, <3>1
    <2> QED  BY <2>3, <2>4, <2>5
  <1> QED  BY <1>3, <1>4

Increasing(s) == \A i, j \in DOMAIN s : i < j => Before(s[i], s[j])

\* Every set of slab IDs can be sorted.
LEMMA CanBeSorted ==
    ASSUME NEW S \in SUBSET SlabID
    PROVE  \E s \in [1..Cardinality(S) -> S] : Increasing(s)
  <1> DEFINE Sortable(T) == \E s \in [1..Cardinality(T) -> T] : Increasing(s)
             Bad == {T \in SUBSET SlabID : ~ Sortable(T)}
  <1> SUFFICES ASSUME Bad # {} PROVE FALSE
    OBVIOUS
  <1>1. PICK B \in Bad : \A T \in SUBSET B : T # B => T \notin Bad
    <2> HIDE DEF Bad
    <2>1. Bad \in SUBSET SUBSET SlabID
      BY DEF Bad
    <2> QED  BY <2>1, SmallestBadSet
  <1>2. IsFiniteSet(B)
    BY SlabIDsAreFinite, FS_Subset
  <1>3. B # {}
    <2> SUFFICES ASSUME B = {} PROVE Sortable(B)
      OBVIOUS
    <2>1. Cardinality(B) = 0
      BY FS_EmptySet
    <2>2. 1..Cardinality(B) = {}
      BY <2>1
    <2>3. [i \in {} |-> i] \in [{} -> B] /\ Increasing([i \in {} |-> i])
      BY DEF Increasing
    <2> QED  BY <2>2, <2>3
  <1>4. PICK m \in B : \A x \in B \ {m} : Before(x, m)
    BY <1>3, LastID
  <1> DEFINE n == Cardinality(B \ {m})
  <1>5. n \in Nat /\ Cardinality(B) = n + 1
    <2>1. IsFiniteSet(B \ {m}) /\ Cardinality(B \ {m}) = Cardinality(B) - 1
      BY <1>2, FS_RemoveElement
    <2>2. Cardinality(B \ {m}) \in Nat /\ Cardinality(B) \in Nat
      BY <1>2, <2>1, FS_CardinalityType
    <2> QED  BY <2>1, <2>2
  <1>6. PICK s \in [1..n -> B \ {m}] : Increasing(s)
    BY <1>1, <1>4
  <1> DEFINE t == [i \in 1..(n + 1) |-> IF i = n + 1 THEN m ELSE s[i]]
  <1> HIDE DEF n
  <1>7. t \in [1..(n + 1) -> B]
    BY <1>5, <1>6
  <1>8. Increasing(t)
    BY <1>4, <1>5, <1>6 DEF Increasing
  <1>9. Sortable(B)
    BY <1>5, <1>7, <1>8
  <1> QED  BY <1>9

\* The job queue is filled with every key, once.
LEMMA SortedKeysParts ==
    ASSUME TypeOK
    PROVE  LET n == Cardinality(OwnedDeltas) IN
             /\ n \in Nat /\ (OwnedDeltas # {} => n > 0)
             /\ SortedKeys \in [1..n -> OwnedDeltas]
             /\ \A i, j \in 1..n : SortedKeys[i] = SortedKeys[j] => i = j
             /\ \A id \in OwnedDeltas : \E i \in 1..n : SortedKeys[i] = id
  <1> DEFINE n == Cardinality(OwnedDeltas)
  <1>1. OwnedDeltas \in SUBSET SlabID
    BY DEF OwnedDeltas, OwnedIDs
  <1>2. IsFiniteSet(OwnedDeltas)
    BY <1>1, SlabIDsAreFinite, FS_Subset
  <1>3. n \in Nat /\ (OwnedDeltas # {} => n > 0)
    BY <1>2, FS_CardinalityType, FS_EmptySet
  <1>4. \E s \in [1..n -> OwnedDeltas] : \A i, j \in DOMAIN s : i < j => Before(s[i], s[j])
    BY <1>1, CanBeSorted DEF Increasing
  <1>5. /\ SortedKeys \in [1..n -> OwnedDeltas]
        /\ \A i, j \in DOMAIN SortedKeys : i < j => Before(SortedKeys[i], SortedKeys[j])
    BY <1>4 DEF SortedKeys
  <1> HIDE DEF n
  <1>6. \A i, j \in 1..n : SortedKeys[i] = SortedKeys[j] => i = j
    <2> SUFFICES ASSUME NEW i \in 1..n, NEW j \in 1..n, i < j
                 PROVE  SortedKeys[i] # SortedKeys[j]
      BY <1>3
    <2>1. SortedKeys[i] \in SlabID /\ Before(SortedKeys[i], SortedKeys[j])
      BY <1>1, <1>5
    <2> QED  BY <2>1, BeforeIsTotalOrder
  <1>7. SortedKeys \in Surjection(1..n, OwnedDeltas)
    <2>1. SortedKeys \in Injection(1..n, OwnedDeltas)
      BY <1>5, <1>6 DEF Injection, IsInjective
    <2>2. IsFiniteSet(1..n) /\ Cardinality(1..n) = n
      <3>1. /\ IsFiniteSet(1..n)
            /\ Cardinality(1..n) = IF 1 > n THEN 0 ELSE n - 1 + 1
        BY <1>3, 1 \in Int, n \in Int, FS_Interval
      <3> QED  BY <1>3, <3>1
    <2>3. Cardinality(1..n) = Cardinality(OwnedDeltas)
      BY <2>2 DEF n
    <2> QED  BY <1>2, <2>1, <2>3, FS_Injection
  <1> QED  BY <1>3, <1>5, <1>6, <1>7 DEF Surjection, n

-----------------------------------------------------------------------------
(* One lemma per step of the call.                                         *)

\* Encoding a slab: what an encoder can answer.
LEMMA EncodingParts ==
    ASSUME StorageInv, NEW id \in OwnedDeltas
    PROVE  /\ id \in SlabID /\ id \in OwnedIDs
           /\ Encoding(id).slabID = id
           /\ Encoding(id).data \in Contents \cup {Nil}
           /\ Encoding(id).data # Absent
           /\ Encoding(id).data = Nil <=> deltas[id] = Nil
           /\ deltas[id] \in Objects \cup {Nil}
           /\ deltas[id] \in Objects =>
                 /\ Encoding(id).data = EncodeSlab(heap[deltas[id]])
                 /\ Encoding(id).err <=> heap[deltas[id]].val \in Unencodable
  <1>1. id \in SlabID /\ id \in OwnedIDs /\ deltas[id] # Absent
    BY DEF OwnedDeltas, OwnedIDs
  <1>2. deltas[id] \in Objects \cup {Nil}
    BY <1>1 DEF StorageInv, TypeOK, Entry
  <1>3. CASE deltas[id] \in Objects
    <2>1. heap[deltas[id]] # Absent
      BY <1>1, <1>3 DEF StorageInv, DeltasAreFiled
    <2>2. heap[deltas[id]].val \in Contents
      BY <1>3, <2>1, AliveIsSlab DEF StorageInv
    <2>3. Encoding(id) = [slabID |-> id, data |-> EncodeSlab(heap[deltas[id]]),
                          err |-> heap[deltas[id]].val \in Unencodable]
      BY <1>3 DEF Encoding
    <2>4. /\ Encoding(id).slabID = id
          /\ Encoding(id).data = EncodeSlab(heap[deltas[id]])
      BY <2>3
    <2>5. Encoding(id).err <=> heap[deltas[id]].val \in Unencodable
      BY <2>3, ErrField
    <2>6. EncodeSlab(heap[deltas[id]]) \in Contents
      BY <2>2 DEF EncodeSlab
    <2>7. Absent \notin Contents /\ Nil \notin Contents /\ Nil \notin Objects
      BY ConstantsAssumption, DataAssumption
    <2>8. /\ Encoding(id).data \in Contents \cup {Nil} /\ Encoding(id).data # Absent
          /\ Encoding(id).data = Nil <=> deltas[id] = Nil
      BY <1>3, <2>4, <2>6, <2>7
    <2> QED  BY <1>1, <1>3, <2>4, <2>5, <2>8
  <1>4. CASE deltas[id] = Nil
    BY <1>1, <1>4, ConstantsAssumption DEF Encoding
  <1> QED  BY <1>2, <1>3, <1>4

\* Between calls there is no pool and nothing is encoded.
LEMMA IdleIsFine ==
    main = "idle" /\ Idle /\ encoded = NothingEncoded /\ awaited \in Nat
      => FastCommitInv
  <1> SUFFICES ASSUME main = "idle", Idle, encoded = NothingEncoded, awaited \in Nat
               PROVE  FastCommitInv
    OBVIOUS
  <1>1. PoolIsCurrent
    BY EmptySeq DEF PoolIsCurrent, PoolHolds, Idle
  <1>2. EachKeyOnce
    BY DEF EachKeyOnce, Idle, Busy, Gone
  <1>3. EncodedIsCurrent
    BY DEF EncodedIsCurrent, Encoded, NothingEncoded
  <1> QED  BY <1>1, <1>2, <1>3
           DEF FastCommitInv, CollectIsOnCourse, ApplyIsOnCourse, Idle

\* The steps that lead to such a state.
LEMMA IdleSteps ==
    ASSUME main' = "idle", Idle', (encoded = NothingEncoded)', awaited' \in Nat
    PROVE  FastCommitInv'
  <1>1. (main = "idle" /\ Idle /\ encoded = NothingEncoded /\ awaited \in Nat
          => FastCommitInv)'
    BY IdleIsFine, PTL
  <1> QED  BY <1>1

\* What the pool and the map may hold depends on deltas and heap only.
LEMMA SameSlabs ==
    ASSUME UNCHANGED <<heap, deltas>>
    PROVE  /\ OwnedDeltas' = OwnedDeltas
           /\ \A id : Encoding(id)' = Encoding(id)
           /\ {Encoding(id) : id \in OwnedDeltas}' = {Encoding(id) : id \in OwnedDeltas}
           /\ {Job(id) : id \in OwnedDeltas}' = {Job(id) : id \in OwnedDeltas}
  <1>1. OwnedDeltas' = OwnedDeltas
    BY DEF OwnedDeltas
  <1>2. ASSUME NEW id PROVE Encoding(id)' = Encoding(id)
    BY DEF Encoding
  <1> QED  BY <1>1, <1>2

\* A key in the pool is one of the call's.
LEMMA PoolKeys ==
    ASSUME StorageInv, PoolIsCurrent, NEW id, InPool(id)
    PROVE  id \in OwnedDeltas
  <1>1. /\ \A k \in OwnedDeltas : Job(k).slabID = k /\ Encoding(k).slabID = k
    BY EncodingParts DEF Job
  <1>2. ASSUME NEW i \in DOMAIN jobs PROVE jobs[i].slabID \in OwnedDeltas
    BY <1>1, <1>2, LenProperties, ElementOfSeq DEF PoolIsCurrent, PoolHolds
  <1>3. ASSUME NEW i \in DOMAIN results PROVE results[i].slabID \in OwnedDeltas
    BY <1>1, <1>3, LenProperties, ElementOfSeq DEF PoolIsCurrent, PoolHolds
  <1>4. ASSUME NEW w \in Workers, Busy(w) PROVE worker[w].job.slabID \in OwnedDeltas
    BY <1>1, <1>4 DEF PoolIsCurrent, PoolHolds, Busy, Gone, Waiting
  <1> QED  BY <1>2, <1>3, <1>4 DEF InPool

\* A step of an encoder preserves the invariant: it moves a key, and answers
\* with the encoding the slab has now.
LEMMA EncoderKeeps ==
    ASSUME StorageInv, FastCommitInv, NEW w \in Workers, EncoderStep(w)
    PROVE  FastCommitInv'
  <1> DEFINE J == {Job(id) : id \in OwnedDeltas}
             R == {Encoding(id) : id \in OwnedDeltas}
  <1>1. PoolHolds(J, R) /\ EachKeyOnce /\ ~ open
    BY DEF FastCommitInv, PoolIsCurrent
  <1>2. UNCHANGED <<heap, deltas, phase, main, encoded, awaited>>
    BY DEF EncoderStep, vars, callVars
  <1>3. UNCHANGED <<open, done>>
    BY DEF EncoderStep, Receive, Finish, Check, Send
  <1>4. main # "idle"
    <2> SUFFICES ASSUME main = "idle" PROVE FALSE
      OBVIOUS
    <2>1. worker[w] = Gone
      BY DEF FastCommitInv, Idle
    <2> QED  BY <2>1 DEF EncoderStep, Receive, Finish, Check, Send, Gone, Waiting
  <1>a. J' = J /\ R' = R
    BY <1>2, SameSlabs
  <1>5. /\ PoolHolds(J, R)' /\ EachKeyOnce'
        /\ \A id : InPool(id)' => InPool(id)
        /\ ~ done => \A id : InPool(id) => InPool(id)'
        /\ ~ done /\ jobs' # <<>> => \E v \in Workers : worker'[v] # Gone
    <2> HIDE DEF J, R
    <2> USE <1>1, <1>a
    <2>1. CASE Receive(w)
      <3>1. worker'[w].at = "check"
        BY <2>1 DEF Receive, PoolHolds
      <3> QED  BY <2>1, <3>1, ReceiveKeeps DEF Gone
    <2>2. CASE Finish(w)
      <3>1. jobs' = <<>>
        BY <2>2 DEF Finish
      <3> QED  BY <2>2, <3>1, FinishKeeps
    <2>3. CASE Check(w)
      BY <2>3, CheckKeeps
    <2>4. CASE Send(w, Encoding(worker[w].job.slabID))
      <3> DEFINE r == Encoding(worker[w].job.slabID)
      <3>1. worker[w].job \in J
        BY <2>4 DEF Send, PoolHolds, Gone, Waiting
      <3>2. PICK k \in OwnedDeltas : worker[w].job = Job(k)
        BY <3>1 DEF J
      <3>3. worker[w].job.slabID = k
        BY <3>2 DEF Job
      <3>4. r \in R /\ r.slabID = worker[w].job.slabID
        BY <3>3, EncodingParts DEF R
      <3> HIDE DEF r
      <3>5. Send(w, r)
        BY <2>4 DEF r
      <3>6. worker'[w].at = "range"
        BY <3>5 DEF Send, PoolHolds, Waiting
      <3> QED  BY <3>4, <3>5, <3>6, SendKeeps DEF Gone
    <2> QED  BY <2>1, <2>2, <2>3, <2>4 DEF EncoderStep
  <1>6. PoolIsCurrent'
    BY <1>2, <1>5, SameSlabs DEF PoolIsCurrent
  <1>7. EncodedIsCurrent'
    BY <1>2, SameSlabs DEF EncodedIsCurrent, Encoded, FastCommitInv
  <1>8. Encoded' = Encoded /\ OwnedDeltas' = OwnedDeltas
    BY <1>2, SameSlabs DEF Encoded
  <1>9. CollectIsOnCourse'
    <2> HIDE DEF J, R
    <2> QED  BY <1>2, <1>3, <1>5, <1>8 DEF CollectIsOnCourse, FastCommitInv
  <1>10. ApplyIsOnCourse'
    <2> HIDE DEF J, R
    <2> QED  BY <1>2, <1>5, <1>8 DEF ApplyIsOnCourse, FastCommitInv
  <1> QED  BY <1>1, <1>2, <1>3, <1>4, <1>5, <1>6, <1>7, <1>9, <1>10
           DEF FastCommitInv

\* The start of a call preserves the invariant: every key is queued once.
LEMMA BeginKeeps ==
    ASSUME StorageInv, FastCommitInv, FastCommitBegin
    PROVE  FastCommitInv'
  <1> DEFINE n == Cardinality(OwnedDeltas)
  <1>1. /\ Idle /\ encoded = NothingEncoded /\ awaited \in Nat /\ OwnedDeltas # {}
        /\ phase' = "committing" /\ UNCHANGED <<heap, deltas>>
        /\ jobs' = [i \in DOMAIN SortedKeys |-> Job(SortedKeys[i])]
        /\ open' = FALSE
        /\ Launch(n)
        /\ main' = "collect" /\ awaited' = n
        /\ UNCHANGED <<results, done, encoded>>
    BY DEF FastCommitInv, FastCommitBegin, CommitBegin
  <1>2. results = <<>> /\ done = FALSE
    BY <1>1 DEF Idle
  <1>3. OwnedDeltas' = OwnedDeltas
    BY <1>1, SameSlabs
  <1>4. /\ n \in Nat /\ n > 0
        /\ SortedKeys \in [1..n -> OwnedDeltas]
        /\ \A i, j \in 1..n : SortedKeys[i] = SortedKeys[j] => i = j
        /\ \A id \in OwnedDeltas : \E i \in 1..n : SortedKeys[i] = id
    BY <1>1, SortedKeysParts DEF StorageInv
  <1> HIDE DEF n
  <1>5. /\ jobs' = [i \in 1..n |-> Job(SortedKeys[i])]
        /\ DOMAIN jobs' = 1..n
        /\ \A i \in 1..n : jobs'[i].slabID = SortedKeys[i]
    BY <1>1, <1>4 DEF Job
  <1>6. PICK W \in SUBSET Workers :
          /\ Cardinality(W) = IF Cardinality(Workers) > n THEN n ELSE Cardinality(Workers)
          /\ worker' = [w \in Workers |-> IF w \in W THEN Waiting ELSE Gone]
    BY <1>1 DEF Launch
  <1>7. \A w \in Workers : worker'[w] \in {Gone, Waiting} /\ ~ Busy(w)'
    BY <1>6 DEF Busy, Gone, Waiting
  <1>8. Workers # {} => \E w \in Workers : worker'[w] # Gone
    <2> SUFFICES ASSUME Workers # {} PROVE W # {}
      BY <1>6 DEF Gone, Waiting
    <2>1. Cardinality(Workers) \in Nat /\ Cardinality(Workers) # 0
      BY WorkersAssumption, FS_CardinalityType, FS_EmptySet
    <2>2. Cardinality(W) # 0
      BY <1>4, <1>6, <2>1
    <2> QED  BY <2>2, FS_EmptySet
  <1>9. PoolIsCurrent'
    <2> DEFINE J == {Job(id) : id \in OwnedDeltas'}
               R == {Encoding(id)' : id \in OwnedDeltas'}
    <2>1. jobs' \in Seq(J)
      <3>1. jobs' \in [1..n -> J]
        BY <1>3, <1>4, <1>5
      <3> HIDE DEF J
      <3> QED  BY <1>4, <3>1, SeqDef
    <2>2. results' \in Seq(R)
      <3> HIDE DEF R
      <3> QED  BY <1>1, <1>2, EmptySeq
    <2>3. worker' \in [Workers -> {Gone, Waiting} \cup [at : {"check", "work"}, job : J]]
      <3> HIDE DEF J
      <3> QED  BY <1>6
    <2> QED  BY <1>1, <1>2, <2>1, <2>2, <2>3 DEF PoolIsCurrent, PoolHolds, Job
  <1>10. EachKeyOnce'
    BY <1>1, <1>2, <1>4, <1>5, <1>7 DEF EachKeyOnce
  <1>11. Encoded' = {} /\ Cardinality(Encoded') = 0
    BY <1>1, FS_EmptySet DEF Encoded, NothingEncoded
  <1>12. EncodedIsCurrent'
    BY <1>1, <1>11 DEF EncodedIsCurrent, NothingEncoded
  <1>13. \A id \in OwnedDeltas' : InPool(id)'
    BY <1>3, <1>4, <1>5 DEF InPool
  <1>14. CollectIsOnCourse'
    <2>1. awaited' + Cardinality(Encoded') = Cardinality(OwnedDeltas')
      BY <1>1, <1>3, <1>4, <1>11 DEF n
    <2> QED  BY <1>1, <1>2, <1>4, <1>8, <1>11, <1>13, <2>1 DEF CollectIsOnCourse
  <1> QED  BY <1>1, <1>4, <1>9, <1>10, <1>12, <1>14 DEF FastCommitInv, ApplyIsOnCourse

\* So does the start of a call that has nothing to do.
LEMMA NothingKeeps ==
    ASSUME StorageInv, FastCommitInv, FastCommitNothing
    PROVE  FastCommitInv'
  <1>1. /\ Idle /\ encoded = NothingEncoded /\ OwnedDeltas = {}
        /\ phase' = "committing" /\ main' = "apply" /\ UNCHANGED <<heap, deltas>>
        /\ UNCHANGED <<jobs, open, results, done, worker, encoded, awaited>>
    BY DEF FastCommitInv, FastCommitNothing, CommitBegin, poolVars
  <1>2. OwnedDeltas' = {}
    BY <1>1, SameSlabs
  <1>3. PoolIsCurrent' /\ EncodedIsCurrent'
    BY <1>1, SameSlabs DEF FastCommitInv, PoolIsCurrent, PoolHolds, EncodedIsCurrent, Encoded
  <1>4. EachKeyOnce'
    BY <1>1 DEF FastCommitInv, EachKeyOnce, Busy
  <1>5. ApplyIsOnCourse'
    BY <1>1, <1>2 DEF ApplyIsOnCourse, Idle, InPool, Busy, Gone
  <1> QED  BY <1>1, <1>3, <1>4, <1>5 DEF FastCommitInv, CollectIsOnCourse

\* Collecting a result preserves the invariant.  When the count is reached all
\* keys are encoded, because no key was counted twice.
LEMMA Collect1Keeps ==
    ASSUME StorageInv, FastCommitInv, Collect1
    PROVE  FastCommitInv'
  <1> DEFINE J == {Job(id) : id \in OwnedDeltas}
             R == {Encoding(id) : id \in OwnedDeltas}
             k == Head(results).slabID
  <1>1. /\ main = "collect" /\ Collected /\ ~ Head(results).err
        /\ encoded' = [encoded EXCEPT ![k] = Head(results).data]
        /\ awaited' = awaited - 1
        /\ main' = IF awaited' = 0 THEN "apply" ELSE "collect"
        /\ UNCHANGED <<heap, deltas, phase, jobs, open, done, worker>>
    BY DEF Collect1, vars
  <1>2. PoolHolds(J, R) /\ EachKeyOnce /\ ~ open /\ done \in BOOLEAN
    BY DEF FastCommitInv, PoolIsCurrent, PoolHolds
  <1>3. J' = J /\ R' = R /\ OwnedDeltas' = OwnedDeltas
    BY <1>1, SameSlabs
  <1>4. /\ Head(results) \in R
        /\ InPool(k)
        /\ PoolHolds(J, R)' /\ EachKeyOnce'
        /\ \A id : InPool(id)' <=> InPool(id) /\ id # k
    <2> HIDE DEF J, R
    <2> QED  BY <1>1, <1>2, <1>3, CollectedKeeps
  <1>5. k \in OwnedDeltas /\ Head(results) = Encoding(k) /\ k \in SlabID
    BY <1>4, EncodingParts
  <1> HIDE DEF J, R, k
  <1>6. /\ phase = "committing" /\ ~ done /\ awaited \in Nat /\ awaited > 0
        /\ Encoded \subseteq OwnedDeltas
        /\ \A id \in OwnedDeltas : id \in Encoded <=> ~ InPool(id)
        /\ awaited + Cardinality(Encoded) = Cardinality(OwnedDeltas)
        /\ jobs # <<>> /\ Workers # {} => \E w \in Workers : worker[w] # Gone
    BY <1>1 DEF FastCommitInv, CollectIsOnCourse
  <1>7. k \notin Encoded
    BY <1>4, <1>5, <1>6
  <1>8. /\ encoded' = [encoded EXCEPT ![k] = Encoding(k).data]
        /\ encoded \in [SlabID -> Contents \cup {Nil, Absent}]
        /\ Encoding(k).data \in Contents \cup {Nil} /\ Encoding(k).data # Absent
        /\ ~ Encoding(k).err
    BY <1>1, <1>5, EncodingParts DEF FastCommitInv, EncodedIsCurrent
  <1>9. Encoded' = Encoded \cup {k}
    BY <1>5, <1>8 DEF Encoded
  <1>10. PoolIsCurrent'
    BY <1>4 DEF PoolIsCurrent, J, R
  <1>11. EncodedIsCurrent'
    <2>1. encoded' \in [SlabID -> Contents \cup {Nil, Absent}]
      BY <1>8
    <2>2. ASSUME NEW id \in OwnedDeltas \cap Encoded'
          PROVE  encoded'[id] = Encoding(id).data /\ ~ Encoding(id).err
      <3>1. CASE id = k
        BY <1>5, <1>8, <3>1
      <3>2. CASE id # k
        BY <1>8, <1>9, <2>2, <3>2, EncodingParts DEF FastCommitInv, EncodedIsCurrent
      <3> QED  BY <3>1, <3>2
    <2>3. \A id : Encoding(id)' = Encoding(id)
      BY <1>1, SameSlabs
    <2> QED  BY <1>3, <2>1, <2>2, <2>3 DEF EncodedIsCurrent
  <1>12. /\ IsFiniteSet(OwnedDeltas) /\ IsFiniteSet(Encoded)
         /\ Cardinality(Encoded) \in Nat /\ Cardinality(OwnedDeltas) \in Nat
         /\ Cardinality(Encoded') = Cardinality(Encoded) + 1
    <2>1. OwnedDeltas \in SUBSET SlabID /\ Encoded \in SUBSET SlabID
      BY DEF OwnedDeltas, OwnedIDs, Encoded
    <2>2. IsFiniteSet(OwnedDeltas) /\ IsFiniteSet(Encoded)
      BY <2>1, SlabIDsAreFinite, FS_Subset
    <2> QED  BY <1>7, <1>9, <2>2, FS_CardinalityType, FS_AddElement
  <1>13. awaited' + Cardinality(Encoded') = Cardinality(OwnedDeltas)
    BY <1>1, <1>6, <1>12
  <1>14. Encoded' \subseteq OwnedDeltas
         /\ \A id \in OwnedDeltas : id \in Encoded' <=> ~ InPool(id)'
    BY <1>4, <1>5, <1>6, <1>9
  <1>15. CASE awaited' = 0
    <2>1. OwnedDeltas = Encoded'
      BY <1>12, <1>13, <1>14, <1>15, FS_Subset
    <2>2. ASSUME NEW id \in SlabID PROVE ~ InPool(id)'
      <3>1. InPool(id) => id \in OwnedDeltas
        BY PoolKeys DEF FastCommitInv
      <3> QED  BY <1>4, <1>14, <2>1, <3>1
    <2>3. ApplyIsOnCourse' /\ CollectIsOnCourse'
      BY <1>1, <1>3, <1>6, <1>15, <2>1, <2>2 DEF ApplyIsOnCourse, CollectIsOnCourse
    <2> QED  BY <1>1, <1>2, <1>4, <1>10, <1>11, <1>15, <2>3 DEF FastCommitInv
  <1>16. CASE awaited' # 0
    <2>1. awaited' \in Nat /\ awaited' > 0
      BY <1>1, <1>6, <1>16
    <2>2. ApplyIsOnCourse' /\ CollectIsOnCourse'
      BY <1>1, <1>3, <1>6, <1>13, <1>14, <1>16, <2>1 DEF ApplyIsOnCourse, CollectIsOnCourse
    <2> QED  BY <1>1, <1>2, <1>4, <1>10, <1>11, <1>16, <2>1, <2>2 DEF FastCommitInv
  <1> QED  BY <1>15, <1>16

\* An encoding error preserves the invariant; the pool may still be at work.
LEMMA CollectErrorKeeps ==
    ASSUME StorageInv, FastCommitInv, CollectError
    PROVE  FastCommitInv'
  <1> DEFINE J == {Job(id) : id \in OwnedDeltas}
             R == {Encoding(id) : id \in OwnedDeltas}
  <1>1. /\ main = "collect" /\ Collected /\ done' = TRUE /\ main' = "return"
        /\ UNCHANGED <<heap, deltas, jobs, open, worker, encoded, awaited>>
    BY DEF CollectError, CommitError
  <1>2. PoolHolds(J, R) /\ EachKeyOnce
    BY DEF FastCommitInv, PoolIsCurrent
  <1>3. J' = J /\ R' = R
    BY <1>1, SameSlabs
  <1> HIDE DEF J, R
  <1>4. PoolHolds(J, R)' /\ EachKeyOnce'
    BY <1>1, <1>2, <1>3, CollectedKeeps
  <1>5. PoolIsCurrent'
    BY <1>4 DEF PoolIsCurrent, J, R
  <1>6. EncodedIsCurrent'
    BY <1>1, SameSlabs DEF FastCommitInv, EncodedIsCurrent, Encoded
  <1> QED  BY <1>1, <1>4, <1>5, <1>6
           DEF FastCommitInv, CollectIsOnCourse, ApplyIsOnCourse

\* When encodings are applied nobody else is at work.
LEMMA ApplyIsAlone ==
    ASSUME StorageInv, FastCommitInv, main = "apply"
    PROVE  jobs = <<>> /\ results = <<>> /\ \A w \in Workers : ~ Busy(w)
  <1>1. ASSUME NEW id PROVE ~ InPool(id)
    <2>1. OwnedDeltas \subseteq SlabID
      BY DEF OwnedDeltas, OwnedIDs
    <2> QED  BY <2>1, PoolKeys DEF FastCommitInv, ApplyIsOnCourse
  <1> QED  BY <1>1, NoKeysNoWork DEF FastCommitInv, PoolIsCurrent

\* What is applied is what Commit would write.
LEMMA ApplyIsCommit ==
    ASSUME StorageInv, FastCommitInv, NEW id \in SlabID, Apply(id)
    PROVE  CommitRemoved(id) \/ CommitChanged(id)
  <1>1. /\ main = "apply" /\ NextKey(id)
        /\ ApplyRemoved(id) \/ ApplyChanged(id)
        /\ pending' = pending \ {id} /\ forsaken' = forsaken \ {id}
        /\ UNCHANGED <<heap, nextIndex, phase>>
    BY DEF Apply
  <1>2. id \in OwnedDeltas
    BY <1>1 DEF NextKey, StorageInv, CommitIsOnCourse
  <1>3. /\ encoded[id] # Absent /\ encoded[id] = Encoding(id).data
        /\ ~ Encoding(id).err
    BY <1>1, <1>2 DEF FastCommitInv, ApplyIsOnCourse, EncodedIsCurrent, Encoded
  <1>4. CASE deltas[id] = Nil
    <2>1. encoded[id] = Nil
      BY <1>2, <1>3, <1>4, EncodingParts
    <2> QED  BY <1>1, <1>4, <2>1
             DEF ApplyRemoved, ApplyChanged, CommitRemoved, SaveRemoved, Applied
  <1>5. CASE deltas[id] \in Objects
    <2>1. /\ encoded[id] \notin {Nil, Absent}
          /\ encoded[id] = EncodeSlab(heap[deltas[id]])
          /\ heap[deltas[id]].val \notin Unencodable
      BY <1>2, <1>3, <1>5, EncodingParts, ConstantsAssumption
    <2> QED  BY <1>1, <1>5, <2>1
             DEF ApplyRemoved, ApplyChanged, CommitChanged, SaveChanged, Applied
  <1> QED  BY <1>2, <1>4, <1>5, EncodingParts

\* Applying an encoding preserves the invariant: the others stay current.
LEMMA ApplyKeeps ==
    ASSUME StorageInv, FastCommitInv, NEW id \in SlabID, Apply(id)
    PROVE  FastCommitInv'
  <1>1. /\ main = "apply" /\ phase = "committing"
        /\ UNCHANGED <<heap, phase, main, encoded, awaited>>
        /\ UNCHANGED <<jobs, open, results, done, worker>>
        /\ deltas' = [deltas EXCEPT ![id] = Absent]
        /\ deltas \in [SlabID -> Entry]
    BY DEF Apply, ApplyRemoved, ApplyChanged, callVars, poolVars, NextKey,
           StorageInv, TypeOK
  <1>2. jobs = <<>> /\ results = <<>> /\ \A w \in Workers : ~ Busy(w)
    BY <1>1, ApplyIsAlone
  <1>3. /\ OwnedDeltas' \subseteq OwnedDeltas
        /\ \A k \in OwnedDeltas' : deltas'[k] = deltas[k]
    BY <1>1 DEF OwnedDeltas, OwnedIDs
  <1>4. \A k \in OwnedDeltas' : Encoding(k)' = Encoding(k)
    BY <1>1, <1>3 DEF Encoding
  <1>5. PoolIsCurrent'
    <2> DEFINE J == {Job(k) : k \in OwnedDeltas'}
               R == {Encoding(k)' : k \in OwnedDeltas'}
    <2>1. <<>> \in Seq(J) /\ <<>> \in Seq(R)
      <3> HIDE DEF J, R
      <3> QED  BY EmptySeq
    <2>2. \A w \in Workers : worker[w] \in {Gone, Waiting}
      BY <1>2 DEF FastCommitInv, PoolIsCurrent, PoolHolds, Busy
    <2>3. worker \in [Workers -> {Gone, Waiting} \cup [at : {"check", "work"}, job : J]]
      <3> HIDE DEF J
      <3> QED  BY <2>2 DEF FastCommitInv, PoolIsCurrent, PoolHolds
    <2>4. open \in BOOLEAN /\ done \in BOOLEAN
      BY DEF FastCommitInv, PoolIsCurrent, PoolHolds
    <2> QED  BY <1>1, <1>2, <2>1, <2>3, <2>4 DEF PoolIsCurrent, PoolHolds, Job
  <1>6. EachKeyOnce' /\ \A k : InPool(k)' => InPool(k)
    BY <1>1 DEF FastCommitInv, EachKeyOnce, Busy, InPool
  <1>7. EncodedIsCurrent'
    BY <1>1, <1>3, <1>4 DEF FastCommitInv, EncodedIsCurrent, Encoded
  <1>8. ApplyIsOnCourse'
    BY <1>1, <1>3, <1>6 DEF FastCommitInv, ApplyIsOnCourse, Encoded
  <1> QED  BY <1>1, <1>5, <1>6, <1>7, <1>8 DEF FastCommitInv, CollectIsOnCourse

\* The end of the loop that applies, with or without an error, preserves the
\* invariant.
LEMMA ApplyEndKeeps ==
    ASSUME StorageInv, FastCommitInv, ApplyError \/ ApplyEnd
    PROVE  FastCommitInv'
  <1>1. /\ main = "apply" /\ main' = "return"
        /\ UNCHANGED <<heap, deltas, jobs, open, results, done, worker, encoded, awaited>>
    BY DEF ApplyError, ApplyEnd, CommitError, CommitEnd, poolVars
  <1>2. PoolIsCurrent'
    BY <1>1, SameSlabs DEF FastCommitInv, PoolIsCurrent, PoolHolds
  <1>3. EncodedIsCurrent'
    BY <1>1, SameSlabs DEF FastCommitInv, EncodedIsCurrent, Encoded
  <1>4. EachKeyOnce'
    BY <1>1 DEF FastCommitInv, EachKeyOnce, Busy
  <1> QED  BY <1>1, <1>2, <1>3, <1>4
           DEF FastCommitInv, CollectIsOnCourse, ApplyIsOnCourse

\* Returning, dying, and everything between calls preserve the invariant.
LEMMA BetweenCallsKeeps ==
    ASSUME StorageInv, FastCommitInv, Return \/ RestartDuringCall \/ OtherStep
    PROVE  FastCommitInv'
  <1>1. CASE Return
    <2>1. worker = [w \in Workers |-> Gone]
      BY <1>1 DEF Return, Shutdown, AllGone, FastCommitInv, PoolIsCurrent, PoolHolds
    <2> QED  BY <1>1, <2>1, IdleSteps DEF Return, Shutdown, Idle, NothingEncoded
  <1>2. CASE RestartDuringCall
    BY <1>2, IdleSteps DEF RestartDuringCall, Kill, Idle, NothingEncoded
  <1>3. CASE OtherStep
    <2>1. /\ main = "idle" /\ Idle /\ encoded = NothingEncoded /\ awaited \in Nat
          /\ UNCHANGED <<jobs, open, results, done, worker, main, encoded, awaited>>
      BY <1>3 DEF OtherStep, FastCommitInv, poolVars, callVars
    <2> QED  BY <2>1, IdleSteps DEF Idle, NothingEncoded
  <1> QED  BY <1>1, <1>2, <1>3

-----------------------------------------------------------------------------
(* FastCommit implements Commit.                                           *)

\* Every step of FastCommit is a step of the storage with Commit, or none.
LEMMA StepIsCommitStep ==
    StorageInv /\ FastCommitInv /\ [FCNext]_fcVars => [Next]_vars
  <1> SUFFICES ASSUME StorageInv, FastCommitInv, [FCNext]_fcVars PROVE [Next]_vars
    OBVIOUS
  <1>1. CASE OtherStep
    BY <1>1 DEF OtherStep, Next
  <1>2. CASE FastCommitNothing \/ FastCommitBegin
    BY <1>2 DEF FastCommitNothing, FastCommitBegin, Next
  <1>3. ASSUME NEW w \in Workers, EncoderStep(w) PROVE [Next]_vars
    BY <1>3 DEF EncoderStep
  <1>4. CASE Collect1 \/ Return
    BY <1>4 DEF Collect1, Return
  <1>5. CASE CollectError \/ ApplyError \/ ApplyEnd
    BY <1>5 DEF CollectError, ApplyError, ApplyEnd, Next, CommitStep
  <1>6. ASSUME NEW id \in SlabID, Apply(id) PROVE [Next]_vars
    BY <1>6, ApplyIsCommit DEF Next, CommitStep
  <1>7. CASE RestartDuringCall
    BY <1>7 DEF RestartDuringCall, Next, DropStep
  <1>8. CASE UNCHANGED fcVars
    BY <1>8 DEF fcVars
  <1> QED  BY <1>1, <1>2, <1>3, <1>4, <1>5, <1>6, <1>7, <1>8
           DEF FCNext, FastCommitStep, MainStep

\* Every step preserves the invariant of the call.
LEMMA FastCommitInvStep ==
    StorageInv /\ FastCommitInv /\ [FCNext]_fcVars => FastCommitInv'
  <1> SUFFICES ASSUME StorageInv, FastCommitInv, [FCNext]_fcVars PROVE FastCommitInv'
    OBVIOUS
  <1>1. CASE UNCHANGED fcVars
    <2>1. /\ UNCHANGED <<heap, deltas, phase, pending>>
          /\ UNCHANGED <<jobs, open, results, done, worker, main, encoded, awaited>>
      BY <1>1 DEF fcVars, vars, poolVars, callVars
    <2>2. OwnedDeltas' = OwnedDeltas /\ Encoded' = Encoded
      BY <2>1, SameSlabs DEF Encoded
    <2>3. PoolIsCurrent'
      BY <2>1, SameSlabs DEF FastCommitInv, PoolIsCurrent, PoolHolds
    <2>4. EncodedIsCurrent'
      BY <2>1, <2>2, SameSlabs DEF FastCommitInv, EncodedIsCurrent
    <2>5. EachKeyOnce' /\ \A id : InPool(id)' <=> InPool(id)
      BY <2>1 DEF FastCommitInv, EachKeyOnce, Busy, InPool
    <2>6. CollectIsOnCourse' /\ ApplyIsOnCourse'
      BY <2>1, <2>2, <2>5 DEF FastCommitInv, CollectIsOnCourse, ApplyIsOnCourse
    <2> QED  BY <2>1, <2>3, <2>4, <2>5, <2>6 DEF FastCommitInv, Idle, NothingEncoded
  <1> QED  BY <1>1, BeginKeeps, NothingKeeps, EncoderKeeps, Collect1Keeps,
              CollectErrorKeeps, ApplyKeeps, ApplyEndKeeps, BetweenCallsKeeps
           DEF FCNext, FastCommitStep, MainStep

\* The calls start on a storage that is idle.
LEMMA FastCommitInvInit == FCInit => StorageInv /\ FastCommitInv
  BY InvInit, IdleIsFine DEF FCInit

\* The invariant that explains why the pool of encoders is harmless: in every
\* state each key of a call is in one place, and no encoding is out of date.
THEOREM FastCommitInvariant == FCSpec => [](StorageInv /\ FastCommitInv)
  <1>1. StorageInv /\ FastCommitInv /\ [FCNext]_fcVars
          => (StorageInv /\ FastCommitInv)'
    BY StepIsCommitStep, FastCommitInvStep, InvStep
  <1> QED  BY <1>1, FastCommitInvInit, PTL DEF FCSpec

\* FastCommit implements Commit: the base storage, the cache and the deltas go
\* through the same states, whatever the encoders do and wherever it stops.
THEOREM FastCommitIsCommit == FCSpec => ImplementsCommit
  <1>1. FCInit => Init
    BY DEF FCInit
  <1> QED  BY <1>1, FastCommitInvariant, StepIsCommitStep, PTL
           DEF FCSpec, Spec, ImplementsCommit

\* So what is proved of Commit holds with FastCommit in its place: reads are
\* coherent, a call that returned nil has saved everything, in the order of
\* the slab IDs, no slab ID in use is handed out again, and no unsaved change
\* is lost.
COROLLARY FastCommitIsSafe ==
    FCSpec => /\ []ReadsAreCoherent
              /\ []CommittedIsSaved
              /\ []IndexesAreFresh
              /\ WritesAreOrdered
              /\ ImplementsStore
  BY FastCommitIsCommit, Coherence, CommitSaves, FreshIndexes, OrderedWrites, Refinement, PTL
     DEF ImplementsCommit

-----------------------------------------------------------------------------
(* The goroutines.                                                         *)

\* No encoder reads the deltas map while it is written: the count is reached
\* when the pool is empty.
THEOREM NoRace == FCSpec => []NoRaceOnDeltas
  <1>1. StorageInv /\ FastCommitInv => NoRaceOnDeltas
    BY ApplyIsAlone DEF NoRaceOnDeltas, Busy
  <1> QED  BY <1>1, FastCommitInvariant, PTL

\* While results are awaited somebody is going to send one.
LEMMA CollectorIsServed ==
    ASSUME StorageInv, FastCommitInv, main = "collect", Workers # {}
    PROVE  Answering
  <1>1. /\ awaited \in Nat /\ awaited > 0 /\ Encoded \subseteq OwnedDeltas
        /\ \A id \in OwnedDeltas : id \in Encoded <=> ~ InPool(id)
        /\ awaited + Cardinality(Encoded) = Cardinality(OwnedDeltas)
        /\ jobs # <<>> => \E w \in Workers : worker[w] # Gone
    BY DEF FastCommitInv, CollectIsOnCourse
  <1>2. Cardinality(OwnedDeltas) \in Nat
    <2>1. OwnedDeltas \in SUBSET SlabID
      BY DEF OwnedDeltas, OwnedIDs
    <2> QED  BY <2>1, SlabIDsAreFinite, FS_Subset, FS_CardinalityType
  <1>3. Encoded # OwnedDeltas
    BY <1>1, <1>2
  <1>4. PICK id \in OwnedDeltas : InPool(id)
    BY <1>1, <1>3
  <1>5. CASE jobs # <<>>
    <2>1. PICK w \in Workers : worker[w] # Gone
      BY <1>1, <1>5
    <2>2. worker[w] = Waiting \/ Busy(w)
      BY <2>1 DEF FastCommitInv, PoolIsCurrent, PoolHolds, Busy
    <2> QED  BY <1>5, <2>2 DEF Answering
  <1>6. CASE jobs = <<>>
    BY <1>4, <1>6 DEF InPool, Answering
  <1> QED  BY <1>5, <1>6

\* No goroutine outlives the call or blocks on the results channel, and the
\* calling goroutine does not wait in vain.
THEOREM Contained == FCSpec => []GoroutinesAreContained
  <1>1. StorageInv /\ FastCommitInv => GoroutinesAreContained
    <2> SUFFICES ASSUME StorageInv, FastCommitInv PROVE GoroutinesAreContained
      OBVIOUS
    <2>1. main = "idle" => AllGone
      BY DEF FastCommitInv, Idle, AllGone
    <2>2. IsFiniteSet(OwnedDeltas)
      <3>1. OwnedDeltas \in SUBSET SlabID
        BY DEF OwnedDeltas, OwnedIDs
      <3> QED  BY <3>1, SlabIDsAreFinite, FS_Subset
    <2>3. Len(results) + Cardinality({w \in Workers : worker[w].at = "work"})
            <= Cardinality(OwnedDeltas)
      BY <2>2, PoolKeys, ResultsFit DEF FastCommitInv, PoolIsCurrent
    <2> QED  BY <2>1, <2>3, CollectorIsServed DEF GoroutinesAreContained
  <1> QED  BY <1>1, FastCommitInvariant, PTL

\* Nothing is written to the base storage in a call in which some slab cannot
\* be encoded.
THEOREM AllOrNothing == FCSpec => NothingSavedUnlessAllEncoded
  <1> DEFINE Fine == base' # base =>
                       \A id \in OwnedDeltas : deltas[id] \in Objects =>
                           heap[deltas[id]].val \notin Unencodable
  <1>1. StorageInv /\ FastCommitInv /\ [FCNext]_fcVars => [Fine]_fcVars
    <2> SUFFICES ASSUME StorageInv, FastCommitInv, [FCNext]_fcVars, base' # base,
                        NEW id \in OwnedDeltas, deltas[id] \in Objects
                 PROVE  heap[deltas[id]].val \notin Unencodable
      OBVIOUS
    <2>1. \E k \in SlabID : Apply(k)
      BY DEF FCNext, OtherStep, ContainerStep, Create, Update, Remove, SplitRoot,
             PromoteChild, ReadStep, Retrieve, RetrieveIgnoringDeltas,
             BatchPreloadBegin, BatchPreloadSlab, BatchPreloadSkip,
             BatchPreloadEnd, DropStep, DropDeltas, DropCache, Collect, Restart,
             FastCommitNothing, FastCommitBegin, CommitBegin, FastCommitStep,
             MainStep, Collect1, CollectError, ApplyError, CommitError, ApplyEnd,
             CommitEnd, Return, EncoderStep, RestartDuringCall, vars, fcVars
    <2>2. id \in Encoded
      BY <2>1 DEF Apply, FastCommitInv, ApplyIsOnCourse
    <2> QED  BY <2>2, EncodingParts DEF FastCommitInv, EncodedIsCurrent
  <1> QED  BY <1>1, FastCommitInvariant, PTL DEF FCSpec, NothingSavedUnlessAllEncoded
=============================================================================
