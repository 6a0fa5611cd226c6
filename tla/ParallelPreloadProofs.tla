----------------------- MODULE ParallelPreloadProofs ------------------------
(***************************************************************************)
(* Proofs about the parallel BatchPreload for any addresses, objects,      *)
(* contents and any number of goroutines: it fills the cache exactly as    *)
(* the sequential one does, and completely.                                *)
(***************************************************************************)
EXTENDS ParallelPreload, SlabStorageProofs

\* What the pool may hold.
Jobs      == {Job(id) : id \in Found}
Decodings == {Decoding(Job(id)) : id \in Found}

-----------------------------------------------------------------------------
(* Found slabs, their jobs and what they decode to.                        *)

\* What a job for a found slab and a decoder's answer to it are.
LEMMA FoundParts ==
    ASSUME NEW id \in Found
    PROVE  /\ id \in wanted /\ base[id] # Absent
           /\ Job(id).slabID = id
           /\ Decoding(Job(id)).slabID = id
           /\ Decoding(Job(id)).slab = DecodeSlab(id, base[id])
  <1>1. Job(id).slabID = id /\ Job(id).data = base[id]
    BY DEF Job
  <1> QED  BY <1>1 DEF Found, Decoding

\* What the pool may hold does not change during a call.
LEMMA SameFound ==
    ASSUME UNCHANGED <<base, wanted>>
    PROVE  Found' = Found /\ Jobs' = Jobs /\ Decodings' = Decodings
  <1>1. Found' = Found
    BY DEF Found
  <1>2. ASSUME NEW id PROVE Job(id)' = Job(id) /\ Decoding(Job(id))' = Decoding(Job(id))
    BY DEF Job, Decoding
  <1> QED  BY <1>1, <1>2 DEF Jobs, Decodings

\* A key in the pool is that of a found slab.
LEMMA PoolKeys ==
    ASSUME PoolIsCurrent, NEW id, InPool(id)
    PROVE  id \in Found
  <1>0. PoolHolds(Jobs, Decodings)
    BY DEF PoolIsCurrent, Jobs, Decodings
  <1>1. /\ \A j \in Jobs : j.slabID \in Found
        /\ \A r \in Decodings : r.slabID \in Found
    BY FoundParts DEF Jobs, Decodings
  <1>2. ASSUME NEW i \in DOMAIN jobs PROVE jobs[i].slabID \in Found
    BY <1>0, <1>1, <1>2, LenProperties, ElementOfSeq DEF PoolHolds
  <1>3. ASSUME NEW i \in DOMAIN results PROVE results[i].slabID \in Found
    BY <1>0, <1>1, <1>3, LenProperties, ElementOfSeq DEF PoolHolds
  <1>4. ASSUME NEW w \in Workers, Busy(w) PROVE worker[w].job.slabID \in Found
    BY <1>0, <1>1, <1>4 DEF PoolHolds, Busy, Gone, Waiting
  <1> QED  BY <1>2, <1>3, <1>4 DEF InPool

\* Sets of slab IDs can be counted.
LEMMA CountIDs ==
    ASSUME NEW S \in SUBSET SlabID
    PROVE  /\ IsFiniteSet(S) /\ Cardinality(S) \in Nat
           /\ Cardinality(S) = 0 <=> S = {}
  BY SlabIDsAreFinite, FS_Subset, FS_CardinalityType, FS_EmptySet

-----------------------------------------------------------------------------
(* One lemma per step of the call.                                         *)

\* Between calls there is no pool.
NoPool == main = "idle" /\ Idle /\ wanted \subseteq SlabID /\ jobCount \in Nat

\* The invariant holds then.
LEMMA NoPoolIsFine == NoPool => PPInv
  <1> SUFFICES ASSUME NoPool PROVE PPInv
    OBVIOUS
  <1>1. PoolIsCurrent
    BY EmptySeq DEF PoolIsCurrent, PoolHolds, Idle, NoPool
  <1>2. EachKeyOnce
    BY DEF EachKeyOnce, Idle, Busy, Gone, NoPool
  <1> QED  BY <1>1, <1>2 DEF PPInv, PreloadIsOnCourse, NoPool

\* The steps that lead to such a state.
LEMMA NoPoolSteps == NoPool' => PPInv'
  <1>1. (NoPool => PPInv)'
    BY NoPoolIsFine, PTL
  <1> QED  BY <1>1

\* Returning, dying, and everything between calls leave no pool behind.
LEMMA BetweenCallsKeeps ==
    ASSUME StorageInv, PPInv, Return \/ RestartDuringCall \/ OtherStep
    PROVE  PPInv'
  <1>1. CASE Return
    <2>1. worker = [w \in Workers |-> Gone]
      BY <1>1 DEF Return, Shutdown, AllGone, PPInv, PoolIsCurrent, PoolHolds
    <2> QED  BY <1>1, <2>1, NoPoolSteps DEF NoPool, Return, Shutdown, Idle
  <1>2. CASE RestartDuringCall
    BY <1>2, NoPoolSteps DEF NoPool, RestartDuringCall, Kill, Idle
  <1>3. CASE OtherStep
    BY <1>3, NoPoolSteps DEF NoPool, OtherStep, PPInv, Idle, poolVars, callVars
  <1> QED  BY <1>1, <1>2, <1>3

\* A call starts with everything unread.
LEMMA BeginKeeps ==
    ASSUME StorageInv, PPInv, NEW ids \in SUBSET SlabID, Begin(ids)
    PROVE  PPInv'
  <1>1. /\ Idle /\ ids # {} /\ phase' = "preloading" /\ pending' = ids
        /\ base' = base
        /\ Launch(Cardinality(ids)) /\ open' = TRUE
        /\ main' = "send" /\ wanted' = ids /\ unread' = ids /\ jobCount' = 0
        /\ UNCHANGED <<jobs, results, done>>
    BY DEF PPInv, Begin, BatchPreloadBegin
  <1>2. jobs = <<>> /\ results = <<>> /\ done = FALSE
    BY <1>1 DEF Idle
  <1>3. Cardinality(ids) \in Nat /\ Cardinality(ids) > 0
    BY <1>1, CountIDs
  <1>4. open' \in BOOLEAN /\ done' \in BOOLEAN
    BY <1>1, <1>2, Zenon
  <1>5. \E J, R : /\ J = Jobs' /\ R = Decodings'
                  /\ PoolHolds(J, R)' /\ EachKeyOnce'
                  /\ \A id : ~ InPool(id)'
                  /\ Workers # {} => \E w \in Workers : worker'[w] # Gone
    BY <1>1, <1>2, <1>3, <1>4, LaunchStarts
  <1>6. PoolHolds(Jobs, Decodings)'
    BY <1>5 DEF PoolHolds
  <1>7. PreloadIsOnCourse'
    <2>1. pending' \ unread' = {} /\ Cardinality(pending' \ unread') = 0
      BY <1>1, FS_EmptySet
    <2>2. Found' \ pending' = {}
      BY <1>1 DEF Found
    <2> QED  BY <1>1, <1>2, <1>5, <2>1, <2>2 DEF PreloadIsOnCourse
  <1> QED  BY <1>1, <1>5, <1>6, <1>7 DEF PPInv, PoolIsCurrent, Jobs, Decodings

\* A slab that is found goes into the pool, and is counted.
LEMMA ReadAndSendKeeps ==
    ASSUME StorageInv, PPInv, NEW k \in SlabID, ReadAndSend(k)
    PROVE  PPInv'
  <1>1. /\ main = "send" /\ k \in unread /\ base[k] # Absent
        /\ jobs' = Append(jobs, Job(k))
        /\ jobCount' = jobCount + 1 /\ unread' = unread \ {k}
        /\ UNCHANGED <<base, cache, phase, pending>>
        /\ UNCHANGED <<open, results, done, worker, main, wanted>>
    BY DEF ReadAndSend, vars
  <1>2. /\ phase = "preloading" /\ ~ done /\ open /\ jobCount \in Nat
        /\ wanted \subseteq SlabID
        /\ unread \subseteq pending /\ pending \subseteq wanted
        /\ \A id \in SlabID : InPool(id) <=> id \in pending \ unread
        /\ jobCount = Cardinality(pending \ unread)
        /\ \A id \in Found \ pending : cache[id] \in Objects
        /\ Workers # {} => \E w \in Workers : worker[w] # Gone
    BY <1>1 DEF PPInv, PreloadIsOnCourse
  <1>3. PoolHolds(Jobs, Decodings) /\ EachKeyOnce /\ open' \in BOOLEAN
    BY <1>1 DEF PPInv, PoolIsCurrent, PoolHolds, Jobs, Decodings
  <1>4. k \in Found /\ Job(k) \in Jobs /\ Job(k).slabID = k /\ ~ InPool(k)
    <2>1. k \in Found
      BY <1>1, <1>2 DEF Found
    <2> QED  BY <1>1, <1>2, <2>1, FoundParts DEF Jobs
  <1>5. Found' = Found /\ Jobs' = Jobs /\ Decodings' = Decodings
    BY <1>1, SameFound
  <1>6. /\ PoolHolds(Jobs, Decodings)' /\ EachKeyOnce'
        /\ \A id : InPool(id)' <=> InPool(id) \/ id = k
    BY <1>1, <1>3, <1>4, <1>5, QueueKeeps
  <1>7. jobCount' = Cardinality(pending' \ unread')
    <2>1. pending' \ unread' = (pending \ unread) \cup {k} /\ k \notin pending \ unread
      BY <1>1, <1>2
    <2>2. IsFiniteSet(pending \ unread) /\ Cardinality(pending \ unread) \in Nat
      BY <1>2, CountIDs
    <2>3. Cardinality((pending \ unread) \cup {k}) = Cardinality(pending \ unread) + 1
      BY <2>1, <2>2, FS_AddElement
    <2> QED  BY <1>1, <1>2, <2>1, <2>3
  <1>8. PreloadIsOnCourse'
    BY <1>1, <1>2, <1>5, <1>6, <1>7 DEF PreloadIsOnCourse
  <1> QED  BY <1>1, <1>2, <1>6, <1>8 DEF PPInv, PoolIsCurrent, Jobs, Decodings

\* The steps of the calling goroutine that leave the pool alone.
LEMMA PoolStays ==
    ASSUME PPInv, UNCHANGED <<base, wanted, jobs, results, worker>>,
           open' \in BOOLEAN, done' \in BOOLEAN
    PROVE  /\ PoolIsCurrent' /\ EachKeyOnce'
           /\ \A id : InPool(id)' <=> InPool(id)
           /\ Found' = Found
  <1>1. Found' = Found /\ Jobs' = Jobs /\ Decodings' = Decodings
    BY SameFound
  <1>2. PoolHolds(Jobs, Decodings)'
    BY <1>1 DEF PPInv, PoolIsCurrent, PoolHolds, Jobs, Decodings
  <1>3. EachKeyOnce' /\ \A id : InPool(id)' <=> InPool(id)
    BY DEF PPInv, EachKeyOnce, Busy, InPool
  <1> QED  BY <1>1, <1>2, <1>3 DEF PoolIsCurrent, Jobs, Decodings

\* A slab that is not found is neither sent nor counted.
LEMMA ReadMissingKeeps ==
    ASSUME StorageInv, PPInv, NEW k \in SlabID, ReadMissing(k)
    PROVE  PPInv'
  <1>1. /\ main = "send" /\ k \in unread /\ base[k] = Absent
        /\ unread' = unread \ {k} /\ pending' = pending \ {k}
        /\ UNCHANGED <<base, cache, phase>>
        /\ UNCHANGED <<jobs, open, results, done, worker, main, wanted, jobCount>>
    BY DEF ReadMissing, BatchPreloadSkip, poolVars
  <1>2. open \in BOOLEAN /\ done \in BOOLEAN
    BY DEF PPInv, PoolIsCurrent, PoolHolds
  <1>3. /\ PoolIsCurrent' /\ EachKeyOnce' /\ Found' = Found
        /\ \A id : InPool(id)' <=> InPool(id)
    BY <1>1, <1>2, PoolStays
  <1>4. pending' \ unread' = pending \ unread /\ k \notin Found
    BY <1>1 DEF PPInv, PreloadIsOnCourse, Found
  <1>5. PreloadIsOnCourse'
    BY <1>1, <1>3, <1>4 DEF PPInv, PreloadIsOnCourse
  <1> QED  BY <1>1, <1>3, <1>5 DEF PPInv

\* The calling goroutine moves on: the pool stays as it is.
LEMMA MovingOnKeeps ==
    ASSUME StorageInv, PPInv,
           \/ AllSent
           \/ End
           \/ CloseJobs
           \/ Error /\ main = "send"
           \/ UNCHANGED ppVars
    PROVE  PPInv'
  <1>1. /\ UNCHANGED <<base, cache, jobs, results, worker, wanted, unread, jobCount>>
        /\ open' \in BOOLEAN /\ done' \in BOOLEAN
    BY DEF AllSent, End, CloseJobs, Error, BatchPreloadEnd, ppVars, vars,
           poolVars, callVars, PPInv, PoolIsCurrent, PoolHolds
  <1>2. /\ PoolIsCurrent' /\ EachKeyOnce' /\ Found' = Found
        /\ \A id : InPool(id)' <=> InPool(id)
    BY <1>1, PoolStays
  <1>3. CASE AllSent
    <2>1. PreloadIsOnCourse'
      BY <1>1, <1>2, <1>3 DEF PPInv, PreloadIsOnCourse, AllSent, vars, poolVars
    <2> QED  BY <1>1, <1>2, <1>3, <2>1 DEF PPInv, AllSent, vars
  <1>4. CASE End \/ CloseJobs \/ (Error /\ main = "send")
    <2>1. main' \in {"return", "wait"} /\ phase' = "idle"
      BY <1>4 DEF End, CloseJobs, Error, BatchPreloadEnd, PPInv, vars
    <2> QED  BY <1>1, <1>2, <2>1 DEF PPInv, PreloadIsOnCourse
  <1>5. CASE UNCHANGED ppVars
    <2>1. UNCHANGED <<main, phase, pending, done, open>>
      BY <1>5 DEF ppVars, vars, poolVars, callVars
    <2>2. PreloadIsOnCourse'
      BY <1>1, <1>2, <2>1 DEF PPInv, PreloadIsOnCourse
    <2> QED  BY <1>1, <1>2, <2>1, <2>2 DEF PPInv, Idle
  <1> QED  BY <1>3, <1>4, <1>5

\* An error among the results stops the decoders.
LEMMA ResultErrorKeeps ==
    ASSUME StorageInv, PPInv, Error, main = "collect"
    PROVE  PPInv'
  <1>1. /\ Collected /\ done' = TRUE /\ main' = "return" /\ phase' = "idle"
        /\ UNCHANGED <<base, jobs, open, worker, wanted, jobCount>>
    BY DEF Error, BatchPreloadEnd
  <1>2. PoolHolds(Jobs, Decodings) /\ EachKeyOnce
    BY DEF PPInv, PoolIsCurrent, Jobs, Decodings
  <1>3. Jobs' = Jobs /\ Decodings' = Decodings
    BY <1>1, SameFound
  <1>4. PoolHolds(Jobs, Decodings)' /\ EachKeyOnce'
    BY <1>1, <1>2, <1>3, CollectedKeeps
  <1> QED  BY <1>1, <1>4 DEF PPInv, PreloadIsOnCourse, PoolIsCurrent, Jobs, Decodings

\* A step of a decoder moves a key; while the queue is open no decoder leaves.
LEMMA DecoderKeeps ==
    ASSUME StorageInv, PPInv, NEW w \in Workers, DecoderStep(w)
    PROVE  PPInv'
  <1>1. PoolHolds(Jobs, Decodings) /\ EachKeyOnce
    BY DEF PPInv, PoolIsCurrent, Jobs, Decodings
  <1>2. UNCHANGED <<base, cache, phase, pending, main, wanted, unread, jobCount>>
    BY DEF DecoderStep, vars, callVars
  <1>3. UNCHANGED <<open, done>>
    BY DEF DecoderStep, Receive, Finish, Check, Send
  <1>4. main # "idle"
    <2> SUFFICES ASSUME main = "idle" PROVE FALSE
      OBVIOUS
    <2>1. worker[w] = Gone
      BY DEF PPInv, Idle
    <2> QED  BY <2>1 DEF DecoderStep, Receive, Finish, Check, Send, Gone, Waiting
  <1>5. Found' = Found /\ Jobs' = Jobs /\ Decodings' = Decodings
    BY <1>2, SameFound
  <1>6. /\ PoolHolds(Jobs, Decodings)' /\ EachKeyOnce'
        /\ ~ done => \A id : InPool(id)' <=> InPool(id)
        /\ ~ done /\ open => \E v \in Workers : worker'[v] # Gone
    <2> USE <1>1, <1>5
    <2>1. CASE Receive(w)
      <3>1. worker'[w].at = "check"
        BY <2>1 DEF Receive, PoolHolds
      <3> QED  BY <2>1, <3>1, ReceiveKeeps DEF Gone
    <2>2. CASE Finish(w)
      <3>1. ~ open
        BY <2>2 DEF Finish
      <3> QED  BY <2>2, <3>1, FinishKeeps
    <2>3. CASE Check(w)
      BY <2>3, CheckKeeps
    <2>4. CASE Send(w, Decoding(worker[w].job))
      <3> DEFINE r == Decoding(worker[w].job)
      <3>1. worker[w].job \in Jobs
        BY <2>4 DEF Send, PoolHolds, Gone, Waiting
      <3>2. PICK k \in Found : worker[w].job = Job(k)
        BY <3>1 DEF Jobs
      <3>3. r \in Decodings /\ r.slabID = worker[w].job.slabID
        BY <3>2, FoundParts DEF Decodings
      <3> HIDE DEF r
      <3>4. Send(w, r)
        BY <2>4 DEF r
      <3>5. worker'[w].at = "range"
        BY <3>4 DEF Send, PoolHolds, Waiting
      <3> QED  BY <3>3, <3>4, <3>5, SendKeeps DEF Gone
    <2> QED  BY <2>1, <2>2, <2>3, <2>4 DEF DecoderStep
  <1>7. PreloadIsOnCourse'
    BY <1>2, <1>3, <1>5, <1>6 DEF PreloadIsOnCourse, PPInv
  <1> QED  BY <1>1, <1>2, <1>3, <1>4, <1>6, <1>7
           DEF PPInv, PoolIsCurrent, Jobs, Decodings

-----------------------------------------------------------------------------
(* What is collected.                                                      *)

\* A result without an error is what the base storage has under an ID that is
\* still to be done: caching it is what the sequential loop does.
LEMMA CacheResultLoads ==
    ASSUME StorageInv, PPInv, NEW o \in Objects, CacheResult(o)
    PROVE  /\ Head(results).slabID \in Found
           /\ BatchPreloadSlab(Head(results).slabID, o)
  <1> DEFINE k == Head(results).slabID
  <1>1. /\ main = "collect" /\ results # <<>> /\ o \in Unused
        /\ heap' = [heap EXCEPT ![o] = Head(results).slab]
        /\ cache' = [cache EXCEPT ![k] = o]
        /\ pending' = pending \ {k} /\ forsaken' = forsaken \ {k}
        /\ UNCHANGED <<deltas, base, nextIndex, phase>>
    BY DEF CacheResult, Collected
  <1>2. Head(results) \in Decodings /\ Head(results) = results[1] /\ 1 \in DOMAIN results
    BY <1>1, ChannelParts DEF PPInv, PoolIsCurrent, PoolHolds, Decodings
  <1>3. PICK id \in Found : Head(results) = Decoding(Job(id))
    BY <1>2 DEF Decodings
  <1>4. k = id /\ Head(results).slab = DecodeSlab(id, base[id]) /\ base[id] # Absent
    BY <1>3, FoundParts
  <1>5. phase = "preloading" /\ k \in pending
    <2>1. InPool(k)
      BY <1>2 DEF InPool
    <2>2. k \in SlabID
      BY <1>4, FoundParts DEF PPInv
    <2> QED  BY <1>1, <2>1, <2>2 DEF PPInv, PreloadIsOnCourse
  <1> HIDE DEF k
  <1>6. BatchPreloadSlab(k, o)
    BY <1>1, <1>4, <1>5 DEF BatchPreloadSlab
  <1> QED  BY <1>4, <1>6 DEF k

\* It takes its key out of the pool, counts it and leaves it in the cache.
LEMMA CacheResultKeeps ==
    ASSUME StorageInv, PPInv, NEW o \in Objects, CacheResult(o)
    PROVE  PPInv'
  <1> DEFINE k == Head(results).slabID
  <1>1. /\ main = "collect" /\ Collected /\ jobCount' = jobCount - 1
        /\ cache' = [cache EXCEPT ![k] = o] /\ cache \in [SlabID -> Entry]
        /\ pending' = pending \ {k}
        /\ UNCHANGED <<base, phase, jobs, open, done, worker, main, wanted, unread>>
    BY DEF CacheResult, StorageInv, TypeOK
  <1>2. /\ phase = "preloading" /\ ~ done /\ open /\ jobCount \in Nat
        /\ wanted \subseteq SlabID
        /\ unread = {} /\ pending \subseteq wanted
        /\ \A id \in SlabID : InPool(id) <=> id \in pending
        /\ jobCount = Cardinality(pending)
        /\ \A id \in Found \ pending : cache[id] \in Objects
        /\ Workers # {} => \E w \in Workers : worker[w] # Gone
    <2>1. pending \ {} = pending
      OBVIOUS
    <2> QED  BY <1>1, <2>1 DEF PPInv, PreloadIsOnCourse
  <1>3. PoolHolds(Jobs, Decodings) /\ EachKeyOnce /\ done \in BOOLEAN
    BY DEF PPInv, PoolIsCurrent, PoolHolds, Jobs, Decodings
  <1>4. Found' = Found /\ Jobs' = Jobs /\ Decodings' = Decodings
    BY <1>1, SameFound
  <1>5. k \in Found /\ k \in SlabID /\ k \in pending
    <2>1. k \in Found /\ k \in pending
      BY CacheResultLoads DEF BatchPreloadSlab
    <2> QED  BY <1>2, <2>1
  <1>6. /\ PoolHolds(Jobs, Decodings)' /\ EachKeyOnce'
        /\ \A id : InPool(id)' <=> InPool(id) /\ id # k
    BY <1>1, <1>3, <1>4, CollectedKeeps
  <1> HIDE DEF k
  <1>7. jobCount' \in Nat /\ jobCount' = Cardinality(pending' \ unread')
    <2>1. /\ IsFiniteSet(pending) /\ Cardinality(pending) \in Nat
          /\ Cardinality(pending) # 0
      BY <1>2, <1>5, CountIDs
    <2>2. Cardinality(pending \ {k}) = Cardinality(pending) - 1
      BY <1>5, <2>1, FS_RemoveElement
    <2>3. pending' \ unread' = pending \ {k}
      BY <1>1, <1>2
    <2> QED  BY <1>1, <1>2, <2>1, <2>2, <2>3
  <1>8. \A id \in Found' \ pending' : cache'[id] \in Objects
    BY <1>1, <1>2, <1>4 DEF Found
  <1>9. PreloadIsOnCourse'
    BY <1>1, <1>2, <1>6, <1>7, <1>8 DEF PreloadIsOnCourse
  <1> QED  BY <1>1, <1>2, <1>6, <1>7, <1>9 DEF PPInv, PoolIsCurrent, Jobs, Decodings

-----------------------------------------------------------------------------
(* The parallel BatchPreload is the sequential one.                        *)

\* Every step of a call is a step of the sequential BatchPreload, or none.
LEMMA CallStepIsReadStep ==
    ASSUME StorageInv, PPInv,
           \/ \E ids \in SUBSET SlabID : Begin(ids)
           \/ MainStep
           \/ \E w \in Workers : DecoderStep(w)
           \/ UNCHANGED ppVars
    PROVE  [ReadStep]_vars
  <1>1. ASSUME NEW ids \in SUBSET SlabID, Begin(ids) PROVE ReadStep
    BY <1>1 DEF Begin, ReadStep
  <1>2. ASSUME NEW w \in Workers, DecoderStep(w) PROVE UNCHANGED vars
    BY <1>2 DEF DecoderStep
  <1>3. ASSUME NEW id \in SlabID, ReadAndSend(id) PROVE UNCHANGED vars
    BY <1>3 DEF ReadAndSend
  <1>4. ASSUME NEW id \in SlabID, ReadMissing(id) PROVE ReadStep
    BY <1>4 DEF ReadMissing, ReadStep
  <1>5. CASE AllSent \/ CloseJobs \/ Return \/ UNCHANGED ppVars
    BY <1>5 DEF AllSent, CloseJobs, Return, ppVars
  <1>6. ASSUME NEW o \in Objects, CacheResult(o) PROVE ReadStep
    <2>1. Head(results).slabID \in SlabID
      BY <1>6, CacheResultLoads, FoundParts DEF PPInv
    <2> QED  BY <1>6, <2>1, CacheResultLoads DEF ReadStep
  <1>7. CASE Error \/ End
    BY <1>7 DEF Error, End, ReadStep
  <1> QED  BY <1>1, <1>2, <1>3, <1>4, <1>5, <1>6, <1>7 DEF MainStep

\* Every step is a step of the storage, or none.
LEMMA StepIsStorageStep ==
    StorageInv /\ PPInv /\ [LifeNext]_ppVars => [Next]_vars
  <1> SUFFICES ASSUME StorageInv, PPInv, [LifeNext]_ppVars PROVE [Next]_vars
    OBVIOUS
  <1>1. CASE OtherStep \/ RestartDuringCall
    BY <1>1 DEF OtherStep, RestartDuringCall, Next, DropStep
  <1>2. CASE ~ (OtherStep \/ RestartDuringCall)
    BY <1>2, CallStepIsReadStep DEF LifeNext, Next
  <1> QED  BY <1>1, <1>2

\* Every step preserves both invariants.
LEMMA LifeStep ==
    StorageInv /\ PPInv /\ [LifeNext]_ppVars => StorageInv' /\ PPInv'
  <1> SUFFICES ASSUME StorageInv, PPInv, [LifeNext]_ppVars
               PROVE  StorageInv' /\ PPInv'
    OBVIOUS
  <1>1. StorageInv'
    BY StepIsStorageStep, InvStep
  <1>2. ASSUME Error PROVE PPInv'
    <2>1. main = "send" \/ main = "collect"
      BY <1>2 DEF Error
    <2> QED  BY <1>2, <2>1, MovingOnKeeps, ResultErrorKeeps
  <1>3. PPInv'
    BY <1>2, BeginKeeps, ReadAndSendKeeps, ReadMissingKeeps, MovingOnKeeps,
       CacheResultKeeps, DecoderKeeps, BetweenCallsKeeps DEF LifeNext, MainStep
  <1> QED  BY <1>1, <1>3

\* In every state of a call each found slab is in one place, and no job or
\* answer in the pool is out of date.
THEOREM LifeInvariant == LifeSpec => [](StorageInv /\ PPInv)
  <1>1. Init /\ Inactive => StorageInv /\ PPInv
    BY InvInit, NoPoolIsFine DEF Inactive, NoPool
  <1> QED  BY <1>1, LifeStep, PTL DEF LifeSpec

\* A storage that is preloaded in parallel is a storage: what is proved of it
\* with the sequential loop holds with the pool of decoders in its place.
THEOREM ParallelIsSequential == LifeSpec => Spec
  BY LifeInvariant, StepIsStorageStep, PTL DEF LifeSpec, Spec

\* Reads stay coherent, commits complete and slab IDs fresh, and no unsaved
\* change is lost, wherever a call stops.
COROLLARY PreloadIsSafe ==
    LifeSpec => /\ []ReadsAreCoherent
                /\ []CommittedIsSaved
                /\ []IndexesAreFresh
                /\ ImplementsStore
  BY ParallelIsSequential, Coherence, CommitSaves, FreshIndexes, Refinement, PTL

-----------------------------------------------------------------------------
(* One call on a storage that has cached nothing.                          *)

\* The calls start in states that satisfy the invariants.
LEMMA CallInitIsFine == CallInit => StorageInv /\ PPInv /\ CacheIsPreloaded
  <1> SUFFICES ASSUME CallInit PROVE StorageInv /\ PPInv /\ CacheIsPreloaded
    OBVIOUS
  <1> USE ConstantsAssumption
  <1>1. PPInv
    BY NoPoolIsFine DEF CallInit, Inactive, NoPool
  <1>2. \A a \in Address : MaxIndex[a] \in Nat /\ MaxIndex[a] <= MaxIndex[a]
    OBVIOUS
  <1>3. \A id \in SlabID : id[2] <= MaxIndex[id[1]] /\ id[2] \in Nat /\ MaxIndex[id[1]] \in Nat
    BY DEF SlabID
  <1>4. TypeOK
    BY <1>2 DEF CallInit, TypeOK, Entry, Phases
  <1>5. DeltasAreFiled /\ CacheIsAlive /\ CacheMatchesBase /\ CommitIsOnCourse /\ TempIsNotSaved
    BY DEF CallInit, DeltasAreFiled, CacheIsAlive, CacheMatchesBase,
           CommitIsOnCourse, TempIsNotSaved
  <1>6. UnallocatedIsUnused
    BY <1>3 DEF CallInit, UnallocatedIsUnused
  <1>7. CacheIsPreloaded
    BY DEF CallInit, CacheIsPreloaded
  <1> QED  BY <1>1, <1>4, <1>5, <1>6, <1>7 DEF StorageInv

\* A call caches objects that are new, each with what was read for its ID.
LEMMA CachePreloadedStep ==
    ASSUME StorageInv, PPInv, CacheIsPreloaded, [CallNext]_ppVars
    PROVE  CacheIsPreloaded'
  <1>1. CASE UNCHANGED <<heap, cache, base>>
    BY <1>1 DEF CacheIsPreloaded
  <1>2. ASSUME NEW o \in Objects, CacheResult(o) PROVE CacheIsPreloaded'
    <2> DEFINE k == Head(results).slabID
    <2>1. /\ base[k] # Absent /\ heap[o] = Absent /\ base' = base
          /\ heap' = [heap EXCEPT ![o] = DecodeSlab(k, base[k])]
          /\ cache' = [cache EXCEPT ![k] = o]
      BY <1>2, CacheResultLoads DEF BatchPreloadSlab, Unused
    <2> HIDE DEF k
    <2> QED  BY <2>1 DEF CacheIsPreloaded, StorageInv, CacheIsAlive, TypeOK
  <1>3. ASSUME ~ \E o \in Objects : CacheResult(o)
        PROVE  UNCHANGED <<heap, cache, base>>
    BY <1>3 DEF CallNext, Begin, BatchPreloadBegin, MainStep, ReadAndSend,
                ReadMissing, BatchPreloadSkip, AllSent, Error, End,
                BatchPreloadEnd, CloseJobs, Return, DecoderStep, ppVars, vars
  <1> QED  BY <1>1, <1>2, <1>3

\* The invariant of such a call.
THEOREM CallInvariant == CallSpec => [](StorageInv /\ PPInv /\ CacheIsPreloaded)
  <1>1. StorageInv /\ PPInv /\ CacheIsPreloaded /\ [CallNext]_ppVars
          => StorageInv' /\ PPInv' /\ CacheIsPreloaded'
    <2> SUFFICES ASSUME StorageInv, PPInv, CacheIsPreloaded, [CallNext]_ppVars
                 PROVE  StorageInv' /\ PPInv' /\ CacheIsPreloaded'
      OBVIOUS
    <2>1. [LifeNext]_ppVars
      BY DEF CallNext, LifeNext
    <2> QED  BY <2>1, LifeStep, CachePreloadedStep
  <1> QED  BY <1>1, CallInitIsFine, PTL DEF CallSpec

\* The parallel BatchPreload takes the steps of the sequential one.
THEOREM PreloadRefinement == CallSpec => ImplementsBatchPreload
  <1>1. StorageInv /\ PPInv /\ [CallNext]_ppVars => [ReadStep]_vars
    BY CallStepIsReadStep DEF CallNext
  <1> QED  BY <1>1, CallInvariant, PTL DEF CallSpec, ImplementsBatchPreload

\* A call that ran to its end has cached what was asked for and is there.
THEOREM Completeness == CallSpec => []PreloadIsComplete
  <1>1. StorageInv /\ PPInv /\ CacheIsPreloaded => PreloadIsComplete
    <2> SUFFICES ASSUME StorageInv, PPInv, CacheIsPreloaded PROVE PreloadIsComplete
      OBVIOUS
    <2>1. ASSUME main = "collect" PROVE jobCount = Cardinality(pending)
      <3>1. unread = {} /\ jobCount = Cardinality(pending \ unread)
        BY <2>1 DEF PPInv, PreloadIsOnCourse
      <3>2. pending \ unread = pending
        BY <3>1
      <3> QED  BY <3>1, <3>2
    <2>2. ASSUME main = "collect", jobCount = 0, NEW id \in wanted
          PROVE  cache[id] \in Objects <=> base[id] # Absent
      <3>1. /\ wanted \subseteq SlabID /\ pending \subseteq wanted
            /\ \A k \in Found \ pending : cache[k] \in Objects
        BY <2>2 DEF PPInv, PreloadIsOnCourse
      <3>2. pending = {}
        BY <2>1, <2>2, <3>1, CountIDs
      <3> QED  BY <3>1, <3>2 DEF Found, CacheIsPreloaded
    <2> QED  BY <2>1, <2>2 DEF PreloadIsComplete, CacheIsPreloaded
  <1> QED  BY <1>1, CallInvariant, PTL

-----------------------------------------------------------------------------
(* The goroutines.                                                         *)

\* While results are awaited somebody is going to send one.
LEMMA CollectorIsServed ==
    ASSUME PPInv, main = "collect", jobCount > 0, Workers # {}
    PROVE  Answering
  <1>1. /\ jobCount = Cardinality(pending \ unread)
        /\ wanted \subseteq SlabID /\ pending \subseteq wanted
        /\ \A id \in SlabID : InPool(id) <=> id \in pending \ unread
        /\ \E w \in Workers : worker[w] # Gone
    BY DEF PPInv, PreloadIsOnCourse
  <1>2. PICK id \in pending \ unread : InPool(id)
    BY <1>1, CountIDs, FS_EmptySet
  <1>3. CASE jobs # <<>>
    <2>1. PICK w \in Workers : worker[w] # Gone
      BY <1>1
    <2>2. worker[w] = Waiting \/ Busy(w)
      BY <2>1 DEF PPInv, PoolIsCurrent, PoolHolds, Busy
    <2> QED  BY <1>3, <2>2 DEF Answering
  <1>4. CASE jobs = <<>>
    BY <1>2, <1>4 DEF InPool, Answering
  <1> QED  BY <1>3, <1>4

\* No goroutine outlives the call, neither channel overflows, and the calling
\* goroutine does not wait in vain.
THEOREM DecodersAreContained ==
    /\ CallSpec => []GoroutinesAreContained
    /\ LifeSpec => []GoroutinesAreContained
  <1>1. StorageInv /\ PPInv => GoroutinesAreContained
    <2> SUFFICES ASSUME StorageInv, PPInv PROVE GoroutinesAreContained
      OBVIOUS
    <2>1. main = "idle" => AllGone
      BY DEF PPInv, Idle, AllGone
    <2>2. /\ IsFiniteSet(wanted) /\ Cardinality(wanted) \in Nat
          /\ \A id : InPool(id) => id \in wanted
      BY CountIDs, PoolKeys, FoundParts DEF PPInv
    <2>3. Len(results) + Cardinality({w \in Workers : worker[w].at = "work"})
            <= Cardinality(wanted)
      BY <2>2, ResultsFit DEF PPInv, PoolIsCurrent
    <2>4. ASSUME main = "send"
          PROVE  Len(jobs) + Cardinality(unread) <= Cardinality(wanted)
      <3>1. /\ unread \subseteq pending /\ pending \subseteq wanted
            /\ \A id \in SlabID : InPool(id) <=> id \in pending \ unread
            /\ wanted \subseteq SlabID
        BY <2>4 DEF PPInv, PreloadIsOnCourse
      <3>2. /\ IsFiniteSet(wanted \ unread) /\ IsFiniteSet(unread)
            /\ Cardinality(wanted \ unread) = Cardinality(wanted) - Cardinality(unread)
        BY <2>2, <3>1, FS_Subset, FS_Difference, wanted \cap unread = unread
      <3>3. Len(jobs) \in Nat /\ Len(jobs) <= Cardinality(wanted \ unread)
        <4>1. \A id : InPool(id) => id \in wanted \ unread
          BY <2>2, <3>1
        <4> QED  BY <3>2, <4>1, JobsFit DEF PPInv, PoolIsCurrent
      <3>4. Cardinality(unread) \in Nat
        BY <3>2, FS_CardinalityType
      <3> QED  BY <2>2, <3>2, <3>3, <3>4
    <2> QED  BY <2>1, <2>3, <2>4, CollectorIsServed DEF GoroutinesAreContained
  <1> QED  BY <1>1, CallInvariant, LifeInvariant, PTL
=============================================================================
