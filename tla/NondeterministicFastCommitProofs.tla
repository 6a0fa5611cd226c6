------------------ MODULE NondeterministicFastCommitProofs ------------------
(***************************************************************************)
(* Proofs about NondeterministicFastCommit for any addresses, objects,     *)
(* contents and any number of goroutines.  The call saves slabs in any     *)
(* order, so it does not implement Commit; it keeps the storage's          *)
(* invariant and implements WriteBackStore nevertheless.                   *)
(***************************************************************************)
EXTENDS NondeterministicFastCommit, SlabStorageProofs

\* What the pool may hold.
Jobs      == {Job(id) : id \in Modified}
Encodings == {Encoding(Job(id)) : id \in Modified}

\* A slab is saved, whichever one it is.
UnorderedSave ==
    /\ phase = "committing"
    /\ \E id \in pending : SaveRemoved(id) \/ SaveChanged(id)

-----------------------------------------------------------------------------
(* Changed slabs, their jobs and their encodings.                          *)

\* What a job for a changed slab and an encoder's answer to it are.
LEMMA ModifiedParts ==
    ASSUME NEW id \in Modified
    PROVE  /\ id \in SlabID /\ id \in OwnedIDs /\ id \in OwnedDeltas
           /\ deltas[id] \in Objects
           /\ Job(id).slabID = id
           /\ Encoding(Job(id)).slabID = id
           /\ Encoding(Job(id)).data = EncodeSlab(heap[deltas[id]])
           /\ Encoding(Job(id)).err <=> heap[deltas[id]].val \in Unencodable
  <1>1. /\ id \in SlabID /\ id \in OwnedIDs /\ id \in OwnedDeltas
        /\ deltas[id] \in Objects
    BY DEF Modified, OwnedDeltas, OwnedIDs
  <1>2. Job(id).slabID = id /\ Job(id).slab = deltas[id]
    BY DEF Job
  <1>3. Encoding(Job(id)) = [slabID |-> id, data |-> EncodeSlab(heap[deltas[id]]),
                             err |-> heap[deltas[id]].val \in Unencodable]
    BY <1>2 DEF Encoding
  <1>4. /\ Encoding(Job(id)).slabID = id
        /\ Encoding(Job(id)).data = EncodeSlab(heap[deltas[id]])
    BY <1>3
  <1>5. Encoding(Job(id)).err <=> heap[deltas[id]].val \in Unencodable
    BY <1>3, ErrField
  <1> QED  BY <1>1, <1>2, <1>4, <1>5

\* There are finitely many changed slabs.
LEMMA ModifiedIsFinite ==
    /\ IsFiniteSet(Modified) /\ Cardinality(Modified) \in Nat
    /\ Cardinality(Modified) = 0 <=> Modified = {}
  <1>1. Modified \in SUBSET SlabID
    BY ModifiedParts
  <1> QED  BY <1>1, SlabIDsAreFinite, FS_Subset, FS_CardinalityType, FS_EmptySet

\* An account slab in deltas is changed or removed.
LEMMA ModifiedOrDeleted ==
    ASSUME TypeOK
    PROVE  OwnedDeltas = Modified \cup Deleted /\ Modified \cap Deleted = {}
  BY ConstantsAssumption DEF OwnedDeltas, OwnedIDs, Modified, Deleted, TypeOK, Entry

\* What the pool may hold depends on the changed slabs only.
LEMMA SameModified ==
    ASSUME heap' = heap, Modified' = Modified,
           \A id \in Modified : deltas'[id] = deltas[id]
    PROVE  Jobs' = Jobs /\ Encodings' = Encodings
  <1>1. ASSUME NEW id \in Modified PROVE Job(id)' = Job(id)
    BY DEF Job
  <1>2. ASSUME NEW id \in Modified PROVE Encoding(Job(id))' = Encoding(Job(id))
    BY <1>1 DEF Encoding
  <1> QED  BY <1>1, <1>2 DEF Jobs, Encodings

\* Nothing changes when deltas and the slab objects do not.
LEMMA SameDeltas ==
    ASSUME UNCHANGED <<heap, deltas>>
    PROVE  /\ OwnedDeltas' = OwnedDeltas
           /\ Modified' = Modified /\ Deleted' = Deleted
           /\ Jobs' = Jobs /\ Encodings' = Encodings
  <1>1. /\ OwnedDeltas' = OwnedDeltas
        /\ Modified' = Modified /\ Deleted' = Deleted
    BY DEF OwnedDeltas, Modified, Deleted
  <1> QED  BY <1>1, SameModified

\* A key in the pool is that of a changed slab.
LEMMA PoolKeys ==
    ASSUME PoolIsCurrent, NEW id, InPool(id)
    PROVE  id \in Modified
  <1>0. PoolHolds(Jobs, Encodings)
    BY DEF PoolIsCurrent, Jobs, Encodings
  <1>1. /\ \A j \in Jobs : j.slabID \in Modified
        /\ \A r \in Encodings : r.slabID \in Modified
    BY ModifiedParts DEF Jobs, Encodings
  <1>2. ASSUME NEW i \in DOMAIN jobs PROVE jobs[i].slabID \in Modified
    BY <1>0, <1>1, <1>2, LenProperties, ElementOfSeq DEF PoolHolds
  <1>3. ASSUME NEW i \in DOMAIN results PROVE results[i].slabID \in Modified
    BY <1>0, <1>1, <1>3, LenProperties, ElementOfSeq DEF PoolHolds
  <1>4. ASSUME NEW w \in Workers, Busy(w) PROVE worker[w].job.slabID \in Modified
    BY <1>0, <1>1, <1>4 DEF PoolHolds, Busy, Gone, Waiting
  <1> QED  BY <1>2, <1>3, <1>4 DEF InPool

-----------------------------------------------------------------------------
(* One lemma per step of the call.                                         *)

\* Between calls, and in a call without goroutines, there is no pool.
NoPool == /\ main \in {"idle", "serial"} /\ Idle /\ unsent = {} /\ awaited \in Nat
          /\ phase = "committing" <=> main = "serial"

\* The invariant holds then.
LEMMA NoPoolIsFine == NoPool => NFCInv
  <1> SUFFICES ASSUME NoPool PROVE NFCInv
    OBVIOUS
  <1>1. PoolIsCurrent
    BY EmptySeq DEF PoolIsCurrent, PoolHolds, Idle, NoPool
  <1>2. EachKeyOnce
    BY DEF EachKeyOnce, Idle, Busy, Gone, NoPool
  <1> QED  BY <1>1, <1>2 DEF NFCInv, ParallelIsOnCourse, NoPool

\* The steps that lead to such a state.
LEMMA NoPoolSteps == NoPool' => NFCInv'
  <1>1. (NoPool => NFCInv)'
    BY NoPoolIsFine, PTL
  <1> QED  BY <1>1

\* A call with too little to do, from its start to its end, has no pool.
LEMMA SerialKeeps ==
    ASSUME StorageInv, NFCInv,
           BeginSerial \/ \E id \in SlabID : SerialSave(id)
    PROVE  NFCInv'
  <1>1. /\ main \in {"idle", "serial"} /\ Idle /\ unsent = {} /\ awaited \in Nat
        /\ main' = "serial" /\ phase' = "committing"
        /\ UNCHANGED <<jobs, open, results, done, worker, unsent, awaited>>
    BY DEF NFCInv, BeginSerial, SerialSave, CommitBegin, SaveChanged, SaveRemoved,
           poolVars, callVars
  <1> QED  BY <1>1, NoPoolSteps DEF NoPool, Idle

\* Returning, dying, and everything between calls leave no pool behind.
LEMMA BetweenCallsKeeps ==
    ASSUME StorageInv, NFCInv, Return \/ RestartDuringCall \/ OtherStep
    PROVE  NFCInv'
  <1>1. CASE Return
    <2>1. worker = [w \in Workers |-> Gone]
      BY <1>1 DEF Return, Shutdown, AllGone, NFCInv, PoolIsCurrent, PoolHolds
    <2> QED  BY <1>1, <2>1, NoPoolSteps DEF NoPool, Return, Shutdown, Idle, NFCInv, vars
  <1>2. CASE RestartDuringCall
    BY <1>2, NoPoolSteps DEF NoPool, RestartDuringCall, Restart, Kill, Idle
  <1>3. CASE OtherStep
    <2>1. /\ main = "idle" /\ Idle /\ unsent = {} /\ awaited \in Nat
          /\ phase # "committing"
          /\ UNCHANGED <<jobs, open, results, done, worker, main, unsent, awaited>>
      BY <1>3 DEF OtherStep, NFCInv, poolVars, callVars
    <2>2. phase' # "committing"
      BY <1>3, <2>1
         DEF OtherStep, ContainerStep, Create, Update, Remove, SplitRoot,
             PromoteChild, ReadStep, Retrieve, RetrieveIgnoringDeltas,
             BatchPreloadBegin, BatchPreloadSlab, BatchPreloadSkip,
             BatchPreloadEnd, DropStep, DropDeltas, DropCache, Collect, Restart
    <2> QED  BY <2>1, <2>2, NoPoolSteps DEF NoPool, Idle
  <1> QED  BY <1>1, <1>2, <1>3

\* A call that starts encoders starts with an empty queue, everything unsent.
LEMMA BeginParallelKeeps ==
    ASSUME StorageInv, NFCInv, BeginParallel
    PROVE  NFCInv'
  <1> DEFINE n == Cardinality(Modified)
  <1>1. /\ Idle /\ n >= 2 /\ phase' = "committing" /\ UNCHANGED <<heap, deltas>>
        /\ Launch(n) /\ open' = TRUE
        /\ main' = "send" /\ unsent' = Modified /\ awaited' = n
        /\ UNCHANGED <<jobs, results, done>>
    BY DEF NFCInv, BeginParallel, CommitBegin
  <1>2. jobs = <<>> /\ results = <<>> /\ done = FALSE
    BY <1>1 DEF Idle
  <1>3. Modified' = Modified
    BY <1>1, SameDeltas
  <1>4. n \in Nat /\ Modified # {}
    BY <1>1, ModifiedIsFinite
  <1>5. awaited' = Cardinality(Modified')
    BY <1>1, <1>3
  <1> HIDE DEF n
  <1>6. /\ PoolHolds(Jobs, Encodings)' /\ EachKeyOnce'
        /\ \A id : ~ InPool(id)'
        /\ Workers # {} => \E w \in Workers : worker'[w] # Gone
    <2>1. Jobs' = Jobs /\ Encodings' = Encodings
      BY <1>1, SameDeltas
    <2>2. open' \in BOOLEAN /\ done' \in BOOLEAN
      BY <1>1, <1>2, Zenon
    <2>3. n > 0
      BY <1>1, <1>4
    <2> QED  BY <1>1, <1>2, <1>4, <2>1, <2>2, <2>3, LaunchStarts
  <1>7. ParallelIsOnCourse'
    BY <1>1, <1>2, <1>3, <1>4, <1>5, <1>6 DEF ParallelIsOnCourse
  <1> QED  BY <1>1, <1>4, <1>6, <1>7
           DEF NFCInv, PoolIsCurrent, Jobs, Encodings

\* Sending a job puts a key that was not there into the pool.
LEMMA SendJobKeeps ==
    ASSUME StorageInv, NFCInv, NEW k \in SlabID, SendJob(k)
    PROVE  NFCInv'
  <1>1. /\ main = "send" /\ k \in unsent
        /\ jobs' = Append(jobs, Job(k))
        /\ unsent' = unsent \ {k}
        /\ open' = (unsent' # {})
        /\ main' = IF unsent' = {} THEN "remove" ELSE "send"
        /\ UNCHANGED <<heap, deltas, phase, results, done, worker, awaited>>
    BY DEF SendJob, vars
  <1>2. /\ phase = "committing" /\ awaited \in Nat /\ ~ done
        /\ unsent \subseteq Modified
        /\ \A id \in Modified : id \in unsent <=> ~ InPool(id)
        /\ awaited = Cardinality(Modified)
        /\ open /\ EachKeyOnce
        /\ Workers # {} => \E w \in Workers : worker[w] # Gone
    BY <1>1 DEF NFCInv, ParallelIsOnCourse
  <1>3. PoolHolds(Jobs, Encodings)
    BY DEF NFCInv, PoolIsCurrent, Jobs, Encodings
  <1>4. /\ Modified' = Modified /\ Deleted' = Deleted
        /\ Jobs' = Jobs /\ Encodings' = Encodings
    BY <1>1, SameDeltas
  <1>5. k \in Modified /\ Job(k) \in Jobs /\ Job(k).slabID = k /\ ~ InPool(k)
    BY <1>1, <1>2, ModifiedParts DEF Jobs
  <1>6. /\ PoolHolds(Jobs, Encodings)' /\ EachKeyOnce'
        /\ \A id : InPool(id)' <=> InPool(id) \/ id = k
    BY <1>1, <1>2, <1>3, <1>4, <1>5, QueueKeeps
  <1>7. main' = "remove" \/ main' = "send"
    BY <1>1
  <1>8. ParallelIsOnCourse'
    BY <1>1, <1>2, <1>4, <1>5, <1>6 DEF ParallelIsOnCourse
  <1> QED  BY <1>1, <1>2, <1>6, <1>7, <1>8
           DEF NFCInv, PoolIsCurrent, Jobs, Encodings

\* A step of an encoder preserves the invariant: it moves a key, and answers
\* with the encoding the slab has now.
LEMMA EncoderKeeps ==
    ASSUME StorageInv, NFCInv, NEW w \in Workers, EncoderStep(w)
    PROVE  NFCInv'
  <1>1. PoolHolds(Jobs, Encodings) /\ EachKeyOnce
    BY DEF NFCInv, PoolIsCurrent, Jobs, Encodings
  <1>2. UNCHANGED <<heap, deltas, phase, main, unsent, awaited>>
    BY DEF EncoderStep, vars, callVars
  <1>3. UNCHANGED <<open, done>>
    BY DEF EncoderStep, Receive, Finish, Check, Send
  <1>4. main \notin {"idle", "serial"}
    <2> SUFFICES ASSUME main \in {"idle", "serial"} PROVE FALSE
      OBVIOUS
    <2>1. worker[w] = Gone
      BY DEF NFCInv, Idle
    <2> QED  BY <2>1 DEF EncoderStep, Receive, Finish, Check, Send, Gone, Waiting
  <1>5. /\ Modified' = Modified /\ Deleted' = Deleted
        /\ Jobs' = Jobs /\ Encodings' = Encodings
    BY <1>2, SameDeltas
  <1>6. /\ PoolHolds(Jobs, Encodings)' /\ EachKeyOnce'
        /\ ~ done => \A id : InPool(id)' <=> InPool(id)
        /\ ~ done /\ (open \/ jobs' # <<>>) => \E v \in Workers : worker'[v] # Gone
    <2> USE <1>1, <1>5
    <2>1. CASE Receive(w)
      <3>1. worker'[w].at = "check"
        BY <2>1 DEF Receive, PoolHolds
      <3> QED  BY <2>1, <3>1, ReceiveKeeps DEF Gone
    <2>2. CASE Finish(w)
      <3>1. jobs' = <<>> /\ ~ open
        BY <2>2 DEF Finish
      <3> QED  BY <2>2, <3>1, FinishKeeps
    <2>3. CASE Check(w)
      BY <2>3, CheckKeeps
    <2>4. CASE Send(w, Encoding(worker[w].job))
      <3> DEFINE r == Encoding(worker[w].job)
      <3>1. worker[w].job \in Jobs
        BY <2>4 DEF Send, PoolHolds, Gone, Waiting
      <3>2. PICK k \in Modified : worker[w].job = Job(k)
        BY <3>1 DEF Jobs
      <3>3. r \in Encodings /\ r.slabID = worker[w].job.slabID
        BY <3>2, ModifiedParts DEF Encodings
      <3> HIDE DEF r
      <3>4. Send(w, r)
        BY <2>4 DEF r
      <3>5. worker'[w].at = "range"
        BY <3>4 DEF Send, PoolHolds, Waiting
      <3> QED  BY <3>3, <3>4, <3>5, SendKeeps DEF Gone
    <2> QED  BY <2>1, <2>2, <2>3, <2>4 DEF EncoderStep
  <1>7. ParallelIsOnCourse'
    BY <1>2, <1>3, <1>5, <1>6 DEF ParallelIsOnCourse, NFCInv
  <1> QED  BY <1>1, <1>2, <1>3, <1>4, <1>6, <1>7
           DEF NFCInv, PoolIsCurrent, Jobs, Encodings

\* Removing a removed slab leaves the pool and the changed slabs alone.
LEMMA RemoveDeletedKeeps ==
    ASSUME StorageInv, NFCInv, NEW k \in SlabID, RemoveDeleted(k)
    PROVE  NFCInv'
  <1>1. /\ main = "remove" /\ deltas[k] = Nil
        /\ deltas' = [deltas EXCEPT ![k] = Absent] /\ deltas \in [SlabID -> Entry]
        /\ UNCHANGED <<heap, phase, jobs, open, results, done, worker>>
        /\ UNCHANGED <<main, unsent, awaited>>
    BY DEF RemoveDeleted, SaveRemoved, Applied, poolVars, callVars, StorageInv, TypeOK
  <1>2. Modified' = Modified /\ \A id \in Modified : deltas'[id] = deltas[id]
    BY <1>1, ConstantsAssumption DEF Modified, OwnedDeltas, OwnedIDs
  <1>3. Jobs' = Jobs /\ Encodings' = Encodings
    BY <1>1, <1>2, SameModified
  <1>4. PoolHolds(Jobs, Encodings)'
    BY <1>1, <1>3 DEF NFCInv, PoolIsCurrent, PoolHolds, Jobs, Encodings
  <1>5. EachKeyOnce' /\ \A id : InPool(id)' <=> InPool(id)
    BY <1>1 DEF NFCInv, EachKeyOnce, Busy, InPool
  <1>6. ParallelIsOnCourse'
    BY <1>1, <1>2, <1>5 DEF NFCInv, ParallelIsOnCourse
  <1> QED  BY <1>1, <1>4, <1>5, <1>6 DEF NFCInv, PoolIsCurrent, Jobs, Encodings

\* The calling goroutine moves on: the pool stays as it is.
LEMMA MovingOnKeeps ==
    ASSUME StorageInv, NFCInv,
           \/ RemovesDone
           \/ SerialError
           \/ End
           \/ ParallelError /\ main = "remove"
           \/ UNCHANGED nfcVars
    PROVE  NFCInv'
  <1>1. /\ UNCHANGED <<heap, deltas, jobs, open, results, worker, unsent, awaited>>
        /\ done' \in BOOLEAN
    BY DEF RemovesDone, SerialError, End, ParallelError, CommitError, nfcVars, vars,
           poolVars, callVars, NFCInv, PoolIsCurrent, PoolHolds
  <1>2. /\ Modified' = Modified /\ Deleted' = Deleted
        /\ Jobs' = Jobs /\ Encodings' = Encodings
    BY <1>1, SameDeltas
  <1>3. PoolHolds(Jobs, Encodings)'
    BY <1>1, <1>2 DEF NFCInv, PoolIsCurrent, PoolHolds, Jobs, Encodings
  <1>4. EachKeyOnce' /\ \A id : InPool(id)' <=> InPool(id)
    BY <1>1 DEF NFCInv, EachKeyOnce, Busy, InPool
  <1>5. PoolIsCurrent'
    BY <1>3 DEF PoolIsCurrent, Jobs, Encodings
  <1>6. CASE RemovesDone
    <2>1. ParallelIsOnCourse'
      BY <1>1, <1>2, <1>4, <1>6
         DEF NFCInv, ParallelIsOnCourse, RemovesDone, vars, poolVars
    <2> QED  BY <1>1, <1>4, <1>5, <1>6, <2>1 DEF NFCInv, RemovesDone, vars
  <1>7. CASE SerialError \/ End \/ (ParallelError /\ main = "remove")
    <2>1. main' = "return" /\ phase' # "committing" /\ unsent = {}
      BY <1>7 DEF SerialError, End, ParallelError, CommitError, NFCInv,
                  ParallelIsOnCourse
    <2> QED  BY <1>1, <1>4, <1>5, <2>1 DEF NFCInv, ParallelIsOnCourse
  <1>8. CASE UNCHANGED nfcVars
    <2>1. UNCHANGED <<main, phase, done>>
      BY <1>8 DEF nfcVars, vars, poolVars, callVars
    <2>2. ParallelIsOnCourse'
      BY <1>1, <1>2, <1>4, <2>1 DEF NFCInv, ParallelIsOnCourse
    <2> QED  BY <1>1, <1>4, <1>5, <2>1, <2>2 DEF NFCInv, Idle
  <1> QED  BY <1>6, <1>7, <1>8

\* An error among the results stops the encoders.
LEMMA ResultErrorKeeps ==
    ASSUME StorageInv, NFCInv, ParallelError, main = "collect"
    PROVE  NFCInv'
  <1>1. /\ Collected /\ done' = TRUE /\ main' = "return" /\ phase' = "idle"
        /\ UNCHANGED <<heap, deltas, jobs, open, worker, unsent, awaited>>
    BY DEF ParallelError, CommitError
  <1>2. PoolHolds(Jobs, Encodings) /\ EachKeyOnce /\ unsent = {}
    BY DEF NFCInv, PoolIsCurrent, ParallelIsOnCourse, Jobs, Encodings
  <1>3. Jobs' = Jobs /\ Encodings' = Encodings
    BY <1>1, SameDeltas
  <1>4. PoolHolds(Jobs, Encodings)' /\ EachKeyOnce'
    BY <1>1, <1>2, <1>3, CollectedKeeps
  <1> QED  BY <1>1, <1>2, <1>4
           DEF NFCInv, ParallelIsOnCourse, PoolIsCurrent, Jobs, Encodings

\* A result without an error is the encoding of a changed slab that is still
\* to be saved: storing it is what Commit does with that slab.
LEMMA StoreResultSaves ==
    ASSUME StorageInv, NFCInv, StoreResult
    PROVE  /\ Head(results).slabID \in Modified
           /\ phase = "committing" /\ Head(results).slabID \in pending
           /\ SaveChanged(Head(results).slabID)
  <1> DEFINE k == Head(results).slabID
  <1>1. /\ main = "collect" /\ results # <<>> /\ ~ Head(results).err
        /\ base' = [base EXCEPT ![k] = Head(results).data]
        /\ Applied(k)
        /\ UNCHANGED <<heap, nextIndex, phase>>
    BY DEF StoreResult, Collected
  <1>2. Head(results) \in Encodings
    BY <1>1, ChannelParts DEF NFCInv, PoolIsCurrent, PoolHolds, Encodings
  <1>3. PICK id \in Modified : Head(results) = Encoding(Job(id))
    BY <1>2 DEF Encodings
  <1>4. k = id
    BY <1>3, ModifiedParts
  <1>5. phase = "committing" /\ id \in pending
    BY <1>1, ModifiedParts DEF NFCInv, StorageInv, CommitIsOnCourse
  <1>6. /\ deltas[id] \in Objects
        /\ heap[deltas[id]].val \notin Unencodable
        /\ Head(results).data = EncodeSlab(heap[deltas[id]])
    BY <1>1, <1>3, ModifiedParts
  <1> HIDE DEF k
  <1>7. SaveChanged(k)
    BY <1>1, <1>4, <1>6 DEF SaveChanged
  <1> QED  BY <1>4, <1>5, <1>7 DEF k

\* Storing a result takes its slab out of the changed ones and its key out of
\* the pool, and counts it.
LEMMA StoreResultKeeps ==
    ASSUME StorageInv, NFCInv, StoreResult
    PROVE  NFCInv'
  <1> DEFINE k == Head(results).slabID
  <1>1. /\ main = "collect" /\ Collected /\ awaited' = awaited - 1
        /\ deltas' = [deltas EXCEPT ![k] = Absent] /\ deltas \in [SlabID -> Entry]
        /\ UNCHANGED <<heap, phase, jobs, open, done, worker, main, unsent>>
    BY DEF StoreResult, Applied, StorageInv, TypeOK
  <1>2. /\ phase = "committing" /\ awaited \in Nat /\ ~ done /\ unsent = {} /\ ~ open
        /\ \A id \in Modified : InPool(id)
        /\ awaited = Cardinality(Modified)
        /\ Deleted = {} /\ EachKeyOnce
        /\ jobs # <<>> /\ Workers # {} => \E w \in Workers : worker[w] # Gone
    BY <1>1 DEF NFCInv, ParallelIsOnCourse
  <1>3. PoolHolds(Jobs, Encodings) /\ done \in BOOLEAN
    BY DEF NFCInv, PoolIsCurrent, PoolHolds, Jobs, Encodings
  <1>4. k \in Modified /\ k \in SlabID
    BY StoreResultSaves, ModifiedParts
  <1> HIDE DEF k
  <1>5. /\ Modified' = Modified \ {k} /\ Deleted' = {}
        /\ \A id \in Modified' : deltas'[id] = deltas[id]
    <2>1. /\ Modified' = Modified \ {k}
          /\ \A id \in Modified' : deltas'[id] = deltas[id]
      BY <1>1, ConstantsAssumption DEF Modified, OwnedDeltas, OwnedIDs
    <2>2. Deleted' = {}
      BY <1>1, <1>2, ConstantsAssumption DEF Deleted, OwnedDeltas, OwnedIDs
    <2> QED  BY <2>1, <2>2
  <1>6. \A id \in Modified' : /\ Job(id)' = Job(id)
                              /\ Encoding(Job(id))' = Encoding(Job(id))
    BY <1>1, <1>5 DEF Job, Encoding
  <1>7. \E J, R : /\ J = Jobs /\ R = Encodings
                  /\ PoolHolds(J, R)' /\ EachKeyOnce'
                  /\ \A id : InPool(id)' <=> InPool(id) /\ id # k
    BY <1>1, <1>2, <1>3, CollectedKeeps DEF k
  <1>8. PICK J, R : /\ J = Jobs /\ R = Encodings
                    /\ PoolHolds(J, R)' /\ EachKeyOnce'
                    /\ \A id : InPool(id)' <=> InPool(id) /\ id # k
    BY <1>7
  <1>9. PoolHolds(Jobs, Encodings)'
    <2>1. ASSUME NEW j \in J, InPool(j.slabID)' PROVE j \in Jobs'
      <3>1. PICK id \in Modified : j = Job(id)
        BY <1>8 DEF Jobs
      <3>2. id # k
        BY <1>8, <2>1, <3>1, ModifiedParts
      <3> QED  BY <1>5, <1>6, <3>1, <3>2 DEF Jobs
    <2>2. ASSUME NEW r \in R, InPool(r.slabID)' PROVE r \in Encodings'
      <3>1. PICK id \in Modified : r = Encoding(Job(id))
        BY <1>8 DEF Encodings
      <3>2. id # k
        BY <1>8, <2>2, <3>1, ModifiedParts
      <3>3. id \in Modified' /\ r = Encoding(Job(id))'
        BY <1>5, <1>6, <3>1, <3>2
      <3> QED  BY <3>3 DEF Encodings
    <2>3. \E K, Q : K = Jobs' /\ Q = Encodings' /\ PoolHolds(K, Q)'
      BY <1>8, <2>1, <2>2, PoolNarrowsTo
    <2> QED  BY <2>3 DEF PoolHolds
  <1>10. awaited' \in Nat /\ awaited' = Cardinality(Modified')
    <2>1. /\ IsFiniteSet(Modified) /\ Cardinality(Modified) \in Nat
          /\ Cardinality(Modified) # 0
      BY <1>4, ModifiedIsFinite
    <2>2. Cardinality(Modified \ {k}) = Cardinality(Modified) - 1
      BY <1>4, <2>1, FS_RemoveElement
    <2> QED  BY <1>1, <1>2, <1>5, <2>1, <2>2
  <1>11. ParallelIsOnCourse'
    BY <1>1, <1>2, <1>5, <1>8, <1>10 DEF ParallelIsOnCourse
  <1> QED  BY <1>1, <1>2, <1>8, <1>9, <1>10, <1>11
           DEF NFCInv, PoolIsCurrent, Jobs, Encodings

-----------------------------------------------------------------------------
(* The call is a commit in another order.                                  *)

\* The call returns nil only when no account slab is left to save: as many
\* results were stored as there were changed slabs.
LEMMA EndIsCommitEnd ==
    ASSUME StorageInv, NFCInv, End
    PROVE  CommitEnd
  <1>1. /\ main \in {"serial", "collect"}
        /\ phase' = "committed" /\ pending' = {}
        /\ UNCHANGED <<heap, deltas, cache, base, nextIndex, forsaken>>
    BY DEF End
  <1>2. phase = "committing" /\ pending = OwnedDeltas
    BY <1>1 DEF NFCInv, StorageInv, CommitIsOnCourse
  <1>3. CASE main = "collect"
    <2>1. Modified = {} /\ Deleted = {}
      BY <1>3, ModifiedIsFinite DEF End, NFCInv, ParallelIsOnCourse
    <2>2. OwnedDeltas = {}
      BY <2>1, ModifiedOrDeleted DEF StorageInv
    <2> QED  BY <1>1, <1>2, <2>2 DEF CommitEnd
  <1>4. CASE main = "serial"
    BY <1>1, <1>2, <1>4 DEF End, CommitEnd
  <1> QED  BY <1>1, <1>3, <1>4

\* Every step is a step of the storage, or saves some slab, or is none.
LEMMA StepIsStorageStep ==
    ASSUME StorageInv, NFCInv, [LifeNext]_nfcVars
    PROVE  [Next]_vars \/ UnorderedSave
  <1>1. CASE OtherStep \/ RestartDuringCall
    BY <1>1 DEF OtherStep, RestartDuringCall, Next, DropStep
  <1>2. CASE BeginSerial \/ BeginParallel
    BY <1>2 DEF BeginSerial, BeginParallel, Next
  <1>3. ASSUME NEW w \in Workers, EncoderStep(w) PROVE UNCHANGED vars
    BY <1>3 DEF EncoderStep
  <1>4. ASSUME NEW id \in SlabID, SerialSave(id) \/ RemoveDeleted(id)
        PROVE  UnorderedSave
    BY <1>4 DEF SerialSave, RemoveDeleted, UnorderedSave, NFCInv
  <1>5. ASSUME NEW id \in SlabID, SendJob(id) PROVE UNCHANGED vars
    BY <1>5 DEF SendJob
  <1>6. CASE RemovesDone \/ Return \/ UNCHANGED nfcVars
    BY <1>6 DEF RemovesDone, Return, nfcVars
  <1>7. CASE StoreResult
    BY <1>7, StoreResultSaves DEF UnorderedSave
  <1>8. CASE ParallelError \/ SerialError
    BY <1>8 DEF ParallelError, SerialError, Next, CommitStep
  <1>9. CASE End
    BY <1>9, EndIsCommitEnd DEF Next, CommitStep
  <1> QED  BY <1>1, <1>2, <1>3, <1>4, <1>5, <1>6, <1>7, <1>8, <1>9
           DEF LifeNext, CallNext, MainStep

\* Every step preserves both invariants.
LEMMA LifeStep ==
    StorageInv /\ NFCInv /\ [LifeNext]_nfcVars => StorageInv' /\ NFCInv'
  <1> SUFFICES ASSUME StorageInv, NFCInv, [LifeNext]_nfcVars
               PROVE  StorageInv' /\ NFCInv'
    OBVIOUS
  <1>1. StorageInv'
    BY StepIsStorageStep, InvStep, SavePreserves DEF UnorderedSave
  <1>2. CASE ParallelError
    <2>1. main = "remove" \/ main = "collect"
      BY <1>2 DEF ParallelError
    <2> QED  BY <1>1, <1>2, <2>1, MovingOnKeeps, ResultErrorKeeps
  <1>3. NFCInv'
    BY <1>2, SerialKeeps, BetweenCallsKeeps, BeginParallelKeeps, SendJobKeeps,
       EncoderKeeps, RemoveDeletedKeeps, MovingOnKeeps, StoreResultKeeps
       DEF LifeNext, CallNext, MainStep
  <1> QED  BY <1>1, <1>3

\* The storage as a caller can leave it before a commit satisfies the
\* storage's invariant.
LEMMA InitWithDeltasIsFine == InitWithDeltas => StorageInv
  <1> SUFFICES ASSUME InitWithDeltas PROVE StorageInv
    OBVIOUS
  <1> USE ConstantsAssumption
  <1>1. PICK home :
          /\ heap \in {h \in [Objects -> Slab \cup {Absent}] :
                         \A o \in Objects : h[o] # Absent => h[o].id = home[o]}
          /\ deltas \in {d \in [SlabID -> Entry] :
                 \A o \in Objects, id \in SlabID :
                     d[id] = o <=> heap[o] # Absent /\ id = home[o]}
    BY DEF InitWithDeltas
  <1>2. /\ base \in [SlabID -> Contents \cup {Absent}]
        /\ \A id \in SlabID : base[id] # Absent => id \in OwnedIDs
        /\ cache = [id \in SlabID |-> Absent]
        /\ nextIndex = MaxIndex
        /\ phase = "idle" /\ pending = {} /\ forsaken = {}
    BY DEF InitWithDeltas
  <1>3. \A a \in Address : MaxIndex[a] \in Nat /\ MaxIndex[a] <= MaxIndex[a]
    OBVIOUS
  <1>4. TypeOK
    BY <1>1, <1>2, <1>3 DEF TypeOK, Entry, Phases
  <1>5. DeltasAreFiled
    BY <1>1 DEF DeltasAreFiled
  <1>6. CacheIsAlive /\ CacheMatchesBase /\ CommitIsOnCourse /\ TempIsNotSaved
    BY <1>2 DEF CacheIsAlive, CacheMatchesBase, CommitIsOnCourse, TempIsNotSaved
  <1>7. \A id \in SlabID : id[2] <= MaxIndex[id[1]] /\ id[2] \in Nat /\ MaxIndex[id[1]] \in Nat
    BY DEF SlabID
  <1>8. UnallocatedIsUnused
    BY <1>2, <1>4, <1>7, AliveIsSlab DEF UnallocatedIsUnused
  <1> QED  BY <1>4, <1>5, <1>6, <1>8 DEF StorageInv

-----------------------------------------------------------------------------
(* Theorems.                                                               *)

\* In every state of a call each changed slab is in one place, and no job or
\* answer in the pool is out of date: when calls follow one another on a
\* storage with unsaved changes.
THEOREM CallInvariant == CallSpec => [](StorageInv /\ NFCInv)
  <1>1. CallInit => StorageInv /\ NFCInv
    BY InitWithDeltasIsFine, NoPoolIsFine
       DEF CallInit, InitWithDeltas, Inactive, NoPool
  <1>2. StorageInv /\ NFCInv /\ [CallNext]_nfcVars => StorageInv' /\ NFCInv'
    BY LifeStep DEF LifeNext
  <1> QED  BY <1>1, <1>2, PTL DEF CallSpec

\* The same through the whole life of a storage that is saved by these calls,
\* crashes included.
THEOREM LifeInvariant == LifeSpec => [](StorageInv /\ NFCInv)
  <1>1. Init /\ Inactive => StorageInv /\ NFCInv
    BY InvInit, NoPoolIsFine DEF Init, Inactive, NoPool
  <1> QED  BY <1>1, LifeStep, PTL DEF LifeSpec

\* Each step is one that WriteBackStore allows, or is invisible.
LEMMA StepIsStoreStep ==
    StorageInv /\ NFCInv /\ [LifeNext]_nfcVars
      => [Store!Next]_<<[id \in SlabID |-> View(id)], base, ~ Ready>>
  <1> SUFFICES ASSUME StorageInv, NFCInv, [LifeNext]_nfcVars
               PROVE  [Store!Next]_<<[id \in SlabID |-> View(id)], base, ~ Ready>>
    OBVIOUS
  <1>1. CASE [Next]_vars
    BY <1>1, StepRefines DEF view
  <1>2. CASE UnorderedSave
    BY <1>2, SaveRefines DEF UnorderedSave, Store!Next
  <1> QED  BY <1>1, <1>2, StepIsStorageStep

\* Whatever the order in which encodings arrive, a slab is saved in one piece
\* and no unsaved change is lost.
THEOREM UnorderedRefinement == CallSpec => ImplementsStoreUnordered
  <1>1. StorageInv /\ NFCInv /\ [CallNext]_nfcVars
          => [Store!Next]_<<[id \in SlabID |-> View(id)], base, ~ Ready>>
    BY StepIsStoreStep DEF LifeNext
  <1> QED  BY <1>1, CallInvariant, PTL DEF CallSpec, ImplementsStoreUnordered

\* A storage saved by these calls only still implements WriteBackStore, reads
\* are coherent, a call that returned nil has saved every account slab, and no
\* slab ID in use is handed out again.
THEOREM UnorderedIsSafe ==
    LifeSpec => /\ ImplementsStore
                /\ []ReadsAreCoherent
                /\ []CommittedIsSaved
                /\ []IndexesAreFresh
  <1>1. Init => Store!Init
    BY DEF Init, Store!Init, Store!Slots, View, OwnedIDs, Ready
  <1>2. StorageInv => ReadsAreCoherent /\ CommittedIsSaved /\ IndexesAreFresh
    BY InvImpliesCoherent, InvImpliesSaved, InvImpliesFresh
  <1> QED  BY <1>1, <1>2, StepIsStoreStep, LifeInvariant, PTL
           DEF LifeSpec, ImplementsStore, Store!Spec

\* While results are awaited somebody is going to send one.
LEMMA CollectorIsServed ==
    ASSUME NFCInv, main = "collect", awaited > 0, Workers # {}
    PROVE  Answering
  <1>1. /\ \A id \in Modified : InPool(id)
        /\ awaited = Cardinality(Modified)
        /\ jobs # <<>> => \E w \in Workers : worker[w] # Gone
    BY DEF NFCInv, ParallelIsOnCourse
  <1>2. PICK id \in Modified : InPool(id)
    BY <1>1, ModifiedIsFinite
  <1>3. CASE jobs # <<>>
    <2>1. PICK w \in Workers : worker[w] # Gone
      BY <1>1, <1>3
    <2>2. worker[w] = Waiting \/ Busy(w)
      BY <2>1 DEF NFCInv, PoolIsCurrent, PoolHolds, Busy
    <2> QED  BY <1>3, <2>2 DEF Answering
  <1>4. CASE jobs = <<>>
    BY <1>2, <1>4 DEF InPool, Answering
  <1> QED  BY <1>3, <1>4

\* No goroutine outlives the call or blocks on the results channel, and the
\* calling goroutine does not wait in vain.
THEOREM EncodersAreContained ==
    /\ CallSpec => []GoroutinesAreContained
    /\ LifeSpec => []GoroutinesAreContained
  <1>1. StorageInv /\ NFCInv => GoroutinesAreContained
    <2> SUFFICES ASSUME StorageInv, NFCInv PROVE GoroutinesAreContained
      OBVIOUS
    <2>1. main = "idle" => AllGone
      BY DEF NFCInv, Idle, AllGone
    <2>2. Len(results) + Cardinality({w \in Workers : worker[w].at = "work"})
            <= Cardinality(Modified)
      BY ModifiedIsFinite, PoolKeys, ResultsFit DEF NFCInv, PoolIsCurrent
    <2>3. ASSUME main = "send"
          PROVE  Len(jobs) + Cardinality(unsent) <= Cardinality(Modified)
      <3>1. unsent \subseteq Modified /\ \A id \in Modified : id \in unsent <=> ~ InPool(id)
        BY <2>3 DEF NFCInv, ParallelIsOnCourse
      <3>2. /\ IsFiniteSet(Modified \ unsent) /\ IsFiniteSet(unsent)
            /\ Cardinality(Modified \ unsent) = Cardinality(Modified) - Cardinality(unsent)
        BY <3>1, ModifiedIsFinite, FS_Subset, FS_Difference, Modified \cap unsent = unsent
      <3>3. Len(jobs) \in Nat /\ Len(jobs) <= Cardinality(Modified \ unsent)
        BY <3>1, <3>2, PoolKeys, JobsFit DEF NFCInv, PoolIsCurrent
      <3>4. Cardinality(unsent) \in Nat /\ Cardinality(Modified) \in Nat
        BY <3>2, ModifiedIsFinite, FS_CardinalityType
      <3> QED  BY <3>2, <3>3, <3>4
    <2> QED  BY <2>1, <2>2, <2>3, CollectorIsServed DEF GoroutinesAreContained
  <1> QED  BY <1>1, CallInvariant, LifeInvariant, PTL
=============================================================================
