--------------------- MODULE NondeterministicFastCommit ---------------------
(***************************************************************************)
(* PersistentSlabStorage.NondeterministicFastCommit (storage.go): the      *)
(* calling goroutine hands the changed account slabs to a pool of encoders *)
(* and, while they work, removes the removed slabs from the base storage;  *)
(* then it stores each encoding as it arrives.  With fewer than two        *)
(* changed slabs it runs the loop of Commit instead, changed slabs first.  *)
(***************************************************************************)
EXTENDS SlabStorage, WorkerPool

VARIABLES main,    \* where the calling goroutine is
          unsent,  \* changed slabs not yet in the job queue
          awaited  \* results the collecting loop has yet to receive

callVars == <<main, unsent, awaited>>
nfcVars  == <<vars, poolVars, callVars>>

\* Maps are iterated in any order.
Modified == {id \in OwnedDeltas : deltas[id] \in Objects}
Deleted  == {id \in OwnedDeltas : deltas[id] = Nil}

-----------------------------------------------------------------------------
\* Too little to encode: no goroutines.
BeginSerial ==
    /\ main = "idle" /\ Cardinality(Modified) < 2
    /\ CommitBegin
    /\ main' = "serial"
    /\ UNCHANGED <<poolVars, unsent, awaited>>

SerialSave(id) ==
    /\ main = "serial" /\ id \in pending
    /\ SaveChanged(id) \/ (Modified \cap pending = {} /\ SaveRemoved(id))
    /\ UNCHANGED <<poolVars, callVars>>

\* The encoders start before the first job is sent.
BeginParallel ==
    /\ main = "idle" /\ Cardinality(Modified) >= 2
    /\ CommitBegin
    /\ Launch(Cardinality(Modified))
    /\ open' = TRUE
    /\ main' = "send" /\ unsent' = Modified
    /\ awaited' = Cardinality(Modified)
    /\ UNCHANGED <<jobs, results, done>>

\* A job carries the slab: encoders do not look at deltas.
Job(id) == [slabID |-> id, slab |-> deltas[id]]

\* A bug: the job queue is not closed.
SendJobOpen(id) ==
    /\ main = "send" /\ id \in unsent
    /\ jobs' = Append(jobs, Job(id))
    /\ unsent' = unsent \ {id}
    /\ main' = IF unsent' = {} THEN "remove" ELSE "send"
    /\ UNCHANGED <<vars, open, results, done, worker, awaited>>

\* The queue is closed after the last job.
SendJob(id) ==
    /\ main = "send" /\ id \in unsent
    /\ jobs' = Append(jobs, Job(id))
    /\ unsent' = unsent \ {id}
    /\ open' = (unsent' # {})
    /\ main' = IF unsent' = {} THEN "remove" ELSE "send"
    /\ UNCHANGED <<vars, results, done, worker, awaited>>

Encoding(job) ==
    [slabID |-> job.slabID, data |-> EncodeSlab(heap[job.slab]),
     err |-> heap[job.slab].val \in Unencodable]

EncoderStep(w) ==
    /\ \/ Receive(w)
       \/ Finish(w)
       \/ Check(w)
       \/ Send(w, Encoding(worker[w].job))
    /\ UNCHANGED <<vars, callVars>>

RemoveDeleted(id) ==
    /\ main = "remove" /\ id \in pending
    /\ SaveRemoved(id)
    /\ UNCHANGED <<poolVars, callVars>>

RemovesDone ==
    /\ main = "remove" /\ Deleted = {}
    /\ main' = "collect"
    /\ UNCHANGED <<vars, poolVars, unsent, awaited>>

\* A bug: the slab leaves deltas although it is not stored.
StoreResultNot ==
    /\ main = "collect" /\ awaited > 0 /\ Collected
    /\ ~ Head(results).err
    /\ Applied(Head(results).slabID)
    /\ awaited' = awaited - 1
    /\ UNCHANGED <<base, heap, nextIndex, phase>>
    /\ UNCHANGED <<jobs, open, done, worker, main, unsent>>

\* An encoding is stored and its slab moves from deltas to the cache; the loop
\* counts as many results as there are changed slabs.
StoreResult ==
    /\ main = "collect" /\ awaited > 0 /\ Collected
    /\ ~ Head(results).err
    /\ base' = [base EXCEPT ![Head(results).slabID] = Head(results).data]
    /\ Applied(Head(results).slabID)
    /\ awaited' = awaited - 1
    /\ UNCHANGED <<heap, nextIndex, phase>>
    /\ UNCHANGED <<jobs, open, done, worker, main, unsent>>

\* The base storage fails, or the result that was received is an error.
\* Either stops the encoders.
ParallelError ==
    /\ \/ main = "remove" /\ Deleted # {} /\ UNCHANGED results
       \/ main = "collect" /\ awaited > 0 /\ Collected
    /\ CommitError
    /\ done' = TRUE
    /\ main' = "return"
    /\ UNCHANGED <<jobs, open, worker, unsent, awaited>>

SerialError ==
    /\ main = "serial" /\ CommitError
    /\ main' = "return"
    /\ UNCHANGED <<poolVars, unsent, awaited>>

\* The last slab is done, or the last result received: the call returns nil.
End ==
    /\ \/ main = "serial" /\ pending = {}
       \/ main = "collect" /\ awaited = 0
    /\ phase' = "committed" /\ pending' = {}
    /\ main' = "return"
    /\ UNCHANGED <<heap, deltas, cache, base, nextIndex, forsaken>>
    /\ UNCHANGED <<poolVars, unsent, awaited>>

Return ==
    /\ main = "return" /\ Shutdown
    /\ main' = "idle" /\ awaited' = 0
    /\ UNCHANGED <<vars, unsent>>

MainStep ==
    \/ \E id \in SlabID : SerialSave(id)
    \/ \E id \in SlabID : SendJob(id)
    \/ \E id \in SlabID : RemoveDeleted(id)
    \/ RemovesDone
    \/ StoreResult
    \/ ParallelError
    \/ SerialError
    \/ End
    \/ Return

-----------------------------------------------------------------------------
\* Any number of calls, one after the other, on what the last one left.
Inactive == Idle /\ main = "idle" /\ unsent = {} /\ awaited = 0

CallInit == InitWithDeltas /\ Inactive

CallNext == \/ BeginSerial
            \/ BeginParallel
            \/ MainStep
            \/ \E w \in Workers : EncoderStep(w)

\* The Go scheduler runs every goroutine that can run.
CallFairness ==
    /\ WF_nfcVars(MainStep)
    /\ \A w \in Workers : WF_nfcVars(EncoderStep(w))

CallSpec == CallInit /\ [][CallNext]_nfcVars /\ CallFairness

\* The life of a storage that is saved by these calls: between them it does
\* what SlabStorage says, and the process can die in the middle of one.
OtherStep ==
    /\ main = "idle"
    /\ ContainerStep \/ ReadStep \/ DropStep
    /\ UNCHANGED <<poolVars, callVars>>

RestartDuringCall ==
    /\ main # "idle"
    /\ Restart /\ Kill
    /\ main' = "idle" /\ unsent' = {} /\ awaited' = 0

LifeNext == CallNext \/ OtherStep \/ RestartDuringCall

LifeSpec == Init /\ Inactive /\ [][LifeNext]_nfcVars

-----------------------------------------------------------------------------
(* Properties.                                                             *)

\* A slab is saved in one piece whatever order the encodings arrive in, and an
\* error on the way loses no unsaved change: like Commit, it implements
\* WriteBackStore.
ImplementsStoreUnordered == 
    [][Store!Next]_<<[id \in SlabID |-> View(id)], base, ~ Ready>>

\* NondeterministicFastCommit returns.
CallReturns == main # "idle" ~> main = "idle"

\* No goroutine outlives the call; the calling goroutine never blocks on the
\* job queue nor an encoder on the results channel, both of which have one
\* place per changed slab; and if encoders were started the calling goroutine
\* never waits for a result that nobody is going to send.
GoroutinesAreContained ==
    /\ main = "idle" => AllGone
    /\ main = "collect" /\ awaited > 0 /\ Workers # {} => Answering
    /\ main = "send" => Len(jobs) + Cardinality(unsent) <= Cardinality(Modified)
    /\ Len(results) + Cardinality({w \in Workers : worker[w].at = "work"})
         <= Cardinality(Modified)

-----------------------------------------------------------------------------
(* The invariant that the proofs in NondeterministicFastCommitProofs rest  *)
(* on.                                                                     *)

\* The pool has jobs for changed slabs only, with the slab that deltas has,
\* and an answer is the encoding that the slab still has.
PoolIsCurrent ==
    PoolHolds({Job(id) : id \in Modified}, {Encoding(Job(id)) : id \in Modified})

\* While goroutines run, a changed slab that is not saved yet is in the pool
\* unless it is still to be sent, and the loop counts those slabs.
ParallelIsOnCourse ==
    main \in {"send", "remove", "collect"} =>
        /\ ~ done
        /\ unsent \subseteq Modified
        /\ \A id \in Modified : id \in unsent <=> ~ InPool(id)
        /\ awaited = Cardinality(Modified)
        /\ main = "send" <=> unsent # {}
        /\ main = "send" <=> open
        /\ main = "collect" => Deleted = {}
        /\ (open \/ jobs # <<>>) /\ Workers # {} =>
              \E w \in Workers : worker[w] # Gone

NFCInv ==
    /\ main \in {"idle", "serial", "send", "remove", "collect", "return"}
    /\ phase = "committing" <=> main \in {"serial", "send", "remove", "collect"}
    /\ awaited \in Nat
    /\ main \in {"idle", "serial"} => Idle
    /\ main \in {"idle", "serial", "return"} => unsent = {}
    /\ PoolIsCurrent
    /\ EachKeyOnce
    /\ ParallelIsOnCourse
=============================================================================
