--------------------------- MODULE ParallelPreload --------------------------
(***************************************************************************)
(* PersistentSlabStorage.BatchPreload (storage.go) with at least           *)
(* minCountForBatchPreload IDs: the calling goroutine reads encoded slabs  *)
(* from the base storage and hands them to a pool of decoders, then puts   *)
(* the decoded slabs into the cache as they arrive.  The job queue is      *)
(* closed by a deferred call, when BatchPreload returns.                   *)
(***************************************************************************)
EXTENDS SlabStorage, WorkerPool

CONSTANT Undecodable  \* the saved contents DecodeSlab rejects

ASSUME UndecodableAssumption == Undecodable \subseteq Contents

VARIABLES main,     \* where the calling goroutine is
          wanted,   \* the IDs of the call
          unread,   \* those not yet read from the base storage
          jobCount  \* jobs sent and not yet answered

callVars == <<main, wanted, unread, jobCount>>
ppVars   == <<vars, poolVars, callVars>>

-----------------------------------------------------------------------------
Begin(ids) ==
    /\ main = "idle" /\ ids # {}
    /\ BatchPreloadBegin(ids)
    /\ Launch(Cardinality(ids))
    /\ open' = TRUE
    /\ main' = "send" /\ wanted' = ids /\ unread' = ids /\ jobCount' = 0
    /\ UNCHANGED <<jobs, results, done>>

\* A bug: a slab that is not found counts as a job.
ReadMissingCounted(id) ==
    /\ main = "send" /\ id \in unread
    /\ BatchPreloadSkip(id)
    /\ unread' = unread \ {id}
    /\ jobCount' = jobCount + 1
    /\ UNCHANGED <<poolVars, main, wanted>>

\* A job carries what was read: decoders do not look at the base storage.
Job(id) == [slabID |-> id, data |-> base[id]]

\* A slab that is not in the base storage is skipped.
ReadAndSend(id) ==
    /\ main = "send" /\ id \in unread
    /\ base[id] # Absent
    /\ jobs' = Append(jobs, Job(id))
    /\ jobCount' = jobCount + 1
    /\ unread' = unread \ {id}
    /\ UNCHANGED <<vars, open, results, done, worker, main, wanted>>

ReadMissing(id) ==
    /\ main = "send" /\ id \in unread
    /\ BatchPreloadSkip(id)
    /\ unread' = unread \ {id}
    /\ UNCHANGED <<poolVars, main, wanted, jobCount>>

AllSent ==
    /\ main = "send" /\ unread = {}
    /\ main' = "collect"
    /\ UNCHANGED <<vars, poolVars, wanted, unread, jobCount>>

Decoding(job) ==
    [slabID |-> job.slabID, slab |-> DecodeSlab(job.slabID, job.data),
     err |-> job.data \in Undecodable]

DecoderStep(w) ==
    /\ \/ Receive(w)
       \/ Finish(w)
       \/ Check(w)
       \/ Send(w, Decoding(worker[w].job))
    /\ UNCHANGED <<vars, callVars>>

\* A bug: the slab is stored as if a caller had changed it.
CacheResultAsDelta(o) ==
    /\ main = "collect" /\ jobCount > 0 /\ Collected
    /\ ~ Head(results).err /\ o \in Unused
    /\ LET id == Head(results).slabID IN
         /\ heap' = [heap EXCEPT ![o] = Head(results).slab]
         /\ deltas' = [deltas EXCEPT ![id] = o]
         /\ pending' = pending \ {id}
    /\ jobCount' = jobCount - 1
    /\ UNCHANGED <<cache, base, nextIndex, phase, forsaken>>
    /\ UNCHANGED <<jobs, open, done, worker, main, wanted, unread>>

\* A decoded slab, a new object, goes into the cache.
CacheResult(o) ==
    /\ main = "collect" /\ jobCount > 0 /\ Collected
    /\ ~ Head(results).err /\ o \in Unused
    /\ LET id == Head(results).slabID IN
         /\ heap' = [heap EXCEPT ![o] = Head(results).slab]
         /\ cache' = [cache EXCEPT ![id] = o]
         /\ pending' = pending \ {id}
         /\ forsaken' = forsaken \ {id}
    /\ jobCount' = jobCount - 1
    /\ UNCHANGED <<deltas, base, nextIndex, phase>>
    /\ UNCHANGED <<jobs, open, done, worker, main, wanted, unread>>

\* The base storage fails, or a slab cannot be decoded: the decoders are told
\* to stop.
Error ==
    /\ \/ main = "send" /\ unread # {} /\ UNCHANGED results
       \/ main = "collect" /\ jobCount > 0 /\ Collected /\ Head(results).err
    /\ BatchPreloadEnd
    /\ done' = TRUE
    /\ main' = "return"
    /\ UNCHANGED <<jobs, open, worker, wanted, unread, jobCount>>

End ==
    /\ main = "collect" /\ jobCount = 0
    /\ BatchPreloadEnd
    /\ main' = "return"
    /\ UNCHANGED <<poolVars, wanted, unread, jobCount>>

\* A bug: the job queue is not closed.
CloseJobsNot ==
    /\ main = "return"
    /\ main' = "wait"
    /\ UNCHANGED <<vars, poolVars, wanted, unread, jobCount>>

\* The two deferred calls: close the job queue, then wait.
CloseJobs ==
    /\ main = "return"
    /\ open' = FALSE
    /\ main' = "wait"
    /\ UNCHANGED <<vars, jobs, results, done, worker, wanted, unread, jobCount>>

Return ==
    /\ main = "wait" /\ Shutdown
    /\ main' = "idle" /\ wanted' = {} /\ unread' = {} /\ jobCount' = 0
    /\ UNCHANGED vars

MainStep ==
    \/ \E id \in SlabID : ReadAndSend(id)
    \/ \E id \in SlabID : ReadMissing(id)
    \/ AllSent
    \/ \E o \in Objects : CacheResult(o)
    \/ Error
    \/ End
    \/ CloseJobs
    \/ Return

-----------------------------------------------------------------------------
Inactive == Idle /\ main = "idle" /\ wanted = {} /\ unread = {} /\ jobCount = 0

\* One call on a storage that has cached nothing and has removed some slabs.
CallInit ==
    /\ heap = [o \in Objects |-> Absent]
    /\ deltas \in [SlabID -> {Nil, Absent}]
    /\ base \in [SlabID -> Contents \cup {Absent}]
    /\ \A id \in SlabID \ OwnedIDs : base[id] = Absent
    /\ cache = [id \in SlabID |-> Absent]
    /\ nextIndex = MaxIndex
    /\ phase = "idle" /\ pending = {} /\ forsaken = {}
    /\ Inactive

CallNext ==
    \/ \E ids \in SUBSET SlabID : Unused = Objects /\ Begin(ids)
    \/ MainStep
    \/ \E w \in Workers : DecoderStep(w)

\* The Go scheduler runs every goroutine that can run.
CallFairness ==
    /\ WF_ppVars(MainStep)
    /\ \A w \in Workers : WF_ppVars(DecoderStep(w))

CallSpec == CallInit /\ [][CallNext]_ppVars /\ CallFairness

\* The life of a storage that is preloaded by these calls: between them it
\* does what SlabStorage says, and the process can die in the middle of one.
OtherStep ==
    /\ main = "idle"
    /\ Next
    /\ UNCHANGED <<poolVars, callVars>>

RestartDuringCall ==
    /\ main # "idle"
    /\ Restart /\ Kill
    /\ main' = "idle" /\ wanted' = {} /\ unread' = {} /\ jobCount' = 0

LifeNext ==
    \/ \E ids \in SUBSET SlabID : Begin(ids)
    \/ MainStep
    \/ \E w \in Workers : DecoderStep(w)
    \/ OtherStep
    \/ RestartDuringCall

LifeSpec == Init /\ Inactive /\ [][LifeNext]_ppVars

-----------------------------------------------------------------------------
(* Properties.                                                             *)

\* The loop that collects is left with every slab in the cache that was asked
\* for and that the base storage has; it waits for neither too few nor too
\* many results; and nothing is cached under an ID it was not read for.
PreloadIsComplete ==
    /\ main = "collect" => jobCount = Cardinality(pending)
    /\ main = "collect" /\ jobCount = 0 =>
          \A id \in wanted : cache[id] \in Objects <=> base[id] # Absent
    /\ \A id \in SlabID : cache[id] \in Objects =>
          heap[cache[id]] = DecodeSlab(id, base[id])

\* The parallel BatchPreload takes the steps of the sequential one.
ImplementsBatchPreload == [][ReadStep]_vars

\* BatchPreload returns, although the job queue is open while it runs.
CallReturns == main # "idle" ~> main = "idle"

\* No goroutine outlives the call; the calling goroutine never blocks on the
\* job queue nor a decoder on the results channel, both of which have one
\* place per ID; and if decoders were started the calling goroutine never
\* waits for a result that nobody is going to send.
GoroutinesAreContained ==
    /\ main = "idle" => AllGone
    /\ main = "collect" /\ jobCount > 0 /\ Workers # {} => Answering
    /\ main = "send" => Len(jobs) + Cardinality(unread) <= Cardinality(wanted)
    /\ Len(results) + Cardinality({w \in Workers : worker[w].at = "work"})
         <= Cardinality(wanted)

-----------------------------------------------------------------------------
(* The invariant that the proofs in ParallelPreloadProofs rest on.         *)

\* The IDs of the call that are in the base storage.
Found == {id \in wanted : base[id] # Absent}

\* The pool has jobs for found slabs only, with the data that the base storage
\* has, and an answer is the slab that they decode to.
PoolIsCurrent ==
    PoolHolds({Job(id) : id \in Found}, {Decoding(Job(id)) : id \in Found})

\* While goroutines run, a found slab is unread, in the pool, or cached, and
\* the loop counts those in the pool.
PreloadIsOnCourse ==
    main \in {"send", "collect"} =>
        /\ phase = "preloading" /\ ~ done /\ open
        /\ unread \subseteq pending /\ pending \subseteq wanted
        /\ \A id \in SlabID : InPool(id) <=> id \in pending \ unread
        /\ jobCount = Cardinality(pending \ unread)
        /\ main = "collect" => unread = {}
        /\ \A id \in Found \ pending : cache[id] \in Objects
        /\ Workers # {} => \E w \in Workers : worker[w] # Gone

PPInv ==
    /\ main \in {"idle", "send", "collect", "return", "wait"}
    /\ main \in {"return", "wait"} => phase = "idle"
    /\ wanted \subseteq SlabID /\ jobCount \in Nat
    /\ main = "idle" => Idle
    /\ PoolIsCurrent
    /\ EachKeyOnce
    /\ PreloadIsOnCourse

\* In a storage that has cached nothing else, an object in the cache is what
\* the base storage has under the same ID.
CacheIsPreloaded ==
    \A id \in SlabID : cache[id] \in Objects =>
        base[id] # Absent /\ heap[cache[id]] = DecodeSlab(id, base[id])
=============================================================================
