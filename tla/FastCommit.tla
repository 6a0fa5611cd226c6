----------------------------- MODULE FastCommit -----------------------------
(***************************************************************************)
(* PersistentSlabStorage.FastCommit (storage.go): account slabs of deltas  *)
(* are encoded by a pool of goroutines, which read the deltas map; the     *)
(* calling goroutine collects all encodings and then applies them to the   *)
(* base storage in the order of slab IDs.                                  *)
(*                                                                         *)
(* The storage around the call is SlabStorage, with FastCommit in place of *)
(* Commit.                                                                 *)
(***************************************************************************)
EXTENDS SlabStorage, WorkerPool

\* Encoded data is not nil.
ASSUME DataAssumption == Nil \notin Contents

VARIABLES main,     \* where the calling goroutine is in FastCommit
          encoded,  \* encSlabByID: SlabID -> encoded slab, Nil, or Absent
          awaited   \* results the collecting loop has yet to receive

callVars == <<main, encoded, awaited>>
fcVars   == <<vars, poolVars, callVars>>

NothingEncoded == [id \in SlabID |-> Absent]

-----------------------------------------------------------------------------
\* The keys in the order the job queue is filled.
SortedKeys ==
    CHOOSE s \in [1..Cardinality(OwnedDeltas) -> OwnedDeltas] :
        \A i, j \in DOMAIN s : i < j => Before(s[i], s[j])

Job(id) == [slabID |-> id]

\* Without account slabs the call has nothing to encode or to apply.
FastCommitNothing ==
    /\ main = "idle" /\ OwnedDeltas = {}
    /\ CommitBegin
    /\ main' = "apply"
    /\ UNCHANGED <<poolVars, encoded, awaited>>

\* A bug: the job queue is not closed.
FastCommitBeginOpen ==
    /\ main = "idle" /\ OwnedDeltas # {}
    /\ CommitBegin
    /\ jobs' = [i \in DOMAIN SortedKeys |-> Job(SortedKeys[i])]
    /\ open' = TRUE
    /\ Launch(Cardinality(OwnedDeltas))
    /\ main' = "collect" /\ awaited' = Cardinality(OwnedDeltas)
    /\ UNCHANGED <<results, done, encoded>>

\* The job queue is filled and closed before the encoders start.
FastCommitBegin ==
    /\ main = "idle" /\ OwnedDeltas # {}
    /\ CommitBegin
    /\ jobs' = [i \in DOMAIN SortedKeys |-> Job(SortedKeys[i])]
    /\ open' = FALSE
    /\ Launch(Cardinality(OwnedDeltas))
    /\ main' = "collect" /\ awaited' = Cardinality(OwnedDeltas)
    /\ UNCHANGED <<results, done, encoded>>

\* An encoder looks its slab up in deltas and encodes it; a removed slab has
\* no data.
Encoding(id) ==
    LET e == deltas[id] IN
      IF e \in Objects
        THEN [slabID |-> id, data |-> EncodeSlab(heap[e]),
              err |-> heap[e].val \in Unencodable]
        ELSE [slabID |-> id, data |-> Nil, err |-> FALSE]

EncoderStep(w) ==
    /\ \/ Receive(w)
       \/ Finish(w)
       \/ Check(w)
       \/ Send(w, Encoding(worker[w].job.slabID))
    /\ UNCHANGED <<vars, callVars>>

\* A bug: results are applied as they arrive.
CollectAndApply ==
    /\ main = "collect" /\ Collected
    /\ ~ Head(results).err
    /\ encoded' = [encoded EXCEPT ![Head(results).slabID] = Head(results).data]
    /\ main' = "apply" /\ awaited' = awaited - 1
    /\ UNCHANGED <<vars, jobs, open, done, worker>>

\* A bug: the error in the result is not looked at.
CollectAnything ==
    /\ main = "collect" /\ Collected
    /\ encoded' = [encoded EXCEPT ![Head(results).slabID] = Head(results).data]
    /\ awaited' = awaited - 1
    /\ main' = IF awaited' = 0 THEN "apply" ELSE "collect"
    /\ UNCHANGED <<vars, jobs, open, done, worker>>

\* One result is received; the loop counts as many as there are keys.
Collect1 ==
    /\ main = "collect" /\ Collected
    /\ ~ Head(results).err
    /\ encoded' = [encoded EXCEPT ![Head(results).slabID] = Head(results).data]
    /\ awaited' = awaited - 1
    /\ main' = IF awaited' = 0 THEN "apply" ELSE "collect"
    /\ UNCHANGED <<vars, jobs, open, done, worker>>

\* The first error stops the encoders and ends the call.
CollectError ==
    /\ main = "collect" /\ Collected
    /\ Head(results).err
    /\ CommitError
    /\ done' = TRUE
    /\ main' = "return"
    /\ UNCHANGED <<jobs, open, worker, encoded, awaited>>

\* A bug: the cache keeps the slab that was removed.
ApplyRemovedStaleCache(id) ==
    /\ encoded[id] \in {Nil, Absent}
    /\ base' = [base EXCEPT ![id] = Absent]
    /\ deltas' = [deltas EXCEPT ![id] = Absent]
    /\ UNCHANGED cache

\* The encodings are applied in the order of the keys.  A key that has no
\* encoding in the map reads as nil: its slab is removed.
ApplyRemoved(id) ==
    /\ encoded[id] \in {Nil, Absent}
    /\ base' = [base EXCEPT ![id] = Absent]
    /\ cache' = [cache EXCEPT ![id] = Nil]
    /\ deltas' = [deltas EXCEPT ![id] = Absent]

ApplyChanged(id) ==
    /\ encoded[id] \notin {Nil, Absent}
    /\ base' = [base EXCEPT ![id] = encoded[id]]
    /\ cache' = [cache EXCEPT ![id] = deltas[id]]
    /\ deltas' = [deltas EXCEPT ![id] = Absent]

Apply(id) ==
    /\ main = "apply" /\ NextKey(id)
    /\ ApplyRemoved(id) \/ ApplyChanged(id)
    /\ pending' = pending \ {id}
    /\ forsaken' = forsaken \ {id}
    /\ UNCHANGED <<heap, nextIndex, phase>>
    /\ UNCHANGED <<poolVars, callVars>>

ApplyError ==
    /\ main = "apply" /\ CommitError
    /\ main' = "return"
    /\ UNCHANGED <<poolVars, encoded, awaited>>

ApplyEnd ==
    /\ main = "apply" /\ CommitEnd
    /\ main' = "return"
    /\ UNCHANGED <<poolVars, encoded, awaited>>

\* The deferred function runs and the call returns.
Return ==
    /\ main = "return" /\ Shutdown
    /\ main' = "idle" /\ encoded' = NothingEncoded /\ awaited' = 0
    /\ UNCHANGED vars

MainStep ==
    \/ Collect1
    \/ CollectError
    \/ \E id \in SlabID : Apply(id)
    \/ ApplyError
    \/ ApplyEnd
    \/ Return

FastCommitStep == MainStep \/ \E w \in Workers : EncoderStep(w)

-----------------------------------------------------------------------------
\* Between calls the storage does what SlabStorage says.
OtherStep ==
    /\ main = "idle"
    /\ ContainerStep \/ ReadStep \/ DropStep
    /\ UNCHANGED <<poolVars, callVars>>

RestartDuringCall ==
    /\ main # "idle"
    /\ Restart /\ Kill
    /\ main' = "idle" /\ encoded' = NothingEncoded /\ awaited' = 0

FCInit == /\ Init /\ Idle
          /\ main = "idle" /\ encoded = NothingEncoded /\ awaited = 0

FCNext == \/ OtherStep
          \/ FastCommitNothing
          \/ FastCommitBegin
          \/ FastCommitStep
          \/ RestartDuringCall

\* The Go scheduler runs every goroutine that can run.
CallFairness ==
    /\ WF_fcVars(MainStep)
    /\ \A w \in Workers : WF_fcVars(EncoderStep(w))

FCSpec == FCInit /\ [][FCNext]_fcVars /\ CallFairness

-----------------------------------------------------------------------------
(* Properties.                                                             *)

\* No encoder reads the deltas map while the calling goroutine writes it
\* (a data race in Go): storage.go applies only after the last result.
NoRaceOnDeltas ==
    main = "apply" => \A w \in Workers : worker[w].at \notin {"check", "work"}

\* The base storage is untouched unless every slab could be encoded: after an
\* encoding error FastCommit has saved nothing (Commit may have saved some).
NothingSavedUnlessAllEncoded ==
    [][base' # base =>
          \A id \in OwnedDeltas : deltas[id] \in Objects =>
              heap[deltas[id]].val \notin Unencodable]_fcVars

\* No goroutine outlives the call ("all goroutines are stopped before output
\* channel is closed", storage.go), none blocks on the results channel, whose
\* capacity is the number of keys, and the calling goroutine, if it started
\* any, never waits for a result that nobody is going to send.
GoroutinesAreContained ==
    /\ main = "idle" => AllGone
    /\ main = "collect" /\ Workers # {} => Answering
    /\ Len(results) + Cardinality({w \in Workers : worker[w].at = "work"})
         <= Cardinality(OwnedDeltas)

\* FastCommit writes what Commit writes, in the same order, and leaves the
\* same deltas and cache behind, at whichever point either of them stops.
ImplementsCommit == Spec

\* FastCommit returns.
CallReturns == main # "idle" ~> main = "idle"

-----------------------------------------------------------------------------
(* The invariant that the proofs in FastCommitProofs rest on.              *)

Encoded == {id \in SlabID : encoded[id] # Absent}

\* The pool has jobs for keys of the call only, and an answer is the encoding
\* that the slab still has.
PoolIsCurrent ==
    PoolHolds({Job(id) : id \in OwnedDeltas}, {Encoding(id) : id \in OwnedDeltas})

\* The encodings in the map are current until they are applied.
EncodedIsCurrent ==
    /\ encoded \in [SlabID -> Contents \cup {Nil, Absent}]
    /\ \A id \in OwnedDeltas \cap Encoded :
          encoded[id] = Encoding(id).data /\ ~ Encoding(id).err

\* While results are collected every key is in the pool or encoded, never
\* both, and the loop counts the keys that are not encoded yet.
CollectIsOnCourse ==
    main = "collect" =>
        /\ phase = "committing" /\ ~ done /\ awaited > 0
        /\ Encoded \subseteq OwnedDeltas
        /\ \A id \in OwnedDeltas : id \in Encoded <=> ~ InPool(id)
        /\ awaited + Cardinality(Encoded) = Cardinality(OwnedDeltas)
        /\ jobs # <<>> /\ Workers # {} => \E w \in Workers : worker[w] # Gone

\* When encodings are applied all of them are there and the pool has no key.
ApplyIsOnCourse ==
    main = "apply" =>
        /\ phase = "committing"
        /\ OwnedDeltas \subseteq Encoded
        /\ \A id \in SlabID : ~ InPool(id)

FastCommitInv ==
    /\ main \in {"idle", "collect", "apply", "return"}
    /\ awaited \in Nat /\ ~ open
    /\ main = "idle" => Idle /\ encoded = NothingEncoded
    /\ PoolIsCurrent
    /\ EachKeyOnce
    /\ EncodedIsCurrent
    /\ CollectIsOnCourse
    /\ ApplyIsOnCourse
=============================================================================
