----------------------------- MODULE WorkerPool -----------------------------
(***************************************************************************)
(* The goroutine pool that FastCommit, NondeterministicFastCommit and      *)
(* BatchPreload each build for one call (storage.go): a buffered channel   *)
(* of jobs, a buffered channel of results, a done channel that is closed   *)
(* to stop early, and a wait group.  A worker runs                         *)
(*                                                                         *)
(*   for job := range jobs {                                               *)
(*     select { case <-done: return; default: }                            *)
(*     results <- work(job)                                                *)
(*   }                                                                     *)
(*                                                                         *)
(* The module has no behaviour of its own: the modules of the three calls  *)
(* say what a job and its result are and what the calling goroutine does.  *)
(***************************************************************************)
EXTENDS Naturals, Sequences, FiniteSets

CONSTANTS Workers  \* the goroutines of one call, numWorkers of them

ASSUME WorkersAssumption == IsFiniteSet(Workers)

VARIABLES jobs,     \* the jobs channel
          open,     \* the jobs channel is not closed yet
          results,  \* the results channel
          done,     \* the done channel is closed
          worker    \* worker -> [at |-> where it is, job |-> what it took]

poolVars == <<jobs, open, results, done, worker>>

NoJob   == <<>>
Gone    == [at |-> "gone", job |-> NoJob]
Waiting == [at |-> "range", job |-> NoJob]

\* Nobody is left for the wait group to wait for.
AllGone == \A w \in Workers : worker[w] = Gone

Idle == /\ jobs = <<>> /\ open = FALSE
        /\ results = <<>> /\ done = FALSE
        /\ worker = [w \in Workers |-> Gone]

\* At most as many goroutines are started as there are jobs at most.
Launch(maxJobs) ==
    \E W \in SUBSET Workers :
        /\ Cardinality(W) = IF Cardinality(Workers) > maxJobs
                              THEN maxJobs ELSE Cardinality(Workers)
        /\ worker' = [w \in Workers |-> IF w \in W THEN Waiting ELSE Gone]

\* The next round of the range loop: a job, or the end of a closed channel.
Receive(w) ==
    /\ worker[w] = Waiting
    /\ jobs # <<>>
    /\ worker' = [worker EXCEPT ![w] = [at |-> "check", job |-> Head(jobs)]]
    /\ jobs' = Tail(jobs)
    /\ UNCHANGED <<open, results, done>>

Finish(w) ==
    /\ worker[w] = Waiting
    /\ jobs = <<>> /\ ~ open
    /\ worker' = [worker EXCEPT ![w] = Gone]
    /\ UNCHANGED <<jobs, open, results, done>>

\* The select statement: a job taken after done was closed is not worked on.
Check(w) ==
    /\ worker[w].at = "check"
    /\ worker' = [worker EXCEPT ![w] =
                     IF done THEN Gone ELSE [at |-> "work", job |-> @.job]]
    /\ UNCHANGED <<jobs, open, results, done>>

\* The work is done and its result sent.
Send(w, result) ==
    /\ worker[w].at = "work"
    /\ worker' = [worker EXCEPT ![w] = Waiting]
    /\ results' = Append(results, result)
    /\ UNCHANGED <<jobs, open, done>>

\* The caller takes a result.
Collected == /\ results # <<>>
             /\ results' = Tail(results)

\* A bug: the call does not wait for the goroutines.
ShutdownAtOnce ==
    /\ jobs' = <<>> /\ open' = FALSE
    /\ results' = <<>> /\ done' = FALSE
    /\ UNCHANGED worker

\* The deferred function: wait for the goroutines, then drop the channels.
Shutdown == /\ AllGone
            /\ jobs' = <<>> /\ open' = FALSE
            /\ results' = <<>> /\ done' = FALSE
            /\ UNCHANGED worker

\* The process dies.
Kill == /\ jobs' = <<>> /\ open' = FALSE
        /\ results' = <<>> /\ done' = FALSE
        /\ worker' = [w \in Workers |-> Gone]

-----------------------------------------------------------------------------
(* The invariants that the proofs about the three calls rest on.  Jobs and *)
(* results are records; their field slabID is the key a job is about.      *)

\* The worker has taken a job and not yet answered it.
Busy(w) == worker[w].at \in {"check", "work"}

\* A key is in the pool: queued, taken by a worker, or answered.
InPool(id) ==
    \/ \E i \in DOMAIN jobs : jobs[i].slabID = id
    \/ \E w \in Workers : Busy(w) /\ worker[w].job.slabID = id
    \/ \E i \in DOMAIN results : results[i].slabID = id

\* The pool works on jobs of J only and has answers of R only.
PoolHolds(J, R) ==
    /\ jobs \in Seq(J) /\ open \in BOOLEAN
    /\ results \in Seq(R) /\ done \in BOOLEAN
    /\ worker \in [Workers -> {Gone, Waiting} \cup [at : {"check", "work"}, job : J]]

\* No key is in the pool twice: no two jobs, workers or results are about the
\* same key, nor is a job or a worker about a key that has been answered.
EachKeyOnce ==
    /\ \A i, j \in DOMAIN jobs : jobs[i].slabID = jobs[j].slabID => i = j
    /\ \A i, j \in DOMAIN results :
          results[i].slabID = results[j].slabID => i = j
    /\ \A v, w \in Workers :
          Busy(v) /\ Busy(w) /\ worker[v].job.slabID = worker[w].job.slabID => v = w
    /\ \A i \in DOMAIN jobs, j \in DOMAIN results :
          jobs[i].slabID # results[j].slabID
    /\ \A w \in Workers : Busy(w) =>
          /\ \A i \in DOMAIN jobs : jobs[i].slabID # worker[w].job.slabID
          /\ \A i \in DOMAIN results : results[i].slabID # worker[w].job.slabID

\* Somebody is about to answer, or has answered: a caller that waits for a
\* result gets one.
Answering ==
    \/ results # <<>>
    \/ \E w \in Workers : Busy(w) \/ (worker[w] = Waiting /\ jobs # <<>>)
=============================================================================
