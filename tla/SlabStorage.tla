---------------------------- MODULE SlabStorage -----------------------------
(***************************************************************************)
(* PersistentSlabStorage (storage.go): slabs in memory over a base storage *)
(* of encoded slabs.                                                       *)
(*                                                                         *)
(* A slab is a Go object reached through pointers: "deltas" (changed and   *)
(* not yet saved), "cache" (as read or as saved) and the containers in the *)
(* program all point at the same objects, and a container changes a slab   *)
(* in place before it stores it.  So the model has a heap of slab objects, *)
(* and both maps hold object names.  A slab object knows its own slab ID,  *)
(* which changes in place when a root is split or a child is promoted.     *)
(*                                                                         *)
(* The storage is used by one goroutine.  Commit and BatchPreload are      *)
(* loops over several base storage calls, any of which can fail, and the   *)
(* process can die between two of them: each iteration is one step.        *)
(***************************************************************************)
EXTENDS Integers, FiniteSets

CONSTANTS Address,      \* account addresses, numbers; TempAddress is one
          MaxIndex,     \* bound on the slab indexes of each address
          Objects,      \* bound on the slab objects alive at one time
          Contents,     \* what a slab can hold
          Unencodable,  \* the contents EncodeSlab rejects
          Nil,          \* Go's nil slab: "removed"
          Absent        \* no entry in a map or in the base storage

TempAddress == 0        \* AddressUndefined

SlabID   == UNION {{a} \X (1..MaxIndex[a]) : a \in Address}
OwnedIDs == {id \in SlabID : id[1] # TempAddress}
Slab     == [id : SlabID, val : Contents]
Entry    == Objects \cup {Nil, Absent}

ASSUME ConstantsAssumption ==
    /\ Address \subseteq Nat /\ TempAddress \in Address
    /\ MaxIndex \in [Address -> Nat]
    /\ Unencodable \subseteq Contents
    /\ Nil \notin Objects /\ Absent \notin Objects /\ Nil # Absent
    /\ Absent \notin Contents /\ Absent \notin Slab

\* An address is eight bytes long.
ASSUME AddressAssumption == IsFiniteSet(Address)

VARIABLES heap,       \* slab objects: a Slab, or Absent for memory not in use
          deltas,     \* SlabID -> Entry
          cache,      \* SlabID -> Entry
          base,       \* SlabID -> encoded slab or Absent
          nextIndex,  \* Address -> last index handed out for the address
          phase,      \* what the storage's caller is waiting for, or last saw
          pending,    \* IDs the running Commit or BatchPreload has yet to do
          forsaken    \* history: IDs whose delta DropDeltas threw away while
                      \* the cache entry stayed

vars == <<heap, deltas, cache, base, nextIndex, phase, pending, forsaken>>

Phases == {"idle", "committing", "committed", "preloading"}

TypeOK ==
    /\ heap \in [Objects -> Slab \cup {Absent}]
    /\ deltas \in [SlabID -> Entry]
    /\ cache \in [SlabID -> Entry]
    /\ base \in [SlabID -> Contents \cup {Absent}]
    /\ nextIndex \in [Address -> Nat]
    /\ \A a \in Address : nextIndex[a] <= MaxIndex[a]
    /\ phase \in Phases
    /\ pending \subseteq SlabID
    /\ forsaken \subseteq SlabID

-----------------------------------------------------------------------------
\* EncodeSlab writes everything but the ID, which is the key of the data;
\* DecodeSlab builds a new slab object from the key and the data.
EncodeSlab(slab)     == slab.val
DecodeSlab(id, data) == [id |-> id, val |-> data]

\* Slab IDs are ordered by address, then by index.
Before(id, other) ==
    \/ id[1] < other[1]
    \/ id[1] = other[1] /\ id[2] < other[2]

\* A bug: the temporary address is not left out.
OwnedDeltasWithTemp == {id \in SlabID : deltas[id] # Absent}

\* The account IDs in deltas.
OwnedDeltas == {id \in OwnedIDs : deltas[id] # Absent}

Unused == {o \in Objects : heap[o] = Absent}
Alive  == Objects \ Unused

\* The storage's methods are called one after the other.
Ready == phase \notin {"committing", "preloading"}

\* What Retrieve(id) hands out: a slab, or Absent for "not found".
SlabAt(e) == IF e \in Objects THEN heap[e] ELSE Absent

Retrieved(id) ==
    IF deltas[id] # Absent THEN SlabAt(deltas[id])
    ELSE IF cache[id] # Absent THEN SlabAt(cache[id])
    ELSE IF base[id] # Absent THEN DecodeSlab(id, base[id])
    ELSE Absent

-----------------------------------------------------------------------------
(* Operations of containers on slabs.                                      *)

\* NewArray, NewMap, the right half of a split, NewStorableSlab: an index is
\* allocated and a new slab is stored under it.
Create(addr, o, v) ==
    /\ Ready /\ o \in Unused
    /\ nextIndex[addr] < MaxIndex[addr]
    /\ LET id == <<addr, nextIndex[addr] + 1>> IN
         /\ nextIndex' = [nextIndex EXCEPT ![addr] = @ + 1]
         /\ heap' = [heap EXCEPT ![o] = [id |-> id, val |-> v]]
         /\ deltas' = [deltas EXCEPT ![id] = o]
    /\ phase' = "idle"
    /\ UNCHANGED <<cache, base, pending, forsaken>>

\* A container changes a slab it has a pointer to, in place, and stores it
\* under the slab's own ID.  The pointer may be older than the cache entry.
Update(o, v) ==
    /\ Ready /\ o \in Alive
    /\ heap' = [heap EXCEPT ![o].val = v]
    /\ deltas' = [deltas EXCEPT ![heap[o].id] = o]
    /\ phase' = "idle"
    /\ UNCHANGED <<cache, base, nextIndex, pending, forsaken>>

\* A container removes a slab (merged into a sibling, inlined, emptied).
Remove(id) ==
    /\ Ready /\ id[2] <= nextIndex[id[1]]
    /\ deltas' = [deltas EXCEPT ![id] = Nil]
    /\ phase' = "idle"
    /\ UNCHANGED <<heap, cache, base, nextIndex, pending, forsaken>>

\* splitRoot: the old root object o moves to a new ID, a new object r takes
\* the root's ID.
SplitRoot(o, r, v, w) ==
    /\ Ready /\ o \in Alive /\ r \in Unused
    /\ LET root == heap[o].id
           id   == <<root[1], nextIndex[root[1]] + 1>> IN
         /\ nextIndex[root[1]] < MaxIndex[root[1]]
         /\ nextIndex' = [nextIndex EXCEPT ![root[1]] = @ + 1]
         /\ heap' = [heap EXCEPT ![o] = [id |-> id, val |-> v],
                                 ![r] = [id |-> root, val |-> w]]
         /\ deltas' = [deltas EXCEPT ![id] = o, ![root] = r]
    /\ phase' = "idle"
    /\ UNCHANGED <<cache, base, pending, forsaken>>

\* A bug: the child's old ID is not removed.
PromoteChildKeepOld(child, root, v) ==
    /\ Ready /\ child \in Alive /\ Retrieved(root) # Absent
    /\ heap[child].id # root /\ heap[child].id[1] = root[1]
    /\ heap' = [heap EXCEPT ![child] = [id |-> root, val |-> v]]
    /\ deltas' = [deltas EXCEPT ![root] = child]
    /\ phase' = "idle"
    /\ UNCHANGED <<cache, base, nextIndex, pending, forsaken>>

\* promoteChildAsNewRoot: the child object takes over the root's ID, its old
\* ID is removed.
PromoteChild(child, root, v) ==
    /\ Ready /\ child \in Alive /\ Retrieved(root) # Absent
    /\ LET old == heap[child].id IN
         /\ old # root /\ old[1] = root[1]
         /\ heap' = [heap EXCEPT ![child] = [id |-> root, val |-> v]]
         /\ deltas' = [deltas EXCEPT ![root] = child, ![old] = Nil]
    /\ phase' = "idle"
    /\ UNCHANGED <<cache, base, nextIndex, pending, forsaken>>

-----------------------------------------------------------------------------
(* Reads.                                                                  *)

\* RetrieveIgnoringDeltas(id, true): with no cache entry the slab is decoded
\* from the base storage into a new object that the cache keeps.  A missing
\* slab is not remembered, and a failing base storage changes nothing.
RetrieveIgnoringDeltas(id, o) ==
    /\ Ready /\ o \in Unused
    /\ cache[id] = Absent
    /\ base[id] # Absent
    /\ heap' = [heap EXCEPT ![o] = DecodeSlab(id, base[id])]
    /\ cache' = [cache EXCEPT ![id] = o]
    /\ phase' = "idle"
    /\ UNCHANGED <<deltas, base, nextIndex, pending, forsaken>>

\* Retrieve looks into deltas first; reads answered from memory change nothing.
Retrieve(id, o) == deltas[id] = Absent /\ RetrieveIgnoringDeltas(id, o)

\* BatchPreload of fewer than minCountForBatchPreload IDs.
BatchPreloadBegin(ids) ==
    /\ Ready
    /\ phase' = "preloading" /\ pending' = ids
    /\ UNCHANGED <<heap, deltas, cache, base, nextIndex, forsaken>>

\* One iteration: the base storage is read and the decoded slab replaces
\* whatever the cache had, also under a delta.
BatchPreloadSlab(id, o) ==
    /\ phase = "preloading" /\ id \in pending
    /\ base[id] # Absent /\ o \in Unused
    /\ heap' = [heap EXCEPT ![o] = DecodeSlab(id, base[id])]
    /\ cache' = [cache EXCEPT ![id] = o]
    /\ pending' = pending \ {id}
    /\ forsaken' = forsaken \ {id}
    /\ UNCHANGED <<deltas, base, nextIndex, phase>>

BatchPreloadSkip(id) ==
    /\ phase = "preloading" /\ id \in pending
    /\ base[id] = Absent
    /\ pending' = pending \ {id}
    /\ UNCHANGED <<heap, deltas, cache, base, nextIndex, phase, forsaken>>

\* The end of the loop, or an error of the base storage in the middle of it.
BatchPreloadEnd ==
    /\ phase = "preloading"
    /\ phase' = "idle" /\ pending' = {}
    /\ UNCHANGED <<heap, deltas, cache, base, nextIndex, forsaken>>

-----------------------------------------------------------------------------
(* Commit.                                                                 *)

CommitBegin ==
    /\ Ready
    /\ phase' = "committing" /\ pending' = OwnedDeltas
    /\ UNCHANGED <<heap, deltas, cache, base, nextIndex, forsaken>>

\* A bug: the map is iterated as it comes.
NextKeyUnsorted(id) == phase = "committing" /\ id \in pending

\* The keys are sorted: the next one is the least of those left.
NextKey(id) ==
    /\ phase = "committing" /\ id \in pending
    /\ \A other \in pending \ {id} : Before(id, other)

\* A slab leaves deltas for the cache once the base storage has it, so that
\* the next read is from memory and the next commit does not repeat it.
Applied(id) ==
    /\ cache' = [cache EXCEPT ![id] = deltas[id]]
    /\ deltas' = [deltas EXCEPT ![id] = Absent]
    /\ pending' = pending \ {id}
    /\ forsaken' = forsaken \ {id}

SaveRemoved(id) ==
    /\ deltas[id] = Nil
    /\ base' = [base EXCEPT ![id] = Absent]
    /\ Applied(id)
    /\ UNCHANGED <<heap, nextIndex, phase>>

SaveChanged(id) ==
    /\ deltas[id] \in Objects
    /\ heap[deltas[id]].val \notin Unencodable
    /\ base' = [base EXCEPT ![id] = EncodeSlab(heap[deltas[id]])]
    /\ Applied(id)
    /\ UNCHANGED <<heap, nextIndex, phase>>

CommitRemoved(id) == NextKey(id) /\ SaveRemoved(id)
CommitChanged(id) == NextKey(id) /\ SaveChanged(id)

\* A bug: the error is swallowed.
CommitErrorIgnored ==
    /\ phase = "committing" /\ pending # {}
    /\ phase' = "committed" /\ pending' = {}
    /\ UNCHANGED <<heap, deltas, cache, base, nextIndex, forsaken>>

\* EncodeSlab, or Store or Remove of the base storage, returns an error.
CommitError ==
    /\ phase = "committing" /\ pending # {}
    /\ phase' = "idle" /\ pending' = {}
    /\ UNCHANGED <<heap, deltas, cache, base, nextIndex, forsaken>>

CommitEnd ==
    /\ phase = "committing" /\ pending = {}
    /\ phase' = "committed"
    /\ UNCHANGED <<heap, deltas, cache, base, nextIndex, pending, forsaken>>

-----------------------------------------------------------------------------
(* Giving up memory.                                                       *)

DropDeltas ==
    /\ Ready
    /\ forsaken' = forsaken \cup {id \in SlabID : /\ deltas[id] # Absent
                                                  /\ cache[id] # Absent}
    /\ deltas' = [id \in SlabID |-> Absent]
    /\ phase' = "idle"
    /\ UNCHANGED <<heap, cache, base, nextIndex, pending>>

DropCache ==
    /\ Ready
    /\ cache' = [id \in SlabID |-> Absent]
    /\ forsaken' = {}
    /\ phase' = "idle"
    /\ UNCHANGED <<heap, deltas, base, nextIndex, pending>>

\* The program lets go of an object that the storage does not point at either.
Collect(o) ==
    /\ o \in Alive
    /\ \A id \in SlabID : deltas[id] # o /\ cache[id] # o
    /\ heap' = [heap EXCEPT ![o] = Absent]
    /\ UNCHANGED <<deltas, cache, base, nextIndex, phase, pending, forsaken>>

\* A bug: the accounts' indexes are not persistent.
RestartIndexes ==
    /\ heap' = [o \in Objects |-> Absent]
    /\ deltas' = [id \in SlabID |-> Absent]
    /\ cache' = [id \in SlabID |-> Absent]
    /\ nextIndex' = [a \in Address |-> 0]
    /\ phase' = "idle" /\ pending' = {} /\ forsaken' = {}
    /\ UNCHANGED base

\* The process dies and NewPersistentSlabStorage starts over on the same base
\* storage, whose index allocation survives; tempSlabIndex does not.
Restart ==
    /\ heap' = [o \in Objects |-> Absent]
    /\ deltas' = [id \in SlabID |-> Absent]
    /\ cache' = [id \in SlabID |-> Absent]
    /\ nextIndex' = [nextIndex EXCEPT ![TempAddress] = 0]
    /\ phase' = "idle" /\ pending' = {} /\ forsaken' = {}
    /\ UNCHANGED base

-----------------------------------------------------------------------------
Init ==
    /\ heap = [o \in Objects |-> Absent]
    /\ deltas = [id \in SlabID |-> Absent]
    /\ cache = [id \in SlabID |-> Absent]
    /\ base = [id \in SlabID |-> Absent]
    /\ nextIndex = [a \in Address |-> 0]
    /\ phase = "idle" /\ pending = {} /\ forsaken = {}

\* The storage as a caller can leave it before a commit: deltas holds changed,
\* removed and temporary slabs over any saved ones, nothing is cached.
InitWithDeltas ==
    /\ LET home == CHOOSE f \in [Objects -> SlabID] :
                     \A o, r \in Objects : o # r => f[o] # f[r] IN
         /\ heap \in {h \in [Objects -> Slab \cup {Absent}] :
                         \A o \in Objects : h[o] # Absent => h[o].id = home[o]}
         /\ deltas \in {d \in [SlabID -> Entry] :
                 \A o \in Objects, id \in SlabID :
                     d[id] = o <=> heap[o] # Absent /\ id = home[o]}
    /\ base \in [SlabID -> Contents \cup {Absent}]
    /\ \A id \in SlabID : base[id] # Absent => /\ id \in OwnedIDs
                                              /\ base[id] \notin Unencodable
    /\ cache = [id \in SlabID |-> Absent]
    /\ nextIndex = MaxIndex
    /\ phase = "idle" /\ pending = {} /\ forsaken = {}

ContainerStep ==
    \/ \E a \in Address, o \in Objects, v \in Contents : Create(a, o, v)
    \/ \E o \in Objects, v \in Contents : Update(o, v)
    \/ \E id \in SlabID : Remove(id)
    \/ \E o, r \in Objects, v, w \in Contents : SplitRoot(o, r, v, w)
    \/ \E o \in Objects, id \in SlabID, v \in Contents : PromoteChild(o, id, v)

ReadStep ==
    \/ \E id \in SlabID, o \in Objects : Retrieve(id, o)
    \/ \E id \in SlabID, o \in Objects : RetrieveIgnoringDeltas(id, o)
    \/ \E ids \in SUBSET SlabID : BatchPreloadBegin(ids)
    \/ \E id \in SlabID, o \in Objects : BatchPreloadSlab(id, o)
    \/ \E id \in SlabID : BatchPreloadSkip(id)
    \/ BatchPreloadEnd

CommitStep ==
    \/ \E id \in SlabID : CommitRemoved(id)
    \/ \E id \in SlabID : CommitChanged(id)
    \/ CommitError
    \/ CommitEnd

DropStep ==
    \/ DropDeltas
    \/ DropCache
    \/ \E o \in Objects : Collect(o)
    \/ Restart

Next == ContainerStep \/ ReadStep \/ CommitBegin \/ CommitStep \/ DropStep

Spec == Init /\ [][Next]_vars

-----------------------------------------------------------------------------
(* Properties.                                                             *)

\* What the callers' operations add up to: the unsaved change of a slab if
\* there is one, the saved slab otherwise.  The cache plays no part in it.
View(id) ==
    IF deltas[id] = Absent THEN base[id]
    ELSE IF deltas[id] \in Objects THEN EncodeSlab(heap[deltas[id]])
    ELSE Absent

FromData(id, data) == IF data = Absent THEN Absent ELSE DecodeSlab(id, data)

\* Retrieve returns the slab its caller last stored, or the saved one, under
\* its own ID, although cache and deltas share objects that containers change
\* and re-identify in place.  The exception is a slab whose delta DropDeltas
\* threw away while the cache kept an entry for it.
ReadsAreCoherent ==
    \A id \in SlabID \ forsaken : Retrieved(id) = FromData(id, View(id))

\* Once Commit returns nil, a new process reads from the base storage every
\* account slab that this one reads (storage.go: commit, DropDeltas).
CommittedIsSaved ==
    phase = "committed" =>
        \A id \in OwnedIDs \ forsaken : Retrieved(id) = FromData(id, base[id])

\* GenerateSlabID never hands out the ID of a slab that can still be reached,
\* in storage or through a pointer to a slab object.
IndexesAreFresh ==
    \A id \in SlabID :
        id[2] > nextIndex[id[1]] =>
            /\ Retrieved(id) = Absent
            /\ \A o \in Alive : heap[o].id # id

\* The base storage is written in the order of slab IDs ("sorted so commit
\* operation is deterministic"): no write overtakes the delta of a lower ID.
WritesAreOrdered ==
    [][\A id \in SlabID : base'[id] # base[id] =>
          \A other \in OwnedDeltas : ~ Before(other, id)]_vars

\* Slabs under the temporary address never reach the base storage, account
\* slabs reach it unchanged and one at a time, neither a commit nor a preload,
\* complete or not, loses an unsaved change: the storage implements
\* WriteBackStore.
Store == INSTANCE WriteBackStore
           WITH Ids <- SlabID, OwnedIds <- OwnedIDs, None <- Absent,
                view <- [id \in SlabID |-> View(id)], saved <- base,
                busy <- ~ Ready

ImplementsStore == Store!Spec

-----------------------------------------------------------------------------
(* The invariant that the proofs in SlabStorageProofs rest on.             *)

\* Deltas files a slab object under the ID the object has.
DeltasAreFiled ==
    \A id \in SlabID : deltas[id] \in Objects =>
        heap[deltas[id]] # Absent /\ heap[deltas[id]].id = id

\* The cache points at objects that exist.
CacheIsAlive ==
    \A id \in SlabID : cache[id] \in Objects => heap[cache[id]] # Absent

\* A cache entry that no delta hides and no dropped delta has spoiled is what
\* the base storage has.
CacheMatchesBase ==
    \A id \in SlabID \ forsaken :
        deltas[id] = Absent =>
            /\ cache[id] = Nil => base[id] = Absent
            /\ cache[id] \in Objects =>
                  base[id] # Absent /\ heap[cache[id]] = DecodeSlab(id, base[id])

\* Commit has to do exactly the account slabs that are left in deltas.
CommitIsOnCourse ==
    /\ phase = "committing" => pending = OwnedDeltas
    /\ phase = "committed" => OwnedDeltas = {}

\* Temporary slabs are in memory only.
TempIsNotSaved ==
    \A id \in SlabID \ OwnedIDs : base[id] = Absent

\* An ID not handed out yet is used nowhere.
UnallocatedIsUnused ==
    /\ \A id \in SlabID : id[2] > nextIndex[id[1]] =>
          deltas[id] \notin Objects /\ cache[id] \notin Objects /\ base[id] = Absent
    /\ \A o \in Objects : heap[o] # Absent =>
          heap[o].id[2] <= nextIndex[heap[o].id[1]]

StorageInv ==
    /\ TypeOK
    /\ DeltasAreFiled
    /\ CacheIsAlive
    /\ CacheMatchesBase
    /\ CommitIsOnCourse
    /\ TempIsNotSaved
    /\ UnallocatedIsUnused
=============================================================================
