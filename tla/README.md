# A TLA+ model of atree

atree is a Go library that keeps arrays and ordered maps of any size as trees of
small segments ("slabs") in a key-value store. This directory holds TLA+ modules
that model it, TLC configurations that check them on small instances, and TLAPS
proofs, for instances of any size, of the properties of its storage layer, of the
goroutine pools that it uses, of the operations on single array slabs, of containers
nested in containers, and of the iteration, check and repair of a storage.

File names below are those of the Go sources. `PROJECT.json` maps every
definition to the lines it models, and lists runs, mutants, hazards and theorems.

## 1. The system

| Component | State | Operations | Talks to |
|---|---|---|---|
| `PersistentSlabStorage` (storage.go) | `deltas` (changed, unsaved slabs; nil = removed), `cache` (slabs as read or as saved), `tempSlabIndex` | `GenerateSlabID`, `Store`, `Remove`, `Retrieve`, `RetrieveIgnoringDeltas`, `RetrieveIfLoaded`, `Commit`, `DropDeltas`, `DropCache` | base storage; called by containers |
| `FastCommit`, `NondeterministicFastCommit`, `BatchPreload` (storage.go) | job and result channels, a done channel, a wait group, per call | one call each, with a pool of goroutines | the maps above, the base storage |
| `LedgerBaseStorage` (storage.go) | encoded slabs and the next slab index of each account, in a ledger | `Retrieve`, `Store`, `Remove`, `GenerateSlabID` | `Ledger`, supplied by the program |
| slab IDs (slab_id.go, value_id.go) | – | order, allocation; address 0 is the temporary address | everything |
| `Array` (array.go, array_*_slab.go) | a B+ tree of data slabs and metadata slabs; headers of children and cumulative counts in the parent; next links between data slabs | `Get`, `Set`, `Insert`, `Remove`, `PopIterate`, `NewArrayFromBatchData` | storage; the parent container |
| `OrderedMap` (map.go, map_*_slab.go, map_element*.go) | a B+ tree ordered by hash; elements are single, inline collision groups or external collision groups | `Get`, `Set`, `Remove`, `Has`, `PopIterate`, `NewMapFromBatchData` | storage, hash function; the parent container |
| nesting and inlining (inline_utils.go, array.go, map.go) | `inlined` flag, `parentUpdater` callback, `mutableElementIndex` | a small container is stored inside its parent's slab and moves out when it grows | both containers, storage |
| iterators (array_iterator.go, map_iterator.go) | position | mutable, read-only and loaded-only iteration | containers |
| encoding (encode.go, decode.go, \*_encode.go, \*_decode.go, flag.go) | – | slab to bytes and back | storage |
| validation (array_verify.go, map_verify.go, storage_health_check.go) | – | structural checks used by tests and migrations | containers, storage |
| repair (`FixLoadedBrokenReferences`, storage.go) | – | empties maps with dangling references | storage |

The library is sequential from its caller's view: one goroutine calls containers
and storage. Inside `FastCommit`, `NondeterministicFastCommit` and `BatchPreload`
it starts goroutines that share the storage's maps with the caller. The hard parts
are:

* **Sharing by pointer.** `deltas`, `cache` and the containers point at the same
  slab objects. Containers change an object in place, and even change its ID
  (root split, child promotion), before they tell the storage.
* **Failure in the middle of a loop.** Any base storage call and any encoding can
  fail; the process can die between two of them.
* **Goroutines over shared maps.** Who may read `deltas` while who deletes from it;
  bounded channels; who closes which channel; whether the call ever returns.
* **Redundant state in trees.** A metadata slab keeps copies of its children's
  headers and cumulative counts, and each operation adjusts them by increments on
  a dozen paths (split, merge with left or right, lend, borrow, at every level).
* **Byte arithmetic.** Whether a slab borrows, lends or merges depends on sizes of
  uneven elements.
* **Nesting.** A child changes its slab first and then tells its parent, which tells
  its own parent, through callbacks that outlive the place they were made for.
* **Sharing in encodings.** Inlined maps of one type with the same keys are written
  with one seed and one list of keys.
* **Storing what was changed.** An operation must hand every slab it changed to the
  storage, and remove each slab that leaves the tree; otherwise the change is in
  memory only and is lost with the process, or a slab is orphaned.

What makes each part correct:

* storage: a read gives what was last stored, or else what is saved; a commit that
  returns nil has saved everything but temporary slabs; one that fails loses
  nothing; writes are in ID order; an ID is never handed out twice;
* parallel calls: they do what the sequential code does, without a data race,
  leaked goroutine or deadlock;
* array: the tree passes `VerifyArray` after every operation, reads as the sequence
  its calls add up to, and memory and storage agree on which slabs exist and which
  have changed;
* map: the same, with elements ordered by digest and each key found in its
  collision group;
* nesting: a container is inlined exactly when it fits, and the parent's copy of it
  (element, size, index) is current; every change reaches the slab that holds it in
  the storage; the program cannot tell inlined containers from others;
* encoding: a slab comes back with the same contents, in an order that fits its
  seeds, and encodes to the same bytes again;
* graph of slabs: the iterator visits each slab once, the health check is right about
  what it accepts, a repair removes what is broken and nothing else.

## 2. Modules

| Module | Models | Extends |
|---|---|---|
| `WriteBackStore` | abstract specification: what callers may expect of a slab storage | – |
| `SlabStorage` | `PersistentSlabStorage` with sequential `Commit` and `BatchPreload` | – |
| `WorkerPool` | the goroutine pool of the three parallel calls | – |
| `FastCommit` | `FastCommit` in place of `Commit` | `SlabStorage`, `WorkerPool` |
| `NondeterministicFastCommit` | the call of that name | `SlabStorage`, `WorkerPool` |
| `ParallelPreload` | `BatchPreload` with many IDs | `SlabStorage`, `WorkerPool` |
| `SlabStore` | the size limits and the view of the storage that both trees use | – |
| `ArraySlabs` | array slabs as values: split, merge, lend, borrow, child lookup | `SlabStore` |
| `ArrayTree` | `Array` and its tree of slabs; `VerifyArray` | `ArraySlabs` |
| `ArrayIterators` | the read-only iterators of an array | `ArrayTree` |
| `MapElements` | the elements of a map data slab: singles, collision groups, the collision limit | `SlabStore` |
| `MapSlabs` | map slabs as values: split, merge, lend, borrow | `MapElements` |
| `MapTree` | `OrderedMap` and its tree of slabs; `VerifyMap` | `MapSlabs` |
| `MapIterators` | the mutable and read-only iterators of a map | `MapTree` |
| `Nesting` | abstract specification: containers in containers, to a program that knows nothing of slabs | – |
| `NestedContainers` | inlining, parent callbacks, `mutableElementIndex`, `SetType` | – |
| `SlabGraph` | slabs and references over deltas, cache and base storage: `SlabIterator`, `GetAllChildReferences`, `CheckStorageHealth` | – |
| `StorageRepair` | `FixLoadedBrokenReferences` and the calls around it | `SlabGraph` |
| `SlabEncoding` | encoding and decoding of slabs with inlined containers, shared extra data, compact maps | – |
| `SlabStorageProofs` | inductive invariant, safety theorems, and that the storage implements `WriteBackStore`; lemmas about the steps of goroutines and channels | `SlabStorage`, `WorkerPool` |
| `FastCommitProofs`, `NondeterministicFastCommitProofs`, `ParallelPreloadProofs` | invariants, safety and refinement of the three parallel calls | the module of that name, `SlabStorageProofs` |
| `ArraySlabsProofs` | sums of sizes; size limits, counts, lookup and encoding of data slabs and of metadata slabs | `ArraySlabs` |
| `NestedSlabsProofs` | lemmas about nested slabs: sizes, inlining, what a call does to a slab, the walk that tells the parents | `NestedContainers` |
| `NestedContainersProofs` | inductive invariant, safety theorems, and that nested containers implement `Nesting` | `NestedSlabsProofs` |
| `StorageRepairProofs` | walks on the graph of slabs; that iteration, health check and repair are exact | `StorageRepair` |
| `MC*` | constants of the small instances | the module of that name |

### SlabStorage

`heap` maps object names to slab objects `[id, val]`; `deltas` and `cache` map slab
IDs to object names, `Nil` (Go's nil: removed) or `Absent` (no entry); `base` is the
base storage. `nextIndex` stands for the accounts' index counters, which are
persistent, and for `tempSlabIndex`, which is not. `phase` and `pending` are the
position in the loop of `Commit` or `BatchPreload`: every iteration is a step, so
that errors (`CommitError`, `BatchPreloadEnd`) and process deaths (`Restart`) fall
between any two of them. `Objects` bounds the objects alive at one time; `Collect`
is Go's garbage collector, without which the bound would end every behaviour.

Containers appear as the five things they do to slabs: `Create`, `Update` (change
an object they hold in place, then `Store` it), `Remove`, `SplitRoot`,
`PromoteChild`. `Update` takes any live object, including one that the cache no
longer points at, because containers keep pointers.

What a slab holds is a member of `Contents`; encoding drops the ID, decoding makes a
new object with it; `Unencodable` contents make `EncodeSlab` fail.

`DropDeltas` keeps the cache, whose objects may carry the dropped changes, so a
later `Retrieve` can return them. The history variable `forsaken` records the IDs
for which this can be the case until the entry is replaced; the properties about
reads exclude exactly these and so say precisely how far the damage goes.

### WorkerPool, FastCommit, NondeterministicFastCommit, ParallelPreload

A worker is waiting at its `range` loop, has taken a job and is about to look at
`done`, or is working; sending the result is one step with the work. Closing the job
queue, closing `done`, the deferred wait and each result that the caller takes are
steps. In `FastCommit` the workers read `deltas`; in `NondeterministicFastCommit` a
job carries the slab pointer; in `ParallelPreload` it carries the encoded data. The
job queue is closed before the start, after the last job, and in a deferred call,
respectively. A receive from an empty channel, the wait group and the range loop are
the points where a goroutine blocks. Channel capacities are not enforced: the
invariant `GoroutinesAreContained` of each module says that no send ever finds the
channel full, that no goroutine outlives the call, and that the caller, if there is a
goroutine at all, never waits for a result that nobody is going to send. `awaited`
and `jobCount` are the loop variables that count the results yet to come, and in
`ParallelPreload` `wanted` has the IDs of the call. They are a set: a list of IDs
with one of them twice is not considered.

`NondeterministicFastCommit` and `ParallelPreload` have two specifications over the
same actions: `CallSpec` makes one call from any storage, which is what TLC can
exhaust, and `LifeSpec` makes calls between any operations of the storage, which is
what the proofs are about as well.

### ArraySlabs and ArrayTree

An element is its encoded size. Sizes are scaled down, keeping the relations that
the code relies on (`SizesAssumption`): the target is 10 bytes (1,024 in the code),
prefixes are 1 and 2 bytes, a child header 3; so a data slab holds up to 13 bytes of
elements of 1 or 4 bytes, a metadata slab 2 to 4 children, and seven elements
already need three levels. `LinearScanThreshold` is 3 (32 in the code), so both ways
to look up a child are used.

`ArraySlabs` has what is done to one slab and needs no other: elements inserted, set
and removed, a slab split, merged or rebalanced with a neighbour, what a metadata slab
notes of its children (`ChildChanged`, `ChildSplit`, `ChildrenRebalanced`,
`ChildrenMerged`), lookup, encoding, and the checks of one slab that `VerifyArray`
makes. `ArrayTree` puts the slabs together.

`slabs` is the tree in memory; the operators pass a store along that also collects
the IDs handed to `storage.Store` or `storage.Remove`. `unsaved` has the slabs that
changed and were not handed over, `contents` is the sequence that the calls add up
to. `GenerateSlabID` takes an ID that no slab has; that real IDs are never reused is
a matter of `SlabStorage`. Each operation is one step: `ArrayInsert`, `ArraySet`,
`ArrayRemove`, `ArrayPopIterate`, and `NewArrayFromBatchData`, which gives further
initial states. Elements are at most `maxInlineArrayElementSize` bytes, because a
larger value is stored in a slab of its own and leaves a small reference.

`EncodeSlab` keeps what a slab writes, with child sizes cut to the two bytes they
have in a header, and `DecodeSlab` works out the rest: counts, cumulative counts,
sizes. `NothingUnsavedOrOrphaned` compares each slab of the tree with what comes back
from its encoding, so that a field that is wrong in memory, or that does not survive,
shows as a difference after a restart. `MapSlabs` has the same for maps, where the
decoder also finds out the kind of elements and the first key.

### MapElements, MapSlabs and MapTree

A value is its encoded size and a key a number; the constant `Digests` gives each
key its digest at each of `Levels` levels, so an instance decides who collides with
whom and how deep. An element is a single key, an inline group or an external group
(the ID of a data slab). Elements of level `Levels` are the unordered
`singleElements`, all others are `hkeyElements` with sorted digests. `ElementsSet`
and `ElementSet` call each other as the Go methods do: a single element that meets
another key becomes a group of the next level, a group right in a data slab that
exceeds `maxInlineMapElementSize` moves to its own slab, and after a removal a group
with one single element left becomes that element. Sizes are kept by the same
additions and subtractions as in the code, and recomputed where it recomputes them.

`MapTree` has the tree operations, each one step: `MapSet`, `MapRemove`,
`MapPopIterate`, and `MapFromBatchData`. Both `MapSet` and `MapRemove` end with the
check for a child that is too big or too small (`FixChild`) on every level and for
the root (`FixRoot`), as both can grow and shrink a slab. The first key of a slab is
a field of its own and is left stale where the code leaves it. The store passed
along also has the old value that `Set` and `Remove` found (`old`) and whether the
call returns an error (`failed`); such a call (an unknown key, the collision limit)
changes nothing and is no step. `contents` is the function from keys to values that
the calls add up to.

`verifyMap` has the checks of `VerifyMap` and some that it lacks: the header of a
group's slab is current, and no group has a single key.

### ArrayIterators and MapIterators

An iterator is an operator that gives the whole sequence it returns on the present
tree, and the iterators are compared with `contents` and with each other in every
state. They take three ways through a tree: the mutable iterator of a map looks each
key up from the root to find the next one (that of an array calls `Get`); read-only
iterators go down once, for an array to any start index, and then follow the next
links of data slabs; loaded value iterators keep a stack of metadata slabs and skip
the children that are not in memory (`RetrieveIfLoaded` returns nil), here any one
slab below the root, a group's own slab included. Calls between two steps of a
mutable iterator are covered by `KeyOrderIsStable`: an overwrite leaves every key's
successor as it was, whatever the tree does. The callbacks that iterators install in
child containers belong to nesting and are left out.

### Nesting and NestedContainers

`slab` has the root slab of every container, inlined or not; `handle` is the
program's `Array` or `OrderedMap` value, with `parentUpdater` and
`mutableElementIndex`; `stored` is what the storage was last given for a slab ID, with
the contents of inlined children as they were at that moment. Every call is one step
and takes the notification all the way up. In the code `set` and `notifyParentIfNeeded`
call each other: the updater of a child sets the child again in its parent, which
notifies its own parent, and when that returns sets up the child's callback. The model
has the descent of these calls as a loop, `notifyWalk`, which stops where the code
returns and remembers the children set so far, and their return as another,
`setCallbacks`. As containers are nested without cycles the loop needs no more rounds
than there are containers; the proof below shows that it always comes to its end. What
a callback reads (the index, the key, the element there) is read when it
runs, so that a callback that has become outdated does what it does in the code.
Every container is a single data slab, an array holds two elements and a map two keys;
a value is plain or a container, in a wrapper (`SomeValue`) or not, which takes from
the room for an inlined child.

The program keeps to the rules that the library expects of it: it has one handle on a
container at a time (a new one from `Get` makes it give up the old one and those
obtained through it), puts a container into one place at a time and not into itself,
and calls `PopIterate` on containers without a parent when it has no handle on what is
in them. `PopIterate` does neither call the parent nor clear `mutableElementIndex`.

`Nesting` has the same calls on plain values: arrays are sequences, maps are
functions, and a container in a container is its value ID. That `NestedContainers`
implements it says that a change through one handle changes that container only,
and that no notification moves, drops or revives anything.

The containers below a container (`InlinedIn`, `DescendantsOf`) are the smallest set
that has its children and the children of all in it. `Encode` gives the contents of
all containers in one slab.

### SlabGraph and StorageRepair

A slab is its kind, the slab IDs in it, and which of them it has more than once
(`repeated`). The loops of the code that follow
references, or parents, come to the ends of `Ways` through the graph; as slabs do not
lead back to themselves a way has no more steps than there are slabs. A slab that two
ways lead to, or one way with a repeated reference, is visited twice, as in the code.
`CheckStorageHealth` takes the expected number of roots, negative for any.
`StorageRepair` starts with any base storage of slabs under two owners without cycles,
references to lost slabs and a bounded number of repeated ones (`MaxRepeated`)
included, and loads, stores, removes, commits, checks and repairs in any order. Base
storage errors are left out. `FixLoadedBrokenReferences` takes a slab that is not
loaded for a lost one ("only traverse loaded slabs in deltas and cache",
storage.go:1022), so the program loads all slabs before it repairs; it also keeps to
storages in which no slab is referred to twice, as the health check asks. The order
of the repairs is any order, and the set of maps the caller wants repaired any set.
A lost slab below an external collision group is reported as an error and not
repaired, as the group's slab is no root: the map above it stays as it was.

### SlabEncoding

A root slab and the containers inlined in it, filled by a program and read back any
number of times. The encoder carries the table of shared extra data along; the order
of the elements decides which map's seed and key order become the shared ones. `Seeds`
and `Digests` give the keys other orders under other seeds, and one seed under which
they collide, so that a map is not compact although its type is; so does a key that is
not `Comparable`, or is in a slab of its own. The root's extra data is not shared, so
`RootTypes` and `RootSeeds` may be fewer than `Types` and `Seeds`. In the encoding an
element keeps its tag, index into the table, slab index and elements. External
collision groups, wrappers and next links are not in this module; `MapSlabs` has
groups and links.

### Mutants

Operators with a comment that begins "A bug:" are mutants: each is a definition as a
plausible mistake in the code would have it, and with it in place TLC must find
the property that `PROJECT.json` names violated. Nothing else uses them.

## 3. What TLC checks

| Run | Instance | Shows |
|---|---|---|
| `slab_storage` | one account with two IDs, one temporary ID, three objects, two contents (one unencodable) | `ReadsAreCoherent`, `CommittedIsSaved`, `IndexesAreFresh`, `WritesAreOrdered` and the refinement `ImplementsStore` under any mix of operations, errors, drops and restarts |
| `fast_commit` | two account IDs, two objects, two workers; any operations between calls, restarts in the middle of a call | `ImplementsCommit`: every behaviour with `FastCommit` is one of `SlabStorage` with `Commit`; `NoRaceOnDeltas`, `GoroutinesAreContained`, `NothingSavedUnlessAllEncoded`, `CallReturns` |
| `nondeterministic_fast_commit` | calls on every initial state of up to three account slabs and a temporary one, two workers | `ImplementsStoreUnordered`, `CallReturns` |
| `parallel_preload` | three account slabs, one content that does not decode, two decoders | `PreloadIsComplete`, `ImplementsBatchPreload`, `CallReturns` |
| `array_tree` | up to seven elements of size 1 or 4, any number of operations from an empty array; batches of 9 to 13 elements in patterned sizes, then two operations | `ArrayIsValid`, `ReadsContents`, `NothingUnsavedOrOrphaned`, and for the iterators `RangesReadContents`, `LoadedValuesAreAllLoaded`, on trees of three levels, with more than one metadata slab per level after a batch |
| `map_groups` | eight keys, six with one first digest, three of these with equal digests on both levels, a collision limit of 2; any number of operations from an empty map | `MapIsValid`, `ReadsContents`, `IterationVisitsAll`, `NothingUnsavedOrOrphaned`, `KeyOrderIsStable`, `GroupsAreLimited` with nested groups that move out and come back, and inserts refused at the limit |
| `map_tree` | target of 14 bytes, two or three elements per data slab; six keys, two of which collide, any number of operations; lists of 7 to 13 of fourteen keys, two pairs of which collide, then two operations | the first four of these and `LoadedValuesAreAllLoaded`, with splits, merges and rebalances, on trees of up to three levels |
| `map_nested_collisions` | keys with equal first and second digests | a violation of `CollisionLimitIsEnforced`, see below |
| `nested_containers` | three containers of either kind, two types, two keys, arrays of up to two elements, plain elements of one size, wrappers | `NestingIsValid`, `ChangesReachStorage`, `HandlesReachParents`, and the refinement `ImplementsNesting` |
| `nested_reset` | the same, with `Set` of an inlined child in its own place | a violation of `NestingIsValid`, see below |
| `storage_repair` | all acyclic graphs of three slabs of five kinds, two owners, at most one repeated reference; any number of roots expected, or one | `IterationIsExact`, `HealthCheckIsExact`, `RepairIsExact` |
| `slab_encoding` | a root and two inlined containers, one inside the other or side by side, two types (one composite), two of three keys in each map, one key not comparable, three seeds | `DecodingIsFaithful`, `EncodingIsDeterministic` |

**The collision limit counts one level.** `hkeyElements.Set` refuses an insert when
the element for the first digest has more than `MaxCollisionLimitPerDigest`
collisions, by `element.Count`. For a group that is the number of elements right in
it: if the keys also share the second digest, that is one, a nested group. The
comments at map_elements_hashkey.go:27 and :262 speak of a limit "per digest per
map" and of a count above 1 for every group. `map_nested_collisions` has TLC's
shortest sequence of inserts that passes the limit. What does hold is
`GroupsAreLimited` in `map_groups`: the limit bounds the second digests under one
first digest, and updates are never refused.

**Setting an inlined child again takes it out of its parent.** `Array.Set` and
`OrderedMap.Set` un-inline the overwritten element (array.go:369). If the program
sets a child, unchanged or changed, in the place where it already is inlined, the
overwritten element is the child's own slab: it is marked as not inlined and stored
under its ID while the parent still has it as its element. The comment at
array_data_slab.go:70 provides for the same value being set again, and `VerifyArray`
rejects the result: the sizes of the elements no longer add up (array_verify.go:254),
and the element is not inlined (array_verify.go:296). The callback path does not have the
problem, as it calls `set` and not `Set`. `nested_reset` has the sequence; in
`nested_containers` the program sets children again only when they are not inlined.

Why the bounds are enough to be interesting. Two account IDs are the least with an
order of writes and with a commit that stops half-way; three objects allow a cached
object, a newer object under the same ID and one more that changes its ID; the
temporary ID shows that such slabs stay in memory. Two workers and three slabs make
workers compete for jobs and let results arrive out of order. Seven elements of two
sizes reach all branches of `MergeOrRebalanceChildSlab` for data slabs, root splits
and promotions up to three levels; the batches are trees that have
metadata slabs with siblings, so that metadata slabs lend, borrow and merge too.
The map runs split the same way: `map_groups` has enough colliding keys for a group
in a group to leave its slab and return, `map_tree` enough slabs for every kind of
merge and rebalance of data slabs, and after a batch the levels above. Three
containers are the least with a grandparent, where a notification passes through an
inlined container in the middle and the one at the top has to be stored; a container
with one plain element fits into its parent but not in a wrapper, and one with two
does not fit, so that single calls move containers in and out at every level. Three
slabs are a map's root, a slab of its own and a nested container below that, or a
broken map inside another broken one. Two inlined maps with different seeds are the
least that share extra data and differ in order.

Fairness is assumed only for the `CallReturns` properties: weak fairness of the
calling goroutine and of each worker, which is what the Go scheduler gives a
goroutine that can run. Nothing is assumed about the order in which they run. Base
storage calls are taken to return, with or without an error.

Symmetry is declared for containers, keys and types in `nested_containers` and for
the two slabs of one owner in `storage_repair`; no operator chooses among them in a
way that the properties can see.

`parallel_preload` does not check for deadlock because it makes one call per
behaviour: the instance has as many objects as IDs.

Mutable slabs being stored by a caller during a parallel call is not considered: the
library has no lock and its callers use one goroutine.

## 4. What is proved

The theorems hold for every value of the constants that satisfies the named
assumptions, which TLC evaluates in the runs:

* `ConstantsAssumption`: addresses are numbers, the temporary one is among them, `Nil`
  and `Absent` are nothing else; `AddressAssumption`, `WorkersAssumption`: there are
  finitely many addresses and goroutines; `DataAssumption`: nil is no content of a
  slab; `UndecodableAssumption`: what does not decode is a content.
* `StoreAssumption`, `SizesAssumption`: sizes are positive, the prefix of a data slab
  and that of a metadata slab with one header are below the minimum, a metadata slab
  has room for four headers. In the code the threshold is at least 256
  (`minSlabSize`, settings.go), prefixes and headers are below 30 bytes.
* `NestingAssumption`: containers and keys are finitely many, sizes are numbers, a plain
  element and a wrapped slab ID fit into a parent (`Storable` of a larger value makes a
  slab of its own), and `None` is nothing else.
* `GraphAssumption`, `RepairAssumption`: slab IDs are finitely many, `Nil` and `Absent`
  are no slabs, slabs have a kind, expected numbers of roots are integers.

### The storage

| Theorem | Statement |
|---|---|
| `StorageInvariant` | `Spec => []StorageInv` |
| `TypeCorrect` | `Spec => []TypeOK` |
| `Coherence` | `Spec => []ReadsAreCoherent` |
| `CommitSaves` | `Spec => []CommittedIsSaved` |
| `FreshIndexes` | `Spec => []IndexesAreFresh` |
| `OrderedWrites` | `Spec => WritesAreOrdered` |
| `Refinement` | `Spec => ImplementsStore` |

`ReadsAreCoherent` is not inductive: it speaks of what a read returns now, but an
object behind a delta may be cached under the same or another ID and change. The
inductive invariant `StorageInv` adds what the code relies on without saying so:

* `DeltasAreFiled`: an object in `deltas` has the ID it is filed under. Root splits
  and promotions change the ID of an object, and keep this only because they store
  or remove both IDs in the same operation.
* `CacheIsAlive`, `CacheMatchesBase`: a cache entry that no delta hides is what the
  base storage has. The cached object may differ only while a delta is in front of
  it; a container that changes an object therefore has to store it at once.
* `CommitIsOnCourse`: while a commit runs, the keys left are the account IDs left in
  `deltas`; hence none is left at the end.
* `TempIsNotSaved`: temporary slabs are never in the base storage.
* `UnallocatedIsUnused`: an ID beyond the counter is in no map and on no object.

Each action has a lemma that it preserves `StorageInv`, with one step per conjunct
that the action can disturb; `InvStep` combines them. `OrderedWrites` follows from
`CommitIsOnCourse` and from the lemma that only a commit step writes the base
storage. For `Refinement`, a step of a container maps to `Write`, the loop of
`Commit` to `Begin`, `Save`, `End`, `DropDeltas` and `Restart` to `Revert`, and
reads to stuttering or to `Begin` and `End`; the invariant gives that the value
saved is the value viewed.

### The parallel calls

For any number of goroutines and slabs, with errors and crashes at any step:

| Theorem | Statement |
|---|---|
| `FastCommitIsCommit` | `FCSpec => ImplementsCommit`: `FastCommit` is `Commit` to everyone else |
| `FastCommitIsSafe` | hence `ReadsAreCoherent`, `CommittedIsSaved`, `IndexesAreFresh`, `WritesAreOrdered` and `ImplementsStore` hold with it |
| `NoRace`, `Contained`, `AllOrNothing` | `FCSpec => []NoRaceOnDeltas`, `[]GoroutinesAreContained`, `NothingSavedUnlessAllEncoded` |
| `UnorderedRefinement` | `CallSpec => ImplementsStoreUnordered` for `NondeterministicFastCommit` |
| `UnorderedIsSafe` | `LifeSpec => ImplementsStore`, `[]ReadsAreCoherent`, `[]CommittedIsSaved`, `[]IndexesAreFresh` |
| `ParallelIsSequential`, `PreloadIsSafe` | `LifeSpec => Spec` for the parallel `BatchPreload`, and what follows |
| `PreloadRefinement`, `Completeness` | `CallSpec => ImplementsBatchPreload`, `[]PreloadIsComplete` |
| `EncodersAreContained`, `DecodersAreContained` | `[]GoroutinesAreContained` of these two modules, under both specifications |

The inductive invariants `FastCommitInv`, `NFCInv` and `PPInv` (theorem
`FastCommitInvariant` and the two theorems `LifeInvariant`) are built alike, next to
the model:

* `PoolIsCurrent`: what is in the job queue, with a worker or in the results channel
  is the job, or the answer, that the present `deltas`, heap or base storage would
  give. Encoders read memory that the caller changes during the call, so this is what
  makes late results usable.
* `EachKeyOnce`: no slab ID is in the pool twice. With it a step of the caller that
  takes an ID out of `deltas` leaves all other jobs current, and the number of results
  still to come is the number of IDs in the pool, which bounds the channels.
* `CollectIsOnCourse`, `ApplyIsOnCourse`, `ParallelIsOnCourse`, `PreloadIsOnCourse`:
  what the caller has to do and what is in the pool make up the work of the call:
  `awaited` or `jobCount` is the number of IDs in the pool, and `pending` has exactly
  those that are sent, waited for or not begun. The caller applies only when the pool
  is empty, which is why it races with nobody.
* `EncodedIsCurrent` (`FastCommit`): a collected encoding is the one that `Commit` would
  write at that moment, though nothing is written before all are collected.

The last part of `SlabStorageProofs` has one lemma per step of a goroutine about what the pool holds and
how often it holds a key; the three proofs share them. `FastCommit` sorts its keys,
`Commit` is described as taking the first of a set: that the sorted list has an order
is proved from the total order of slab IDs, by taking a smallest set without one.
`Completeness` also needs `CacheIsPreloaded`: in a storage that has cached nothing
else, a cached object is the decoded slab of the base storage.

`FastCommitInv`, `NFCInv` and `PPInv` were checked with TLC on the instances of the
runs before they were proved.

### Array slabs

`ArrayTree` walks the tree with recursive operators, which the prover cannot take, so
`ArrayIsValid` stays with TLC. What its steps consist of is proved, slab by slab, for
any threshold, any sizes of elements up to the maximum and any number of children.
`SoundData` and `SoundMeta` are what `VerifyArray` demands of a slab by itself (counts,
cumulative counts, size), and `WithinLimits` that it neither underflows nor is full.

| Theorems | Statement |
|---|---|
| `DataInsertInLimits`, `DataSetInLimits`, `DataRemoveIsSound` | a data slab stays sound, and if one element has made it full it splits into two within the limits |
| `DataSplitInLimits`, `MetaSplitInLimits` | a slab that has become full by one element, or one child, splits into two sound slabs within the limits |
| `DataMergeInLimits`, `MetaMergeInLimits` | a slab that underflows and a neighbour that cannot lend make one slab within the limits |
| `DataLendInLimits`, `DataBorrowInLimits`, `MetaLendInLimits`, `MetaBorrowInLimits` | a neighbour that can lend brings the slab within the limits and stays within them |
| `ChildChangedIsSound`, `ChildSplitIsSound`, `ChildrenRebalancedIsSound`, `ChildrenMergedIsSound` | the increments and shifts by which a parent adjusts its count, cumulative counts and headers give what recomputing them would |
| `BisectionIsScan`, `ChildIndexIsRight` | an index leads to the child that has the element, and to its place there, by scan and by bisection |
| `DataSlabDecodes`, `MetaSlabDecodes` | a sound slab comes back from its encoding |

So each case of `MergeOrRebalanceChildSlab` ends within the limits: the tests for
lending and the loops that move elements are written apart from each other in the
code, with a midpoint that rounds and elements of uneven size, and nothing there says
that what the test promises is what the loop finds.

The size arguments are about `Sums`, a recursive function. The first lemmas show that
there is exactly one such function and how it behaves under cutting, joining and
reversing. Induction is by smallest counterexample: the set of numbers for which a
statement fails has a smallest one if it is not empty. The same argument gives
`CountSums` and the windows of the bisection. Where a metadata slab patches its
cumulative counts the proof shows that each is the one before plus the count of its
child (`StepsUp`), case by case around the place of the patch, and that only the sums
have this property.

### Nested containers

For any number of containers, nested to any depth, any sizes of elements, wrappers and
limits, and any number of elements:

| Theorem | Statement |
|---|---|
| `NestingInvariant` | `Spec => []NestingInv` |
| `NestingStaysValid` | `Spec => []NestingIsValid` |
| `NestedChangesAreSaved` | `Spec => []ChangesReachStorage` |
| `HandlesStayLinked` | `Spec => []HandlesReachParents` |
| `NestingIsImplemented` | `Spec => ImplementsNesting` |

All have the hypothesis `"Set" \notin Unguarded`: the program does not set an inlined
child again in its own place. Without it the theorems are false, as `nested_reset`
shows; nothing else is excluded.

None of the three invariants is inductive. A call first changes one slab, then finds
the parent by the handle, sets the child again there, goes on with the parent, and
last sets up callbacks; the sizes are right only if the handles lead to the parents,
the handles are right only if the elements are where the index says, and the storage
is right only if the walk gets as far as a slab that is not inlined. `NestingInv` is
`Sound` and `Handled`:

* `Nest`: the children of a container exist, a container is in one place, and none is
  below itself. These are about what the program sees, and hold because of the rules
  that it keeps.
* `TagsFit`, `SizesFit`, `InlinedHavePlace`, `Saved`: an element is a slab exactly when
  the child is inlined, sizes and cached sizes add up, a child is inlined exactly when
  it fits, an inlined container is an element of another one, and each slab is stored
  as it is.
* `Linked`, `Indexed`, `UpdatersLead`, `Known`: a child with a handle has an updater
  with its parent, key and wrapper, the parent has a handle too and, if it is an array,
  the right index of the child; every index is the place of a child that has a handle;
  an updater leads to a container that exists.

Inside a call some of this does not hold, and the lemmas have parameters for how far it
does not. `dirty` is the container whose slab was changed last: its parent's size and
stored slab may be out of date, and those of the slab it is encoded in, but nothing
else is. `L` has the containers that are in place and not yet linked, `I` the pairs of
an array and a container that was taken out of it and is still in its index, `X` the
containers that are inlined and in no place until `uninlineStorableIfNeeded` has run.
One round of the walk (`notifyStep`) makes the parent the dirty one, and it ends with
none: at a container that has no parent, or that was and stays outside of it. It ends
within as many rounds as there are containers because the containers below the dirty
one become one more in each. `setCallbacks` then only repeats what handles have. Each
operation has a lemma (`ArraySetCall`, `MapSetCall`, `InsertCall`, `ArrayRemoveCall`,
`MapRemoveCall`, `SetTypeCall`, `PopCall`, `NewCall`, `LoadCall`, `GetCall`) that it
leads from `Whole`, which is the invariant without exceptions, to `Whole`, and what it
does to the contents; the refinement needs only the latter.

The parts of `NestingInv` were checked with TLC first, on 170,000 states of an instance
of the run's size.

### Iteration, health check and repair

For any number of slabs and owners, any slabs lost, and any order of repairs:

| Theorem | Statement |
|---|---|
| `GraphInvariant` | `Spec => []GraphInv` |
| `ExactIteration` | `Spec => []IterationIsExact` |
| `ExactHealthCheck` | `Spec => []HealthCheckIsExact` |
| `ExactRepair` | `Spec => []RepairIsExact` |

`GraphInv` says that the maps have slabs, that a cache entry agrees with the base
storage, that a rank of the slabs goes up along all references, and that no metadata
slab refers to a root. The rank bounds the length of ways, so that what a walk reaches
is the smallest set that has its start and is closed under its edges (`ReachesStart`,
`ReachesOn`, `ReachesLeast`). Where each slab is referred to once there is one way to
it (`OneWay`), and no slab on it has a repeated reference (`OnTheWay`), which is why
the iterator lists nothing twice in a sound storage. A
slab belongs to a container just when the way up by `parentOf` comes by its root
(`OwnSlabsAreBelow`, `RootIs`). The repair is a loop in an order that is Go's choice,
in which one repair may remove a map that another one is about to empty. Its result
is `After(F)`, whatever the order, where `F` is the set of maps repaired so far: emptying one
more map removes what its references led to at the start, but for what is gone already
(`FixOne`, `FixGone`, `FixAllIs`).

### Only model-checked

* The `CallReturns` properties, which are liveness under fairness.
  `GoroutinesAreContained` has the safety part: whoever waits is waited for.
* `ArrayIsValid`, `ReadsContents` and `NothingUnsavedOrOrphaned` of the array as a whole,
  and everything about its iterators, about maps and about the encoding of inlined
  containers. All of these descend with recursive operators.

## 5. What is not modelled

* Wraparound of slab indexes after 2^64 - 1 allocations; `numWorkers <= 0`, which
  would block a parallel call forever; IDs that occur twice in the list for
  `BatchPreload`.
* The ledger's key format, the encoded bytes and flags, version 0 of the format, which
  is only read, the wording of errors, dumps, statistics. `BasicSlabStorage`, a Go map
  for tests.
* Nested containers of more than one slab, containers as keys of maps, two handles on
  one container, and the callbacks that iterators install on the children they return
  (the same `setCallbackWithChild`).
* Storage errors inside an array or map operation: the code returns at once and leaves
  slabs changed in memory, and the caller is expected to abort.
* The hash functions (hash.go): digests are a constant of the model. Keys and values
  that are too large for a slab and leave a reference.
* Everything marked `not_modelled` in `PROJECT.json`, with the reason.

## 6. Plan

1. Storage core, its abstract specification, the parallel calls: done.
2. Storage invariant, safety theorems, refinement: done.
3. Array tree with batch building and the verifier: done.
4. Map elements and collision groups, the collision limit: done.
5. Map tree with batch building and the verifier: done.
6. Nested containers: inlining, callbacks, `mutableElementIndex`, detached children,
   with the abstract specification that they implement: done.
7. Iterators: done, but for the callbacks on child containers.
8. `SlabIterator`, the health check, `FixLoadedBrokenReferences`: done.
9. Encoding of tree slabs and of slabs with inlined containers: done.
10. Proofs about the goroutine pools and the three parallel calls: done.
11. Proofs about single array slabs: done.
12. Proofs about nested containers, and about iteration, check and repair: done.
13. Proofs about single map slabs: splits, merges and rebalances of `MapSlabs` within the
    limits, first keys, on elements given by their sizes; the lemmas about sums and about
    sequences with one element more or less carry over.
