------------------------------ MODULE SlabGraph -----------------------------
(***************************************************************************)
(* The graph of slabs and their references to other slabs, as              *)
(* PersistentSlabStorage sees it through deltas, cache and base storage:   *)
(* SlabIterator, GetAllChildReferences (storage.go) and CheckStorageHealth *)
(* (storage_health_check.go).  A slab is what it refers to: the slab IDs   *)
(* in its elements, inlined containers and wrappers included, and which of *)
(* them it has more than once.                                             *)
(***************************************************************************)
EXTENDS Integers, Sequences, FiniteSets, SequencesExt

CONSTANTS SlabID,
          Owner,    \* the address in a slab ID
          Nil,      \* a slab that was removed
          Absent    \* no entry

\* Metadata slabs and data slabs; root slabs have extra data.
Slab == {slab \in [kind : {"array", "map"}, meta : BOOLEAN, root : BOOLEAN,
                  refs : SUBSET SlabID, repeated : SUBSET SlabID] :
           slab.repeated \subseteq slab.refs}

ASSUME GraphAssumption ==
    /\ IsFiniteSet(SlabID)
    /\ Nil # Absent /\ {Nil, Absent} \cap Slab = {}

VARIABLES deltas, cache, base  \* SlabID -> slab, Nil or Absent

storageVars == <<deltas, cache, base>>

-----------------------------------------------------------------------------
(* Reading.                                                                *)

\* With d for deltas, which a repair changes as it goes on.
LoadedIn(d, id) == IF d[id] # Absent THEN d[id] ELSE cache[id]

RetrieveIn(d, id) == IF LoadedIn(d, id) # Absent THEN LoadedIn(d, id) ELSE base[id]

FoundIn(d, id) == RetrieveIn(d, id) \notin {Nil, Absent}

RetrieveIfLoaded(id) == LoadedIn(deltas, id)
Retrieve(id)         == RetrieveIn(deltas, id)
Found(id)            == FoundIn(deltas, id)

HasEntry(id) == RetrieveIfLoaded(id) # Absent

existIfLoaded(id) == RetrieveIfLoaded(id) \notin {Nil, Absent}

\* Has a slab ID in two of its elements.
RefersTwice(id) == Retrieve(id).repeated # {}

Slabs  == {id \in SlabID : Found(id)}
Loaded == {id \in SlabID : RetrieveIfLoaded(id) \in Slab}

-----------------------------------------------------------------------------
(* The loops over ChildStorables, and the ones over parentOf, walk the     *)
(* graph.  Slabs do not lead back to themselves, so that no walk has more  *)
(* steps than there are slabs; where they did, the loops would not end.    *)

Ways == SeqOf(SlabID, Cardinality(SlabID)) \ {<<>>}

\* The ways that start in "from" and take edges[id] from id.
WaysThrough(edges, from) ==
    {way \in Ways : /\ way[1] \in from
                    /\ \A i \in 1..(Len(way) - 1) : way[i+1] \in edges[way[i]]}

Reached(edges, from) == {Last(way) : way \in WaysThrough(edges, from)}

Children(d) == [id \in SlabID |-> IF FoundIn(d, id) THEN RetrieveIn(d, id).refs ELSE {}]

-----------------------------------------------------------------------------
(* SlabIterator: the slabs in memory, and the ones in the base storage     *)
(* that they lead to.                                                      *)

\* A bug: slabs in memory are followed to, as well as listed.
NotInMemoryAny(id) == TRUE

NotInMemory(id) == ~ HasEntry(id)

appendChildStorables ==
    [id \in SlabID |-> {ref \in Children(deltas)[id] : NotInMemory(ref)}]

\* A slab is listed once for every way to it.
SlabIterator ==
    LET visits == WaysThrough(appendChildStorables, Loaded)
    IN [err    |-> \E visit \in visits : ~ Found(Last(visit)),
        visits |-> visits,
        ids    |-> {Last(visit) : visit \in visits}]

Twice(visits) ==
    \/ \E v, w \in visits : v # w /\ Last(v) = Last(w)
    \/ \E v \in visits : \E i \in 1..(Len(v) - 1) : v[i+1] \in Retrieve(v[i]).repeated

-----------------------------------------------------------------------------
(* getAllChildReferences: all slabs below a slab, nested containers too,   *)
(* and the references that are broken.                                     *)

getAllChildReferences(d, refs) ==
    LET all == Reached(Children(d), refs)
    IN [references |-> {id \in all : FoundIn(d, id)},
        broken     |-> {id \in all : ~ FoundIn(d, id)}]

-----------------------------------------------------------------------------
(* CheckStorageHealth: from the slabs without references up to the roots.  *)

Unhealthy == [ok |-> FALSE, roots |-> {}]

\* parentOf, which has all parents here.
Parents(seen) == [id \in SlabID |-> {p \in seen : id \in Retrieve(p).refs}]

\* A bug: the owners of a parent and its child are not compared.
SameOwnerAny(parent, child) == TRUE

SameOwner(parent, child) == Owner[parent] = Owner[child]

\* All of it but the number of roots.
checkSlabs ==
    LET it       == SlabIterator
        seen     == it.ids
        parentOf == Parents(seen)
        leaves   == {id \in seen : Retrieve(id).refs = {}}
        visited  == Reached(parentOf, leaves)
    IN IF \/ it.err
          \/ Twice(it.visits)
          \/ \E id \in seen : RefersTwice(id)
          \/ \E id \in SlabID : Cardinality(parentOf[id]) > 1
          \/ \E id \in visited : \E p \in parentOf[id] : ~ SameOwner(p, id)
          \/ visited # seen
         THEN Unhealthy
         ELSE [ok |-> TRUE, roots |-> {id \in visited : parentOf[id] = {}}]

CheckStorageHealth(expectedNumberOfRootSlabs) ==
    LET checked == checkSlabs IN
      IF expectedNumberOfRootSlabs >= 0 /\ Cardinality(checked.roots) # expectedNumberOfRootSlabs
        THEN Unhealthy
        ELSE checked
=============================================================================
