---------------------------- MODULE StorageRepair ---------------------------
(***************************************************************************)
(* PersistentSlabStorage.FixLoadedBrokenReferences (storage.go), used by   *)
(* migration programs on storages in which slabs were lost: a map with a   *)
(* reference to a slab that does not exist is replaced by an empty map.    *)
(* The storage starts with any graph of slabs without cycles, some of them *)
(* lost, and is loaded, changed, checked, repaired and committed.          *)
(***************************************************************************)
EXTENDS SlabGraph

CONSTANTS Shapes,       \* kinds of slabs: [kind, meta, root]
          Expectations, \* numbers of roots that the health check is asked for
          MaxRepeated   \* bound on the references that are there twice at first

ASSUME RepairAssumption ==
    /\ Shapes \subseteq [kind : {"array", "map"}, meta : BOOLEAN, root : BOOLEAN]
    /\ Expectations \subseteq Int

EmptyMap == [kind |-> "map", meta |-> FALSE, root |-> TRUE, refs |-> {}, repeated |-> {}]

IsMap(slab) == slab.kind = "map" /\ slab.root

-----------------------------------------------------------------------------
(* Finding what is broken.                                                 *)

\* Slabs with a reference to a slab that is not there.
brokenSlabIDs == {id \in Loaded : \E ref \in RetrieveIfLoaded(id).refs : ~ existIfLoaded(ref)}

\* A bug: the slabs of a map are not traced back to its root.
getOwnSlabID(id) == id

\* parentOf, which knows the children of metadata slabs.
metaParents ==
    [id \in SlabID |-> {p \in Loaded : RetrieveIfLoaded(p).meta /\ id \in RetrieveIfLoaded(p).refs}]

\* The end of the way up by parentOf.
getRootSlabID(id) == CHOOSE root \in Reached(metaParents, {id}) : metaParents[root] = {}

rootSlabIDsWithBrokenData == {getRootSlabID(id) : id \in brokenSlabIDs}

-----------------------------------------------------------------------------
(* Repair.                                                                 *)

\* The slabs of the old map are the ones its root leads to.
fixBrokenReferencesInMap(d, id) ==
    LET new  == [d EXCEPT ![id] = EmptyMap]
        refs == getAllChildReferences(new, LoadedIn(d, id).refs).references
    IN [x \in SlabID |-> IF x \in refs THEN Nil ELSE new[x]]

\* A root that is gone, is no map or is not the root of a map is an error,
\* which is reported after all roots are done.
fixRoot(d, id, needToFix) ==
    LET slab == LoadedIn(d, id) IN
      IF slab \notin {Nil, Absent} /\ IsMap(slab) /\ id \in needToFix
        THEN fixBrokenReferencesInMap(d, id)
        ELSE d

\* The roots are repaired in an order that is Go's choice.
fixAll(order, needToFix) ==
    LET fixed[i \in 0..Len(order)] ==
          IF i = 0 THEN deltas ELSE fixRoot(fixed[i-1], order[i], needToFix)
    IN fixed[Len(order)]

Orders == SetToSeqs(rootSlabIDsWithBrokenData)

-----------------------------------------------------------------------------
(* The storage around it.                                                  *)

Referrers(id) == {p \in Slabs : id \in Retrieve(p).refs}

Forest    == \A id \in Slabs : Cardinality(Referrers(id)) <= 1 /\ ~ RefersTwice(id)
AllLoaded == Slabs = Loaded

Cached(ids) == [id \in SlabID |-> IF HasEntry(id) \/ id \notin ids THEN cache[id] ELSE base[id]]

LoadSlab(id) ==
    /\ ~ HasEntry(id) /\ base[id] # Absent
    /\ cache' = Cached({id})
    /\ UNCHANGED <<deltas, base>>

\* Both calls retrieve the slabs they come by, which caches them.
GetAllChildReferences(id) ==
    /\ Found(id)
    /\ cache' = Cached({id} \cup getAllChildReferences(deltas, Retrieve(id).refs).references)
    /\ UNCHANGED <<deltas, base>>

\* Whatever number of roots is expected: it is looked at last.
CheckHealth ==
    /\ checkSlabs.ok
    /\ cache' = Cached({id \in SlabIterator.ids :
                         Retrieve(id).refs # {} \/ Referrers(id) # {}})
    /\ UNCHANGED <<deltas, base>>

\* A program changes a slab and stores it, or removes a slab without
\* references together with the reference to it.
StoreSlab(id) ==
    /\ id \in Loaded
    /\ deltas' = [deltas EXCEPT ![id] = RetrieveIfLoaded(id)]
    /\ UNCHANGED <<cache, base>>

RemoveSlab(id) ==
    /\ id \in Loaded /\ Retrieve(id).refs = {} /\ Referrers(id) \subseteq Loaded
    /\ deltas' = [x \in SlabID |->
                    IF x = id THEN Nil
                    ELSE IF x \in Referrers(id)
                      THEN [Retrieve(x) EXCEPT !.refs = @ \ {id}, !.repeated = @ \ {id}] ELSE deltas[x]]
    /\ UNCHANGED <<cache, base>>

Commit ==
    /\ deltas # [id \in SlabID |-> Absent]
    /\ base' = [id \in SlabID |->
                  IF deltas[id] = Absent THEN base[id]
                  ELSE IF deltas[id] = Nil THEN Absent ELSE deltas[id]]
    /\ cache' = [id \in SlabID |-> RetrieveIfLoaded(id)]
    /\ deltas' = [id \in SlabID |-> Absent]

DropCache ==
    /\ cache' = [id \in SlabID |-> Absent]
    /\ UNCHANGED <<deltas, base>>

\* Migration programs load everything first: a slab that is not loaded counts
\* as one that does not exist.
FixLoadedBrokenReferences ==
    /\ Forest /\ AllLoaded
    /\ \E order \in Orders, needToFix \in SUBSET rootSlabIDsWithBrokenData :
          deltas' = fixAll(order, needToFix)
    /\ UNCHANGED <<cache, base>>

\* Metadata slabs lead to data slabs of their map, data slabs to containers,
\* and data slabs of maps to external collision groups.
WellFormed(graph) ==
    \A id \in SlabID : graph[id] # Absent =>
        /\ graph[id].meta => graph[id].refs # {}
        /\ \A ref \in graph[id].refs :
              graph[ref] # Absent =>
                 IF graph[id].meta THEN ~ graph[ref].root
                 ELSE graph[ref].root \/ graph[id].kind = "map"

\* Slabs are numbered so that no slab leads back to itself.
Acyclic(graph) ==
    \E rank \in [SlabID -> 1..Cardinality(SlabID)] :
        \A id \in SlabID : graph[id] # Absent => \A ref \in graph[id].refs : rank[ref] > rank[id]

AnySlab == {slab \in Slab : [kind |-> slab.kind, meta |-> slab.meta, root |-> slab.root] \in Shapes}

Repeated(graph) == {edge \in SlabID \X SlabID :
                      graph[edge[1]] # Absent /\ edge[2] \in graph[edge[1]].repeated}

Init ==
    /\ base \in {graph \in [SlabID -> AnySlab \cup {Absent}] :
                  /\ WellFormed(graph) /\ Acyclic(graph)
                  /\ Cardinality(Repeated(graph)) <= MaxRepeated}
    /\ cache = [id \in SlabID |-> Absent]
    /\ deltas = [id \in SlabID |-> Absent]

Next ==
    \/ \E id \in SlabID : LoadSlab(id) \/ GetAllChildReferences(id) \/ StoreSlab(id) \/ RemoveSlab(id)
    \/ CheckHealth
    \/ Commit
    \/ DropCache
    \/ FixLoadedBrokenReferences

Spec == Init /\ [][Next]_storageVars

-----------------------------------------------------------------------------
(* What is always so, in every part of the storage.                        *)

SlabsAreTyped ==
    /\ deltas \in [SlabID -> Slab \cup {Nil, Absent}]
    /\ cache \in [SlabID -> Slab \cup {Nil, Absent}]
    /\ base \in [SlabID -> Slab \cup {Absent}]

CacheMatchesBase ==
    \A id \in SlabID : cache[id] # Absent => cache[id] = IF base[id] = Absent THEN Nil ELSE base[id]

NoSlabLeadsToItself ==
    \E rank \in [SlabID -> 1..Cardinality(SlabID)] :
        \A id \in Slabs : \A ref \in Retrieve(id).refs : rank[ref] > rank[id]

RootsHaveNoMetaParent ==
    \A p \in Slabs : \A ref \in Retrieve(p).refs \cap Slabs :
        Retrieve(p).meta => ~ Retrieve(ref).root

GraphInv == SlabsAreTyped /\ CacheMatchesBase /\ NoSlabLeadsToItself /\ RootsHaveNoMetaParent

-----------------------------------------------------------------------------
(* Properties.                                                             *)

Below(id) == getAllChildReferences(deltas, Retrieve(id).refs).references

\* In a storage where no slab is referred to twice and no reference is broken,
\* SlabIterator goes through the slabs that are loaded or lead on from loaded
\* ones, each of them once, however they are spread over deltas, cache and
\* base storage (storage.go:342).
IterationIsExact ==
    Forest /\ (\A id \in Slabs : Retrieve(id).refs \subseteq Slabs) =>
        LET it == SlabIterator IN
          /\ ~ it.err
          /\ it.ids = UNION {{id} \cup Below(id) : id \in Loaded}
          /\ ~ Twice(it.visits)

\* CheckStorageHealth accepts no slab that is referred to twice and no child
\* of another owner (storage_health_check.go:25-26), accepts everything that
\* has neither and no broken reference if there are as many roots as expected
\* (below 0: any number), and then returns the slabs that none of the others
\* refers to.
HealthCheckIsExact ==
    LET seen  == SlabIterator.ids
        sound == /\ \A id \in SlabID : Cardinality(Parents(seen)[id]) <= 1
                 /\ \A p \in seen : ~ RefersTwice(p)
                 /\ \A p \in seen : \A id \in Retrieve(p).refs \cap seen : Owner[p] = Owner[id]
        whole == \A p \in seen : Retrieve(p).refs \subseteq seen
        roots == {id \in seen : \A p \in seen : id \notin Retrieve(p).refs}
    IN \A expected \in Expectations :
         LET health == CheckStorageHealth(expected)
             met    == expected < 0 \/ expected = Cardinality(roots)
         IN /\ health.ok => sound /\ met /\ health.roots = roots
            /\ ~ SlabIterator.err /\ sound /\ whole /\ met => health.ok

metaChildren ==
    [id \in SlabID |-> IF Found(id) /\ Retrieve(id).meta THEN Retrieve(id).refs \cap Slabs ELSE {}]

\* The slabs of a container: its root slab and what metadata slabs lead to.
OwnSlabs(root) == Reached(metaChildren, {root})

\* The maps that have a broken reference in one of their own slabs.
BrokenMaps ==
    {m \in Slabs : /\ IsMap(Retrieve(m))
                   /\ \E id \in OwnSlabs(m) : ~ (Retrieve(id).refs \subseteq Slabs)}

\* Of a storage that is all loaded, the repair empties the broken maps that it
\* is asked to, removes what they lead to and changes no other slab, in
\* whichever order Go's map iteration takes them, one inside another or not;
\* it makes no other reference break (storage.go:1017-1020).
RepairIsExact ==
    Forest /\ AllLoaded =>
      \A order \in Orders, needToFix \in SUBSET rootSlabIDsWithBrokenData :
        LET fixed == BrokenMaps \cap needToFix
            gone  == UNION {Below(m) : m \in fixed}
            after == fixAll(order, needToFix)
        IN /\ after = [id \in SlabID |->
                         IF id \in gone THEN Nil
                         ELSE IF id \in fixed THEN EmptyMap ELSE deltas[id]]
           /\ \A id \in SlabID : FoundIn(after, id) /\ ~ (id \in Slabs /\ Retrieve(id).refs \ Slabs # {}) =>
                 \A ref \in RetrieveIn(after, id).refs : FoundIn(after, ref)
           /\ BrokenMaps \subseteq rootSlabIDsWithBrokenData
=============================================================================
