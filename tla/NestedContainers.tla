-------------------------- MODULE NestedContainers --------------------------
(***************************************************************************)
(* Arrays and maps inside arrays and maps (array.go, map.go).  A child     *)
(* that is small enough is inlined: its slab is an element of the parent's *)
(* slab and is not in the storage.  A larger child has a slab of its own   *)
(* and its parent holds the slab ID.  A change of a child moves it between *)
(* the two: the child calls its parentUpdater, which sets the child again  *)
(* in the parent, which calls the parent's parentUpdater, and so on.  An   *)
(* array finds the child by mutableElementIndex, a map by the key.         *)
(*                                                                         *)
(* Every container is one slab here; ArrayTree and MapTree model how slabs *)
(* are split.  Array positions are counted from 1.                         *)
(***************************************************************************)
EXTENDS Integers, Sequences, FiniteSets, SequencesExt, Functions

CONSTANTS
    Container,         \* value IDs
    Key,               \* keys of maps, all of one size
    Types,             \* type infos, all of one size
    PlainSizes,        \* sizes of elements that are not containers
    WrapperSizes,      \* sizes of wrappers around a child, 0 for none, by the
                       \* kind of its parent
    RootPrefixSize,    \* size of an empty slab that is not inlined, by kind
    InlinedPrefixSize, \* size of an empty inlined slab, by kind
    MaxInlineSize,     \* maxInlineArrayElementSize, maxInlineMapValueSize
    SlabIDSize,        \* size of a SlabIDStorable
    ElementOverhead,   \* digest, key and prefix of an element of a map
    MaxElements,       \* bound on the elements of an array
    Unguarded,         \* calls made where the program is known to fail
    None

Kind == {"array", "map"}

Wraps == UNION {WrapperSizes[kind] : kind \in Kind}

Plain == [tag : {"plain"}, size : PlainSizes]

\* A container as the program passes it, maybe in a wrapper (SomeValue).
Child == [tag : {"value"}, id : Container, wrap : Wraps]

\* An element of a slab that is a container: its slab or its slab ID.
Link == [tag : {"slab", "ref"}, id : Container, wrap : Wraps]

Element == Plain \cup Link

\* An array has no cached sizes.
Slab == [kind : {"array"}, type : Types, inlined : BOOLEAN, size : Nat,
         elems : Seq(Element), cached : {<<>>}]
        \cup [kind : {"map"}, type : Types, inlined : BOOLEAN, size : Nat,
              elems : UNION {[keys -> Element] : keys \in SUBSET Key},
              cached : UNION {[keys -> Nat] : keys \in SUBSET Key}]

\* What a container holds.
Holding(values) ==
    [kind : {"array"}, type : Types, elems : Seq(values)]
    \cup [kind : {"map"}, type : Types, elems : UNION {[keys -> values] : keys \in SUBSET Key}]

\* What a slab's encoding holds: inlined containers too.
Encodings(containers) == [containers -> Holding(Element)]

Updater == [parent : Container, key : Key \cup {None}, wrap : Wraps]

Handle == [updater : Updater \cup {None},
           index : UNION {[children -> Nat] : children \in SUBSET Container}]

ASSUME NestingAssumption ==
    /\ IsFiniteSet(Container) /\ IsFiniteSet(Key)
    /\ \A kind \in Kind : /\ RootPrefixSize[kind] \in Nat
                          /\ InlinedPrefixSize[kind] \in Nat
                          /\ MaxInlineSize[kind] \in Nat
                          /\ PlainSizes \subseteq 1..MaxInlineSize[kind]
                          /\ WrapperSizes[kind] \subseteq Nat
                          /\ \A w \in WrapperSizes[kind] : w + SlabIDSize <= MaxInlineSize[kind]
    /\ SlabIDSize \in Nat /\ ElementOverhead \in Nat
    /\ Unguarded \subseteq {"Set"}
    /\ None \notin Container \cup Key \cup Nat
    /\ None \notin Slab /\ None \notin Handle /\ None \notin Updater
    /\ None \notin Holding(Plain \cup Child)
    /\ \A containers \in SUBSET Container : None \notin Encodings(containers)

VARIABLES
    slab,    \* Container -> root slab or None
    handle,  \* Container -> the program's Array or OrderedMap value, or None
    stored,  \* Container -> contents of its slab when last handed to the
             \* storage, or None when the storage has no such slab
    failed   \* a call returned a fatal error

vars == <<slab, handle, stored, failed>>

ChildOf(kind) == {v \in Child : v.wrap \in WrapperSizes[kind]}

State == [slab |-> slab, handle |-> handle, stored |-> stored, failed |-> failed]

Fail(st) == [st EXCEPT !.failed = TRUE]

\* The next part of a call, unless a part before returned an error.
Then(st, Part(_)) == IF st.failed THEN st ELSE Part(st)

\* A function with v at x.
With(f, x, v) == [y \in DOMAIN f \cup {x} |-> IF y = x THEN v ELSE f[y]]

PutSlab(st, c, s) == [st EXCEPT !.slab[c] = s]

-----------------------------------------------------------------------------
(* Slabs.                                                                  *)

PrefixSize(s) ==
    IF s.inlined THEN InlinedPrefixSize[s.kind] ELSE RootPrefixSize[s.kind]

\* ByteSize of an element: an inlined child's slab counts with the size in its
\* header at this moment.
ByteSize(st, e) ==
    CASE e.tag = "plain" -> e.size
      [] e.tag = "ref"   -> e.wrap + SlabIDSize
      [] e.tag = "slab"  -> e.wrap + st.slab[e.id].size

\* The smallest set that has what edges lead to from c, and leads nowhere else.
Below(edges, c) ==
    {d \in Container : \A S \in SUBSET Container :
                          edges[c] \subseteq S /\ (\A x \in S : edges[x] \subseteq S) => d \in S}

IsChild(e) == e.tag # "plain"

\* The containers that have no slab but c's.
InlinedIn(st, c) ==
    Below([x \in Container |->
             IF st.slab[x] = None THEN {}
             ELSE {e.id : e \in {f \in Range(st.slab[x].elems) : f.tag = "slab"}}], c)

\* What a slab's encoding holds: inlined children with their own contents.
Encode(st, c) ==
    [d \in {c} \cup InlinedIn(st, c) |->
       [kind |-> st.slab[d].kind, type |-> st.slab[d].type, elems |-> st.slab[d].elems]]

storeSlab(st, c) == [st EXCEPT !.stored[c] = Encode(st, c)]

storeIfNotInlined(st, c) == IF st.slab[c].inlined THEN st ELSE storeSlab(st, c)

\* The size a root slab would have when inlined.
InlinedSize(s) == s.size - PrefixSize(s) + InlinedPrefixSize[s.kind]

Inlinable(s, max) == InlinedSize(s) <= max

Inline(st, c) ==
    LET s == st.slab[c] IN
      IF s.inlined THEN Fail(st)
      ELSE [PutSlab(st, c, [s EXCEPT !.size = InlinedSize(s), !.inlined = TRUE])
              EXCEPT !.stored[c] = None]

Uninline(st, c) ==
    LET s == st.slab[c] IN
      IF ~ s.inlined THEN Fail(st)
      ELSE storeSlab(
             PutSlab(st, c, [s EXCEPT
               !.size = @ - InlinedPrefixSize[s.kind] + RootPrefixSize[s.kind],
               !.inlined = FALSE]),
             c)

\* Value.Storable: a container becomes its slab or its slab ID, and changes its
\* status on the way when its size calls for it; a wrapper lowers the limit.
Storable(st, value, max) ==
    IF value.tag = "plain" THEN [st |-> st, storable |-> value]
    ELSE LET c   == value.id
             s   == st.slab[c]
             fit == Inlinable(s, max - value.wrap)
         IN [st |-> CASE fit /\ ~ s.inlined -> Inline(st, c)
                      [] ~ fit /\ s.inlined -> Uninline(st, c)
                      [] OTHER -> st,
             storable |-> [tag  |-> IF fit THEN "slab" ELSE "ref",
                           id   |-> c, wrap |-> value.wrap]]

\* sums[i] is the sum of the first i numbers.
Sums(s) == LET sums[i \in 0..Len(s)] == IF i = 0 THEN 0 ELSE sums[i-1] + s[i]
           IN sums

Total(s) == Sums(s)[Len(s)]

SumSizes(st, elems) == Total([x \in DOMAIN elems |-> ByteSize(st, elems[x])])

\* A map has its elements in an order that digests give to keys.
KeyOrder == SetToSeq(Key)

SumCached(cached) ==
    Total([i \in 1..Len(KeyOrder) |->
             IF KeyOrder[i] \in DOMAIN cached THEN cached[KeyOrder[i]] ELSE 0])

\* A bug: the size changes by the difference of the two elements' sizes.
ArraySlabSetByDifference(st, p, at, e) ==
    LET s == st.slab[p] IN
      storeIfNotInlined(
        PutSlab(st, p, [s EXCEPT !.elems[at] = e,
                                 !.size = @ + ByteSize(st, e) - ByteSize(st, s.elems[at])]),
        p)

\* ArrayDataSlab.Set adds up all elements: the old element may be the slab
\* that is set, whose size has changed already.
ArraySlabSet(st, p, at, e) ==
    LET s     == st.slab[p]
        elems == [s.elems EXCEPT ![at] = e]
    IN storeIfNotInlined(
         PutSlab(st, p, [s EXCEPT !.elems = elems,
                                  !.size  = PrefixSize(s) + SumSizes(st, elems)]),
         p)

ArraySlabInsert(st, p, at, e) ==
    storeIfNotInlined(
      PutSlab(st, p, [st.slab[p] EXCEPT !.elems = InsertAt(@, at, e),
                                        !.size  = @ + ByteSize(st, e)]),
      p)

ArraySlabRemove(st, p, at) ==
    LET s == st.slab[p] IN
      storeIfNotInlined(
        PutSlab(st, p, [s EXCEPT !.elems = RemoveAt(@, at),
                                 !.size  = @ - ByteSize(st, s.elems[at])]),
        p)

\* A map's elements remember their sizes (singleElement.size).  Overwriting
\* adds up all of them, a new key adds its own.
MapSlabSet(st, p, key, e) ==
    LET s      == st.slab[p]
        cached == With(s.cached, key, ElementOverhead + ByteSize(st, e))
    IN storeIfNotInlined(
         PutSlab(st, p, [s EXCEPT !.elems  = With(@, key, e),
                                  !.cached = cached,
                                  !.size   = IF key \in DOMAIN s.elems
                                               THEN PrefixSize(s) + SumCached(cached)
                                               ELSE @ + cached[key]]),
         p)

MapSlabRemove(st, p, key) ==
    LET s    == st.slab[p]
        rest == DOMAIN s.elems \ {key}
    IN storeIfNotInlined(
         PutSlab(st, p, [s EXCEPT !.elems  = Restrict(@, rest),
                                  !.cached = Restrict(@, rest),
                                  !.size   = @ - s.cached[key]]),
         p)

\* Set and Insert of a slab begin with the value's Storable.
SlabSet(st, p, at, value) ==
    LET r == Storable(st, value, MaxInlineSize[st.slab[p].kind]) IN
      IF st.slab[p].kind = "array" THEN ArraySlabSet(r.st, p, at, r.storable)
                                   ELSE MapSlabSet(r.st, p, at, r.storable)

SlabInsert(st, p, at, value) ==
    LET r == Storable(st, value, MaxInlineSize.array)
    IN ArraySlabInsert(r.st, p, at, r.storable)

-----------------------------------------------------------------------------
(* Callbacks from child to parent.                                         *)

NoHandle == [updater |-> None, index |-> <<>>]

\* incrementIndexFrom, after the insert at position at; a position that would
\* leave the array is a fatal error.
incrementIndexFrom(st, p, at) ==
    LET index == st.handle[p].index
        moved == {c \in DOMAIN index : index[c] >= at}
    IN IF \E c \in moved : index[c] >= Len(st.slab[p].elems) THEN Fail(st)
       ELSE [st EXCEPT !.handle[p].index =
               [c \in DOMAIN @ |-> IF c \in moved THEN @[c] + 1 ELSE @[c]]]

\* A bug: children to the right of a removed element keep their positions.
decrementIndexNot(st, p, at) == st

decrementIndexFrom(st, p, at) ==
    [st EXCEPT !.handle[p].index =
       [c \in DOMAIN @ |-> IF @[c] > at THEN @[c] - 1 ELSE @[c]]]

deleteIndex(st, p, c) ==
    [st EXCEPT !.handle[p].index = Restrict(@, DOMAIN @ \ {c})]

\* An array remembers where its child is, and the child finds itself there by
\* its value ID.
setCallbackInArray(st, p, at, value) ==
    [st EXCEPT !.handle[p].index = With(@, value.id, at),
               !.handle[value.id].updater = [parent |-> p, key |-> None, wrap |-> value.wrap]]

\* In a map it finds itself by its key.
setCallbackInMap(st, p, key, value) ==
    [st EXCEPT !.handle[value.id].updater = [parent |-> p, key |-> key, wrap |-> value.wrap]]

setCallbackWithChild(st, p, at, value) ==
    CASE value.tag = "plain" -> st
      [] value.tag = "value" /\ st.slab[p].kind = "array" -> setCallbackInArray(st, p, at, value)
      [] value.tag = "value" /\ st.slab[p].kind = "map"   -> setCallbackInMap(st, p, at, value)

\* Where a child's updater looks for the child, None if the parent has no
\* such index or key any more.
PositionInArray(st, p, c) ==
    LET index == IF st.handle[p] = None THEN <<>> ELSE st.handle[p].index
    IN IF c \in DOMAIN index THEN index[c] ELSE None

PositionInMap(st, p, key) == IF key \in DOMAIN st.slab[p].elems THEN key ELSE None

UpdaterPosition(st, c) ==
    LET u == st.handle[c].updater
    IN IF st.slab[u.parent].kind = "array" THEN PositionInArray(st, u.parent, c)
                                           ELSE PositionInMap(st, u.parent, u.key)

\* A bug: what is found there is not compared with the child.
HoldsAnything(st, p, at, c) == TRUE

Holds(st, p, at, c) ==
    LET e == st.slab[p].elems[at] IN e.tag # "plain" /\ e.id = c

unsetUpdater(st, c) == [st EXCEPT !.handle[c].updater = None]

\* notifyParentIfNeeded: nothing to do for a child that was and stays outside
\* of its parent; a child that is no longer where its updater looks forgets its
\* parent; any other child is set again, and then the parent's parent is
\* notified.  A walk has the child that is next, None at the end, and the
\* children set so far.
notifyStep(walk) ==
    LET st      == walk.st
        c       == walk.child
        updater == st.handle[c].updater
        p       == updater.parent
        at      == UpdaterPosition(st, c)
        s       == st.slab[c]
        End(x)  == [walk EXCEPT !.st = x, !.child = None]
    IN IF c = None THEN walk
       ELSE IF st.failed \/ updater = None THEN End(st)
       ELSE IF ~ s.inlined /\ ~ Inlinable(s, MaxInlineSize[st.slab[p].kind] - updater.wrap)
         THEN End(st)
       ELSE IF at = None THEN End(unsetUpdater(st, c))
       ELSE IF at \notin DOMAIN st.slab[p].elems THEN End(Fail(st))
       ELSE IF ~ Holds(st, p, at, c) THEN End(unsetUpdater(st, c))
       ELSE LET value == [tag |-> "value", id |-> c, wrap |-> updater.wrap]
            IN [st    |-> SlabSet(st, p, at, value),
                child |-> p,
                sets  |-> Append(walk.sets, [parent |-> p, at |-> at, value |-> value])]

\* A container is in no more than all others.
notifyWalk(st, c) ==
    LET walk[i \in 0..Cardinality(Container)] ==
          IF i = 0 THEN [st |-> st, child |-> c, sets |-> <<>>] ELSE notifyStep(walk[i-1])
    IN walk

\* The callback of a child that was set is set up after its parent's parent
\* was notified.
setCallbacks(st, sets) ==
    LET after[i \in 0..Len(sets)] ==
          IF i = 0 THEN st
          ELSE LET x == sets[Len(sets) + 1 - i]
               IN Then(after[i-1], LAMBDA y : setCallbackWithChild(y, x.parent, x.at, x.value))
    IN after[Len(sets)]

notifyParentIfNeeded(st, c) ==
    LET end == notifyWalk(st, c)[Cardinality(Container)]
    IN setCallbacks(end.st, end.sets)

\* The slab is changed, the parent is notified, and then the callback of the
\* new child is set up.
set(st, p, at, value) ==
    Then(Then(SlabSet(st, p, at, value), LAMBDA x : notifyParentIfNeeded(x, p)),
         LAMBDA x : setCallbackWithChild(x, p, at, value))

-----------------------------------------------------------------------------
(* Operations of Array and OrderedMap.                                     *)

\* uninlineStorableIfNeeded: the element that left its parent gets a slab.
uninlineStorableIfNeeded(st, e) ==
    IF e.tag = "slab" THEN Then(st, LAMBDA x : Uninline(x, e.id)) ELSE st

\* An array also forgets the index of a child that was overwritten by another
\* value.
ArraySet(st, p, at, value) ==
    LET old  == st.slab[p].elems[at]
        drop == old.tag # "plain" /\ (value.tag = "plain" \/ value.id # old.id)
    IN Then(uninlineStorableIfNeeded(set(st, p, at, value), old),
            LAMBDA x : IF drop THEN deleteIndex(x, p, old.id) ELSE x)

MapSet(st, p, key, value) ==
    LET elems == st.slab[p].elems IN
      IF key \in DOMAIN elems
        THEN uninlineStorableIfNeeded(set(st, p, key, value), elems[key])
        ELSE set(st, p, key, value)

Insert(st, p, at, value) ==
    Then(Then(incrementIndexFrom(SlabInsert(st, p, at, value), p, at),
              LAMBDA x : notifyParentIfNeeded(x, p)),
         LAMBDA x : setCallbackWithChild(x, p, at, value))

ArrayRemove(st, p, at) ==
    LET old     == st.slab[p].elems[at]
        removed == decrementIndexFrom(ArraySlabRemove(st, p, at), p, at)
    IN Then(uninlineStorableIfNeeded(notifyParentIfNeeded(removed, p), old),
            LAMBDA x : IF old.tag = "plain" THEN x ELSE deleteIndex(x, p, old.id))

MapRemove(st, p, key) ==
    uninlineStorableIfNeeded(notifyParentIfNeeded(MapSlabRemove(st, p, key), p),
                             st.slab[p].elems[key])

\* The root becomes an empty slab with the same inlined status.
PopAll(st, c) ==
    LET s == st.slab[c] IN
      storeIfNotInlined(
        PutSlab(st, c, [s EXCEPT !.elems = <<>>, !.cached = <<>>,
                                 !.size = PrefixSize(s)]),
        c)

\* A bug: the parent of an inlined container is not told.
SetTypeUntold(st, c, type) ==
    storeIfNotInlined([st EXCEPT !.slab[c].type = type], c)

SetTypeInfo(st, c, type) ==
    LET st1 == [st EXCEPT !.slab[c].type = type] IN
      IF st1.slab[c].inlined THEN notifyParentIfNeeded(st1, c) ELSE storeSlab(st1, c)

-----------------------------------------------------------------------------
(* The program.  It has one handle on a container at a time, puts a        *)
(* container into one place at a time and never into itself.               *)

Children(st, c) ==
    IF st.slab[c] = None THEN {} ELSE {e.id : e \in {f \in Range(st.slab[c].elems) : IsChild(f)}}

ChildrenOf(c) == Children(State, c)

DescendantsOf(c) == Below([x \in Container |-> Children(State, x)], c)

Exists(c)     == slab[c] # None
Standalone(c) == Exists(c) /\ \A p \in Container : Exists(p) => c \notin ChildrenOf(p)

\* Values the program may put into p: a container that is nowhere else.
ValuesFor(p) ==
    Plain \cup {v \in ChildOf(slab[p].kind) : /\ Standalone(v.id) /\ handle[v.id] # None
                                              /\ p \notin {v.id} \cup DescendantsOf(v.id)}

Become(st) == /\ slab' = st.slab /\ handle' = st.handle
              /\ stored' = st.stored /\ failed' = st.failed

\* A new Array or OrderedMap value; those of nested containers were obtained
\* through the old one and are given up.
Fresh(st, c) ==
    [st EXCEPT !.handle = [d \in Container |->
                             IF d = c THEN NoHandle
                             ELSE IF d \in DescendantsOf(c) THEN None ELSE @[d]]]

Calls(c) == ~ failed /\ Exists(c) /\ handle[c] # None

NewContainer(c) ==
    /\ ~ failed /\ ~ Exists(c)
    /\ \E kind \in Kind, type \in Types :
          LET s == [kind |-> kind, type |-> type, inlined |-> FALSE,
                    size |-> RootPrefixSize[kind], elems |-> <<>>, cached |-> <<>>]
          IN Become(storeSlab([PutSlab(State, c, s) EXCEPT !.handle[c] = NoHandle], c))

\* NewArrayWithRootID, NewMapWithRootID.
LoadContainer(c) ==
    /\ ~ failed /\ Standalone(c) /\ stored[c] # None
    /\ Become(Fresh(State, c))

\* A child that is read through its parent can find the parent.
GetChild(p) ==
    /\ Calls(p)
    /\ \E at \in DOMAIN slab[p].elems :
          LET e == slab[p].elems[at] IN
            /\ IsChild(e)
            /\ Become(IF e.tag = "ref" /\ stored[e.id] = None THEN Fail(State)
                      ELSE setCallbackWithChild(Fresh(State, e.id), p, at,
                             [tag |-> "value", id |-> e.id, wrap |-> e.wrap]))

\* A child is set again in its own place unless it is inlined: then Set would
\* take the overwritten slab, which is the child's own, out of the parent.
SetElement(p) ==
    /\ Calls(p)
    /\ \E at \in DOMAIN slab[p].elems \cup (IF slab[p].kind = "map" THEN Key ELSE {}) :
          LET again == {v \in ChildOf(slab[p].kind) :
                          /\ at \in DOMAIN slab[p].elems /\ IsChild(slab[p].elems[at])
                          /\ v.id = slab[p].elems[at].id /\ handle[v.id] # None
                          /\ ~ slab[v.id].inlined \/ "Set" \in Unguarded}
          IN \E v \in ValuesFor(p) \cup again :
                Become(IF slab[p].kind = "array" THEN ArraySet(State, p, at, v)
                                                 ELSE MapSet(State, p, at, v))

InsertElement(p) ==
    /\ Calls(p) /\ slab[p].kind = "array" /\ Len(slab[p].elems) < MaxElements
    /\ \E at \in 1..Len(slab[p].elems) + 1, v \in ValuesFor(p) :
          Become(Insert(State, p, at, v))

RemoveAny(p) ==
    /\ Calls(p)
    /\ \E at \in DOMAIN slab[p].elems :
          Become(IF slab[p].kind = "array" THEN ArrayRemove(State, p, at)
                                           ELSE MapRemove(State, p, at))

SetType(c) ==
    /\ Calls(c)
    /\ \E type \in Types : Become(SetTypeInfo(State, c, type))

\* The program lets go of the inlined containers that are handed to it.  It
\* calls PopIterate on containers without a parent, and with no handle on
\* their elements: PopIterate does not tell parents and does not clear
\* mutableElementIndex, so that a later Insert could return a fatal error.
\* A container that was taken out of one that is gone finds nothing there and
\* would forget its parent at its next change; here it does at once.
PopIterate(c) ==
    /\ Calls(c)
    /\ Standalone(c) /\ \A d \in DescendantsOf(c) : handle[d] = None
    /\ LET gone == InlinedIn(State, c) IN
         Become([PopAll(State, c) EXCEPT
            !.slab   = [d \in Container |-> IF d \in gone THEN None ELSE @[d]],
            !.handle = [d \in Container |->
                          IF @[d] # None /\ @[d].updater # None /\ @[d].updater.parent \in gone
                            THEN [@[d] EXCEPT !.updater = None] ELSE @[d]]])

Init == /\ slab = [c \in Container |-> None]
        /\ handle = [c \in Container |-> None]
        /\ stored = [c \in Container |-> None]
        /\ failed = FALSE

Next == \E c \in Container :
           \/ NewContainer(c) \/ LoadContainer(c) \/ GetChild(c)
           \/ SetElement(c) \/ InsertElement(c) \/ RemoveAny(c)
           \/ SetType(c) \/ PopIterate(c)

Spec == Init /\ [][Next]_vars

-----------------------------------------------------------------------------
(* Properties.                                                             *)

\* What VerifyArray and VerifyMap check of nested containers, after every call
\* on any of them: sizes add up, a child is inlined exactly when it fits
\* (array_verify.go:248, 281, 296; map_verify.go:667), and an inlined
\* container is an element of some other one.
NestingIsValid ==
    \A p \in Container : Exists(p) =>
      LET s == slab[p] IN
        /\ s.size = PrefixSize(s) + (IF s.kind = "array" THEN SumSizes(State, s.elems)
                                                         ELSE SumCached(s.cached))
        /\ s.inlined => ~ Standalone(p)
        /\ \A x \in DOMAIN s.elems :
             LET e == s.elems[x] IN
               /\ s.kind = "map" => s.cached[x] = ElementOverhead + ByteSize(State, e)
               /\ IsChild(e) =>
                    LET fit == Inlinable(slab[e.id], MaxInlineSize[s.kind] - e.wrap) IN
                      /\ slab[e.id].inlined = fit
                      /\ e.tag = (IF fit THEN "slab" ELSE "ref")

\* No change is lost: whichever container a call was made on, the slab that its
\* contents are encoded in was handed to the storage after the change, and an
\* inlined container has no slab there (array.go:364, array_verify.go:154).
ChangesReachStorage ==
    \A c \in Container :
        stored[c] = IF Exists(c) /\ ~ slab[c].inlined THEN Encode(State, c) ELSE None

\* The program's handle on a nested container leads to the place where it is,
\* and no parent keeps an index of one that was taken out (array.go:46, "tracks
\* index of mutable element"), so that no call returns a fatal error
\* (array.go:705, array_data_slab.go:424, 449).
HandlesReachParents ==
    /\ ~ failed
    /\ \A p \in Container : Exists(p) =>
         \A x \in DOMAIN slab[p].elems :
            LET e == slab[p].elems[x] IN
              IsChild(e) /\ handle[e.id] # None =>
                 /\ handle[e.id].updater # None /\ handle[e.id].updater.parent = p
                 /\ handle[e.id].updater.wrap = e.wrap
                 /\ UpdaterPosition(State, e.id) = x
    /\ \A p \in Container : handle[p] # None =>
         \A c \in DOMAIN handle[p].index : c \in ChildrenOf(p)

\* What the program sees of a container.
ContentsIn(st, c) ==
    IF st.slab[c] = None THEN None
    ELSE [kind  |-> st.slab[c].kind, type |-> st.slab[c].type,
          elems |-> [x \in DOMAIN st.slab[c].elems |->
                       IF IsChild(st.slab[c].elems[x])
                         THEN [st.slab[c].elems[x] EXCEPT !.tag = "value"]
                         ELSE st.slab[c].elems[x]]]

\* To the program, containers are what Nesting says.
Promise == INSTANCE Nesting WITH contents <- [c \in Container |-> ContentsIn(State, c)],
                                 Values <- Plain \cup Child

ImplementsNesting == Promise!Spec
=============================================================================
