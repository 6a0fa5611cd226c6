----------------------- MODULE NestedContainersProofs -----------------------
(***************************************************************************)
(* Proofs about NestedContainers, for any number of containers, any sizes  *)
(* and any depth of nesting: what each call keeps, the invariant, the      *)
(* theorems, and that Nesting is implemented.                              *)
(***************************************************************************)
EXTENDS NestedSlabsProofs

-----------------------------------------------------------------------------
(* A container that left its place.                                        *)

\* Sizes do not change with the status of a container that is in no place.
LEMMA ApartSizes ==
    ASSUME NEW st, NEW X, Sound(st, None, X), NEW c \in Container,
           \A p \in Container : c \notin Kids(Contents(st), p),
           NEW r, NEW inlined \in BOOLEAN, Status(st, r, c, inlined)
    PROVE  TagsFit(r) /\ SizesFit(r, None)
  <1>0. st \in States /\ r \in States /\ TagsFit(st) /\ SizesFit(st, None)
    BY DEF Sound, Status
  <1>1. ASSUME NEW q \in Container
        PROVE  /\ SlabElems(r, q) = SlabElems(st, q) /\ SlabsIn(r, q) = SlabsIn(st, q)
               /\ r.slab[q] = None <=> st.slab[q] = None
    <2>1. SameHeld(st, r, q)
      BY DEF Status, Moved, SameHeld
    <2> QED  BY <1>0, <2>1, SameElems
  <1>2. ASSUME NEW q \in Container, NEW x \in DOMAIN SlabElems(st, q), IsChild(SlabElems(st, q)[x])
        PROVE  r.slab[SlabElems(st, q)[x].id] = st.slab[SlabElems(st, q)[x].id]
    <2>1. SlabElems(st, q)[x] \in Element
      BY <1>0, SlabElemsAre
    <2>2. SlabElems(st, q)[x].id \in Container
      BY <1>2, <2>1, ElementIs
    <2>3. Place(Contents(st), q, x, SlabElems(st, q)[x].id)
      BY <1>0, <1>2, PlaceInSlab
    <2>4. SlabElems(st, q)[x].id # c
      BY <2>2, <2>3, KidsAre
    <2> QED  BY <2>2, <2>4 DEF Status
  <1>3. TagsFit(r)
    BY <1>0, <1>1, <1>2 DEF TagsFit
  <1>4. ASSUME NEW q \in Container, NEW x \in DOMAIN SlabElems(st, q)
        PROVE  ByteSize(r, SlabElems(st, q)[x]) = ByteSize(st, SlabElems(st, q)[x])
    <2>1. SlabElems(st, q)[x] \in Element
      BY <1>0, SlabElemsAre
    <2>2. SlabElems(st, q)[x].tag = "slab" => IsChild(SlabElems(st, q)[x])
      BY DEF IsChild
    <2>3. PICK e \in Element : e = SlabElems(st, q)[x]
      BY <2>1
    <2> QED  BY <1>2, <2>2, <2>3, SameByteSize
  <1>5. ASSUME NEW q \in Container, r.slab[q] # None
        PROVE  LET s == r.slab[q] IN
                 /\ s.size >= PrefixSize(s)
                 /\ s.kind = "map" \/ None \notin SlabsIn(r, q) => SizeIs(r, q)
                 /\ s.kind = "map" => DOMAIN s.cached = DOMAIN s.elems
                 /\ \A x \in DOMAIN s.elems :
                       LET e == s.elems[x] IN
                         /\ s.kind = "map" /\ ~ (e.tag = "slab" /\ e.id = None) =>
                               s.cached[x] = ElementOverhead + ByteSize(r, e)
                         /\ IsChild(e) /\ e.id # None =>
                               (r.slab[e.id].inlined
                                  <=> Inlinable(r.slab[e.id], MaxInlineSize[s.kind] - e.wrap))
    <2> DEFINE s == r.slab[q]
               t == st.slab[q]
    <2>1. /\ t # None /\ s \in Slab /\ t \in Slab /\ SlabElems(r, q) = s.elems
          /\ SlabElems(st, q) = t.elems /\ s.elems = t.elems
      <3>1. t # None /\ SlabElems(r, q) = SlabElems(st, q)
        BY <1>1, <1>5
      <3>2. s \in Slab /\ SlabElems(r, q) = s.elems
        BY <1>0, <1>5, StateIs, SlabElemsAre
      <3>3. t \in Slab /\ SlabElems(st, q) = t.elems
        BY <1>0, <3>1, StateIs, SlabElemsAre
      <3> QED  BY <3>1, <3>2, <3>3
    <2>2. /\ s.kind = t.kind /\ s.cached = t.cached
          /\ s.size - PrefixSize(s) = t.size - PrefixSize(t)
      <3>1. CASE q = c
        <4>1. Moved(st, r, q)
          BY <3>1 DEF Status
        <4> QED  BY <4>1 DEF Moved
      <3>2. CASE q # c
        BY <3>2 DEF Status
      <3> QED  BY <3>1, <3>2
    <2>3. s.size \in Nat /\ t.size \in Nat /\ PrefixSize(s) \in Nat /\ PrefixSize(t) \in Nat
      BY <2>1, PrefixIs, SlabIs
    <2>4. /\ t.size >= PrefixSize(t) /\ SizeIs(st, q)
          /\ t.kind = "map" => DOMAIN t.cached = DOMAIN t.elems
      <3>1. None \notin SlabsIn(st, q)
        BY NoneIsNot DEF SlabsIn
      <3> QED  BY <1>0, <2>1, <3>1 DEF SizesFit
    <2>5. s.size >= PrefixSize(s)
      BY <2>2, <2>3, <2>4
    <2>6. SumSizes(r, t.elems) = SumSizes(st, t.elems)
      <3>1. [x \in DOMAIN t.elems |-> ByteSize(r, t.elems[x])]
               = [x \in DOMAIN t.elems |-> ByteSize(st, t.elems[x])]
        BY <1>4, <2>1
      <3> QED  BY <3>1 DEF SumSizes
    <2>7. SizeIs(r, q)
      <3> DEFINE sum == IF t.kind = "array" THEN SumSizes(st, t.elems) ELSE SumCached(t.cached)
      <3>1. t.size = PrefixSize(t) + sum
        BY <2>4 DEF SizeIs
      <3>2. sum \in Nat
        <4>1. CASE t.kind = "array"
          <5>1. [x \in DOMAIN t.elems |-> ByteSize(st, t.elems[x])] \in Seq(Nat)
            BY <2>1, <4>1, BytesAre DEF Sound, Nest
          <5> QED  BY <4>1, <5>1, SumsDef DEF SumSizes
        <4>2. CASE t.kind # "array"
          BY <2>1, <4>2, SlabIs, CachedIs DEF Kind
        <4> QED  BY <4>1, <4>2
      <3>3. (IF s.kind = "array" THEN SumSizes(r, s.elems) ELSE SumCached(s.cached)) = sum
        BY <2>1, <2>2, <2>6
      <3> HIDE DEF sum
      <3>4. s.size = PrefixSize(s) + sum
        BY <2>2, <2>3, <3>1, <3>2
      <3> QED  BY <3>3, <3>4 DEF SizeIs
    <2>8. ASSUME NEW x \in DOMAIN s.elems
          PROVE  LET e == s.elems[x] IN
                   /\ s.kind = "map" /\ ~ (e.tag = "slab" /\ e.id = None) =>
                         s.cached[x] = ElementOverhead + ByteSize(r, e)
                   /\ IsChild(e) /\ e.id # None =>
                         (r.slab[e.id].inlined
                            <=> Inlinable(r.slab[e.id], MaxInlineSize[s.kind] - e.wrap))
      <3> DEFINE e == t.elems[x]
      <3>1. /\ t.kind = "map" /\ ~ (e.tag = "slab" /\ e.id = None) =>
                 t.cached[x] = ElementOverhead + ByteSize(st, e)
            /\ IsChild(e) /\ e.id # None =>
                  (st.slab[e.id].inlined
                     <=> Inlinable(st.slab[e.id], MaxInlineSize[t.kind] - e.wrap))
        BY <1>0, <2>1 DEF SizesFit
      <3>2. ByteSize(r, e) = ByteSize(st, e) /\ (IsChild(e) => r.slab[e.id] = st.slab[e.id])
        BY <1>2, <1>4, <2>1
      <3> QED  BY <2>1, <2>2, <3>1, <3>2
    <2> QED  BY <2>1, <2>2, <2>4, <2>5, <2>7, <2>8
  <1>6. SizesFit(r, None)
    BY <1>5 DEF SizesFit
  <1> QED  BY <1>3, <1>6

\* A container that was inlined and is in no place any more gets a slab.
LEMMA TakeOut ==
    ASSUME NEW st, NEW c \in Container, Sound(st, None, {c}), st.slab[c] # None, st.slab[c].inlined,
           \A p \in Container : c \notin Kids(Contents(st), p)
    PROVE  LET r == Uninline(st, c)
           IN Sound(r, None, {}) /\ r.handle = st.handle /\ Contents(r) = Contents(st)
  <1> DEFINE r == Uninline(st, c)
  <1>0. /\ st \in States /\ Nest(Contents(st)) /\ ChildrenExist(Contents(st))
        /\ InlinedHavePlace(st, {c}) /\ Saved(st, None) /\ st.slab[c].size >= PrefixSize(st.slab[c])
    BY DEF Sound, Nest, SizesFit
  <1>1. Status(st, r, c, FALSE)
    BY <1>0, UninlineIs
  <1> HIDE DEF r
  <1>2. TagsFit(r) /\ SizesFit(r, None)
    BY <1>1, ApartSizes
  <1>3. r \in States /\ Contents(r) = Contents(st) /\ r.handle = st.handle
    BY <1>1 DEF Status
  <1>4. \A d \in Container : SameHeld(st, r, d)
    BY <1>1 DEF Status, Moved, SameHeld
  <1>5. InlinedHavePlace(r, {})
    <2> SUFFICES ASSUME NEW d \in Container, r.slab[d] # None, r.slab[d].inlined
                 PROVE  \E p \in Container : d \in SlabsIn(r, p)
      BY DEF InlinedHavePlace
    <2>1. d # c /\ r.slab[d] = st.slab[d]
      BY <1>1 DEF Status
    <2>2. PICK p \in Container : d \in SlabsIn(st, p)
      BY <1>0, <2>1 DEF InlinedHavePlace
    <2>3. SlabsIn(r, p) = SlabsIn(st, p)
      BY <1>0, <1>3, <1>4, SameElems
    <2> QED  BY <2>2, <2>3
  <1>6. ASSUME NEW d \in Container PROVE Encode(r, d) = Encode(st, d) /\ None \notin InlinedIn(st, d)
    <2>1. None \notin InlinedIn(r, d) /\ None # d /\ None \notin InlinedIn(st, d)
      BY <1>0, <1>3, InlinedIs, NoneIsNot
    <2>2. \A y \in Container : y # None => SameHeld(st, r, y)
      BY <1>4
    <2> QED  BY <1>0, <1>3, <2>1, <2>2, EncodeSame
  <1>7. Saved(r, None)
    <2> SUFFICES ASSUME NEW d \in Container
                 PROVE  IF r.slab[d] # None /\ ~ r.slab[d].inlined
                          THEN r.stored[d] = Encode(r, d) ELSE r.stored[d] = None
      BY DEF Saved
    <2>1. CASE d = c
      <3>1. /\ r.slab[c] # None /\ ~ r.slab[c].inlined
            /\ r.stored[c] = Encode(r, c)
        BY <1>1 DEF Status, Moved
      <3> QED  BY <2>1, <3>1
    <2>2. CASE d # c
      BY <1>0, <1>1, <1>6, <2>2 DEF Status, Saved
    <2> QED  BY <2>1, <2>2
  <1>8. Sound(r, None, {})
    BY <1>0, <1>2, <1>3, <1>5, <1>7 DEF Sound
  <1> QED  BY <1>3, <1>8 DEF r

\* The element e of p was overwritten or removed.
Leaving(st, e, X) ==
    /\ Sound(st, None, X) /\ e \in Element /\ X \subseteq (IF IsChild(e) THEN {e.id} ELSE {})
    /\ IsChild(e) /\ e.id \in X =>
          st.slab[e.id] # None /\ (e.tag = "slab" <=> st.slab[e.id].inlined)
    /\ e.tag = "slab" => e.id \in X /\ \A p \in Container : e.id \notin Kids(Contents(st), p)

\* Then its container gets a slab, if it is one that has none.
LEMMA Leaves ==
    ASSUME NEW st, NEW e, NEW X, Leaving(st, e, X)
    PROVE  LET r == uninlineStorableIfNeeded(st, e)
           IN Sound(r, None, {}) /\ r.handle = st.handle /\ Contents(r) = Contents(st)
  <1>1. CASE e.tag = "slab"
    <2>1. IsChild(e) /\ e.id \in Container
      BY <1>1, ElementIs DEF Leaving, IsChild
    <2>2. Sound(st, None, {e.id}) /\ st.slab[e.id] # None /\ st.slab[e.id].inlined
      <3>1. X = {e.id}
        BY <1>1, <2>1 DEF Leaving
      <3> QED  BY <1>1, <2>1, <3>1 DEF Leaving
    <2>3. ~ st.failed
      BY <2>2, StateIs DEF Sound
    <2>4. uninlineStorableIfNeeded(st, e) = Uninline(st, e.id)
      BY <1>1, <2>3 DEF uninlineStorableIfNeeded, Then
    <2>5. \A p \in Container : e.id \notin Kids(Contents(st), p)
      BY <1>1 DEF Leaving
    <2> QED  BY <2>1, <2>2, <2>4, <2>5, TakeOut
  <1>2. CASE e.tag # "slab"
    <2>1. uninlineStorableIfNeeded(st, e) = st
      BY <1>2 DEF uninlineStorableIfNeeded
    <2>2. InlinedHavePlace(st, {})
      BY <1>2 DEF Leaving, Sound, InlinedHavePlace
    <2>3. Sound(st, None, {})
      BY <2>2 DEF Leaving, Sound
    <2> QED  BY <2>1, <2>3
  <1> QED  BY <1>1, <1>2

-----------------------------------------------------------------------------
(* What a call on p does to handles.                                       *)

\* The call changes the elements of p and its index, so that children keep
\* their links but for those in L, and the index is right but for I.
Relinks(k, h, k2, h2, p, L, I) ==
    /\ k \in Programs /\ k2 \in Programs /\ h2 \in Handles
    /\ p \in Container /\ k[p] # None /\ k2[p] # None /\ k2[p].kind = k[p].kind
    /\ \A d \in Container : d # p => k2[d] = k[d] /\ h2[d] = h[d]
    /\ h[p] # None /\ h2[p] # None /\ h2[p].updater = h[p].updater
    /\ DOMAIN h2[p].index \subseteq DOMAIN h[p].index
    /\ \A c \in Container : \A y \in DOMAIN Elems(k2, p) :
          Place(k2, p, y, c) /\ c \notin L =>
            \E x \in DOMAIN Elems(k, p) :
               /\ Place(k, p, x, c) /\ Elems(k2, p)[y].wrap = Elems(k, p)[x].wrap
               /\ k[p].kind # "array" => x = y
               /\ k[p].kind = "array" /\ c \in DOMAIN h[p].index /\ h[p].index[c] = x =>
                     c \in DOMAIN h2[p].index /\ h2[p].index[c] = y
    /\ \A c \in DOMAIN h2[p].index : <<p, c>> \notin I =>
          k[p].kind = "array" /\ Place(k2, p, h2[p].index[c], c)

\* Handles lead to places after it.
LEMMA RelinksAll ==
    ASSUME NEW k, NEW h, NEW k2, NEW h2, NEW p, NEW L, NEW I,
           Handled(k, h, {}, {}), Relinks(k, h, k2, h2, p, L, I)
    PROVE  Handled(k2, h2, L, I)
  <1>0. h \in Handles /\ h2 \in Handles /\ p \in Container /\ k \in Programs /\ k2 \in Programs
    BY DEF Handled, Relinks
  <1>1. ASSUME NEW d \in Container
        PROVE  /\ k2[d] = None <=> k[d] = None
               /\ h2[d] = None <=> h[d] = None
               /\ h2[d] # None => h2[d].updater = h[d].updater
               /\ k[d] # None => k2[d].kind = k[d].kind
               /\ d # p => Elems(k2, d) = Elems(k, d) /\ h2[d] = h[d]
               /\ \A x, c : d # p => (Place(k2, d, x, c) <=> Place(k, d, x, c))
    BY DEF Relinks, Elems, Place
  <1>2. Linked(k2, h2, L)
    <2> SUFFICES ASSUME NEW q \in Container, NEW c \in Container, NEW y \in DOMAIN Elems(k2, q),
                        Place(k2, q, y, c), c \notin L, h2[c] # None
                 PROVE  /\ h2[q] # None
                        /\ h2[c].updater = [parent |-> q, wrap |-> Elems(k2, q)[y].wrap,
                                            key |-> IF k2[q].kind = "array" THEN None ELSE y]
                        /\ k2[q].kind = "array" => c \in DOMAIN h2[q].index /\ h2[q].index[c] = y
      BY DEF Linked
    <2>1. h[c] # None /\ h2[c].updater = h[c].updater
      BY <1>1
    <2>2. CASE q # p
      <3>1. /\ Elems(k2, q) = Elems(k, q) /\ Place(k, q, y, c) /\ k2[q] = k[q] /\ h2[q] = h[q]
        BY <1>1, <2>2 DEF Relinks
      <3>2. y \in DOMAIN Elems(k, q)
        BY <3>1
      <3> QED  BY <2>1, <3>1, <3>2 DEF Handled, Linked
    <2>3. CASE q = p
      <3>1. PICK x \in DOMAIN Elems(k, p) :
               /\ Place(k, p, x, c) /\ Elems(k2, p)[y].wrap = Elems(k, p)[x].wrap
               /\ k[p].kind # "array" => x = y
               /\ k[p].kind = "array" /\ c \in DOMAIN h[p].index /\ h[p].index[c] = x =>
                     c \in DOMAIN h2[p].index /\ h2[p].index[c] = y
        BY <2>3 DEF Relinks
      <3>2. /\ h[p] # None
            /\ h[c].updater = [parent |-> p, wrap |-> Elems(k, p)[x].wrap,
                               key |-> IF k[p].kind = "array" THEN None ELSE x]
            /\ k[p].kind = "array" => c \in DOMAIN h[p].index /\ h[p].index[c] = x
        BY <1>0, <2>1, <3>1 DEF Handled, Linked
      <3>3. h2[p] # None /\ k2[p].kind = k[p].kind
        BY DEF Relinks
      <3>4. h2[c].updater = [parent |-> p, wrap |-> Elems(k2, p)[y].wrap,
                             key |-> IF k2[p].kind = "array" THEN None ELSE y]
        BY <2>1, <3>1, <3>2, <3>3
      <3> QED  BY <2>3, <3>1, <3>2, <3>3, <3>4
    <2> QED  BY <2>2, <2>3
  <1>3. Indexed(k2, h2, I)
    <2> SUFFICES ASSUME NEW q \in Container, h2[q] # None
                 PROVE  /\ k2[q] # None
                        /\ \A c \in DOMAIN h2[q].index : <<q, c>> \notin I =>
                              k2[q].kind = "array" /\ Place(k2, q, h2[q].index[c], c)
      BY DEF Indexed
    <2>1. CASE q = p
      BY <2>1 DEF Relinks
    <2>2. CASE q # p
      <3>1. h2[q] = h[q] /\ k2[q] = k[q]
        BY <2>2 DEF Relinks
      <3>2. /\ k[q] # None
            /\ \A c \in DOMAIN h[q].index : k[q].kind = "array" /\ Place(k, q, h[q].index[c], c)
        BY <3>1 DEF Handled, Indexed
      <3> QED  BY <1>1, <2>2, <3>1, <3>2
    <2> QED  BY <2>1, <2>2
  <1>4. UpdatersLead(k2, h2)
    <2> SUFFICES ASSUME NEW c \in Container, h2[c] # None, h2[c].updater # None
                 PROVE  k2[h2[c].updater.parent] # None
      BY DEF UpdatersLead
    <2>1. h[c] # None /\ h2[c].updater = h[c].updater
      BY <1>1
    <2>2. h[c] \in Handle
      BY <1>0, <2>1 DEF Handles
    <2>3. h[c].updater \in Updater
      BY <2>1, <2>2, HandleIs
    <2>4. h[c].updater.parent \in Container
      BY <2>3, UpdaterIs
    <2>5. k[h[c].updater.parent] # None
      BY <2>1 DEF Handled, UpdatersLead
    <2> QED  BY <1>1, <2>1, <2>4, <2>5
  <1>5. Known(h2)
    <2> SUFFICES ASSUME NEW q \in Container, h2[q] # None, NEW d \in DOMAIN h2[q].index
                 PROVE  d \in Container /\ h2[d] # None
      BY DEF Known
    <2>1. d \in DOMAIN h[q].index
      BY <1>1 DEF Relinks
    <2>2. d \in Container /\ h[d] # None
      BY <1>1, <2>1 DEF Handled, Known
    <2> QED  BY <1>1, <2>2
  <1> QED  BY <1>0, <1>2, <1>3, <1>4, <1>5 DEF Handled

\* The index of p is another one.
Reindexed(st, p, index) == [st EXCEPT !.handle[p].index = index]

\* Nothing else changes.
LEMMA ReindexedIs ==
    ASSUME NEW st \in States, NEW p \in Container, st.handle[p] # None,
           NEW children \in SUBSET Container, NEW index \in [children -> Nat]
    PROVE  LET r == Reindexed(st, p, index)
           IN /\ r \in States /\ r.slab = st.slab /\ r.stored = st.stored
              /\ \A d \in Container : d # p => r.handle[d] = st.handle[d]
              /\ r.handle[p] = [updater |-> st.handle[p].updater, index |-> index]
              /\ r.handle[p] # None
  <1> DEFINE h == st.handle
             a == [updater |-> h[p].updater, index |-> index]
             h2 == [h EXCEPT ![p] = a]
  <1>1. h \in Handles /\ h[p] \in Handle
    BY StateIs
  <1>2. [h[p] EXCEPT !.index = index] = a
    <2>1. h[p] = [updater |-> h[p].updater, index |-> h[p].index]
      BY <1>1, HandleIs
    <2> QED  BY <2>1
  <1>3. a \in Handle /\ a # None
    <2>1. h[p].updater \in Updater \cup {None}
      BY <1>1, HandleIs
    <2>2. a \in Handle
      BY <2>1, IsHandle
    <2> QED  BY <2>2, NoneIsNot
  <1>4. h2 \in Handles /\ h2[p] = a /\ \A d \in Container : d # p => h2[d] = h[d]
    BY <1>1, <1>3 DEF Handles
  <1>5. Reindexed(st, p, index) = Rehandled(st, h2)
    BY <1>2 DEF Reindexed, Rehandled
  <1> HIDE DEF h2, a
  <1>6. /\ Rehandled(st, h2) \in States /\ Rehandled(st, h2).handle = h2
        /\ Rehandled(st, h2).slab = st.slab /\ Rehandled(st, h2).stored = st.stored
    BY <1>4, RehandledIs
  <1> QED  BY <1>3, <1>4, <1>5, <1>6 DEF a

\* An array forgets the index of a container that was taken out.
LEMMA DeleteIndex ==
    ASSUME NEW st, NEW p \in Container, NEW c \in Container,
           Sound(st, None, {}), Handled(Contents(st), st.handle, {}, {<<p, c>>}),
           st.handle[p] # None, c \notin Kids(Contents(st), p)
    PROVE  LET r == deleteIndex(st, p, c)
           IN /\ Sound(r, None, {}) /\ Contents(r) = Contents(st)
              /\ Handled(Contents(r), r.handle, {}, {})
  <1> DEFINE k == Contents(st)
             h == st.handle
             old == h[p].index
             index == Restrict(old, DOMAIN old \ {c})
             r == deleteIndex(st, p, c)
             h2 == r.handle
  <1>0. st \in States /\ h \in Handles /\ h[p] \in Handle /\ k \in Programs
    BY StateIs, ContentsAre DEF Sound
  <1>1. DOMAIN old \in SUBSET Container /\ old \in [DOMAIN old -> Nat]
    BY <1>0, HandleIs
  <1>2. /\ DOMAIN index = DOMAIN old \ {c} /\ index \in [DOMAIN old \ {c} -> Nat]
        /\ DOMAIN old \ {c} \in SUBSET Container
        /\ \A d \in DOMAIN old \ {c} : index[d] = old[d]
    <2> HIDE DEF old
    <2> QED  BY <1>1 DEF Restrict
  <1>3. r = Reindexed(st, p, index)
    BY DEF deleteIndex, Reindexed
  <1> HIDE DEF index, r
  <1>4. /\ r \in States /\ r.slab = st.slab /\ r.stored = st.stored
        /\ \A d \in Container : d # p => h2[d] = h[d]
        /\ h2[p] = [updater |-> h[p].updater, index |-> index]
        /\ h2[p] # None
    BY <1>0, <1>2, <1>3, ReindexedIs
  <1>5. Sound(r, None, {}) /\ Contents(r) = k
    BY <1>4, SoundSlabs
  <1>6. /\ h2 \in Handles /\ h2[p].updater = h[p].updater /\ h2[p].index = index
    <2>1. h2 \in Handles
      BY <1>4, StateIs
    <2> HIDE DEF h2
    <2> QED  BY <1>4, <2>1
  <1> HIDE DEF h2, h, k
  <1>7. Linked(k, h2, {})
    <2> SUFFICES ASSUME NEW q \in Container, NEW d \in Container, NEW y \in DOMAIN Elems(k, q),
                        Place(k, q, y, d), h2[d] # None
                 PROVE  /\ h2[q] # None
                        /\ h2[d].updater = [parent |-> q, wrap |-> Elems(k, q)[y].wrap,
                                            key |-> IF k[q].kind = "array" THEN None ELSE y]
                        /\ k[q].kind = "array" => d \in DOMAIN h2[q].index /\ h2[q].index[d] = y
      BY DEF Linked
    <2>1. h[d] # None /\ h2[d].updater = h[d].updater
      BY <1>4, <1>6 DEF h
    <2>2. /\ h[q] # None
          /\ h[d].updater = [parent |-> q, wrap |-> Elems(k, q)[y].wrap,
                             key |-> IF k[q].kind = "array" THEN None ELSE y]
          /\ k[q].kind = "array" => d \in DOMAIN h[q].index /\ h[q].index[d] = y
      BY <2>1 DEF Handled, Linked, h, k
    <2>3. q = p => d # c
      BY KidsAre DEF k
    <2> QED  BY <1>2, <1>4, <1>6, <2>1, <2>2, <2>3
  <1>8. Indexed(k, h2, {})
    <2> SUFFICES ASSUME NEW q \in Container, h2[q] # None
                 PROVE  /\ k[q] # None
                        /\ \A d \in DOMAIN h2[q].index :
                              k[q].kind = "array" /\ Place(k, q, h2[q].index[d], d)
      BY DEF Indexed
    <2>1. h[q] # None
      BY <1>4 DEF h
    <2>2. /\ k[q] # None
          /\ \A d \in DOMAIN h[q].index : <<q, d>> \notin {<<p, c>>} =>
                k[q].kind = "array" /\ Place(k, q, h[q].index[d], d)
      BY <2>1 DEF Handled, Indexed, h, k
    <2>3. ASSUME NEW d \in DOMAIN h2[q].index
          PROVE  d \in DOMAIN h[q].index /\ h2[q].index[d] = h[q].index[d] /\ <<q, d>> # <<p, c>>
      <3>1. CASE q = p
        BY <1>2, <1>6, <2>3, <3>1
      <3>2. CASE q # p
        BY <1>4, <2>3, <3>2
      <3> QED  BY <3>1, <3>2
    <2> QED  BY <2>2, <2>3
  <1>9. UpdatersLead(k, h2)
    <2>1. \A d \in Container : h2[d] # None => h[d] # None /\ h2[d].updater = h[d].updater
      BY <1>4, <1>6 DEF h
    <2> QED  BY <2>1 DEF UpdatersLead, Handled, h, k
  <1>10. Known(h2)
    <2> SUFFICES ASSUME NEW q \in Container, h2[q] # None, NEW d \in DOMAIN h2[q].index
                 PROVE  d \in Container /\ h2[d] # None
      BY DEF Known
    <2>1. h[q] # None /\ d \in DOMAIN h[q].index
      BY <1>2, <1>4, <1>6 DEF h
    <2>2. d \in Container /\ h[d] # None
      BY <2>1 DEF Handled, Known, h
    <2> QED  BY <1>4, <2>2
  <1>11. Handled(k, h2, {}, {})
    BY <1>6, <1>7, <1>8, <1>9, <1>10 DEF Handled
  <1> QED  BY <1>5, <1>11 DEF r, h2, k

\* Others stay clear of p when its elements change.
LEMMA StaysClear ==
    ASSUME NEW k, NEW k2, NEW p \in Container, NEW elems, Alters(k, k2, p, elems),
           NEW Z \in SUBSET Container, Clear(k, p, Z)
    PROVE  Clear(k2, p, Z)
  <1> SUFFICES ASSUME NEW z \in Z PROVE p # z /\ p \notin Under(k2, z)
    BY DEF Clear
  <1> DEFINE e == [d \in Container |-> Kids(k, d)]
             e2 == [d \in Container |-> Kids(k2, d)]
  <1>1. e \in [Container -> SUBSET Container] /\ e2 \in [Container -> SUBSET Container]
    BY KidsAre
  <1>2. \A d \in Container : d # p => e[d] = e2[d]
    <2>1. ASSUME NEW d \in Container, d # p PROVE Kids(k2, d) = Kids(k, d)
      <3>1. Elems(k2, d) = Elems(k, d)
        BY <2>1 DEF Alters, Elems
      <3> QED  BY <3>1 DEF Kids, Place
    <2> QED  BY <2>1
  <1>3. p # z /\ p \notin Below(e, z)
    BY DEF Clear, Under
  <1> HIDE DEF e, e2
  <1>4. Below(e2, z) = Below(e, z)
    BY <1>1, <1>2, <1>3, BelowSame
  <1> QED  BY <1>3, <1>4 DEF Under, e, e2

-----------------------------------------------------------------------------
(* Set.                                                                    *)

\* All is well.
Whole(st) == Sound(st, None, {}) /\ Handled(Contents(st), st.handle, {}, {})

\* The value at x in p, the container c, is to be linked to its place.
Linking(st, X, I, p, c, x, value) ==
    /\ p \in Container /\ c \in Container
    /\ Sound(st, None, X) /\ Handled(Contents(st), st.handle, {c}, I)
    /\ Place(Contents(st), p, x, c) /\ value = Elems(Contents(st), p)[x]
    /\ st.handle[p] # None /\ st.handle[c] # None

\* Then it is.
LEMMA LinkChild ==
    ASSUME NEW st, NEW X, NEW I, NEW p, NEW c, NEW x, NEW value,
           Linking(st, X, I, p, c, x, value)
    PROVE  LET r == setCallbackWithChild(st, p, x, value)
           IN /\ Sound(r, None, X) /\ Contents(r) = Contents(st) /\ r.slab = st.slab
              /\ Handled(Contents(r), r.handle, {}, I) /\ r.handle[p] # None
  <1> DEFINE k == Contents(st)
             h == st.handle
  <1>0. /\ st \in States /\ Nest(k) /\ h \in Handles /\ p \in Container /\ c \in Container
        /\ Sound(st, None, X) /\ Handled(k, h, {c}, I) /\ Place(k, p, x, c)
        /\ value = Elems(k, p)[x] /\ h[p] # None /\ h[c] # None
    BY DEF Linking, Sound, Handled
  <1>1. p # c
    BY <1>0, KidsAre, UnderIs DEF Nest, NoCycle
  <1>2. PICK h2 \in Handles :
             /\ setCallbackWithChild(st, p, x, value) = Rehandled(st, h2)
             /\ \A d \in Container : d \notin {p, c} => h2[d] = h[d]
             /\ h2[c] = [updater |-> [parent |-> p, wrap |-> Elems(k, p)[x].wrap,
                                      key |-> IF k[p].kind = "array" THEN None ELSE x],
                         index |-> h[c].index]
             /\ h2[p] = [updater |-> h[p].updater,
                         index |-> IF k[p].kind = "array"
                                     THEN With(h[p].index, c, x) ELSE h[p].index]
    BY <1>0, <1>1, CallbackIs
  <1>3. Handled(k, h2, {c} \ {c}, I)
    <2>1. PICK L : L = {c}
      OBVIOUS
    <2>2. Handled(k, h, L, I)
      BY <1>0, <2>1
    <2> HIDE DEF k, h
    <2>3. CallbackSet(k, h, h2, p, c, x)
      BY <1>0, <1>2 DEF CallbackSet
    <2>4. Handled(k, h2, L \ {c}, I)
      BY <1>0, <2>2, <2>3, LinkSet
    <2> QED  BY <2>1, <2>4
  <1>4. {c} \ {c} = {}
    OBVIOUS
  <1>5. /\ Rehandled(st, h2) \in States /\ Rehandled(st, h2).handle = h2
        /\ Rehandled(st, h2).slab = st.slab /\ Rehandled(st, h2).stored = st.stored
    BY <1>0, RehandledIs
  <1>6. Sound(Rehandled(st, h2), None, X) /\ Contents(Rehandled(st, h2)) = Contents(st)
    BY <1>0, <1>5, SoundSlabs
  <1>7. h2[p] # None
    <2>1. p \in DOMAIN h2 /\ h2[p] \in Handle \cup {None}
      BY <1>0 DEF Handles
    <2>2. h[p] \in Handle /\ h[p].updater \in Updater \cup {None}
      BY <1>0, HandleIs DEF Handles
    <2>3. DOMAIN h[p].index \in SUBSET Container /\ h[p].index \in [DOMAIN h[p].index -> Nat]
      BY <2>2, HandleIs
    <2>4. CASE k[p].kind = "array"
      <3>1. x \in Nat
        BY <1>0, <2>4, PlaceIs DEF Nest
      <3> DEFINE j == With(h[p].index, c, x)
      <3>2. j \in [DOMAIN h[p].index \cup {c} -> Nat] /\ DOMAIN h[p].index \cup {c} \in SUBSET Container
        <4>1. j = [y \in DOMAIN h[p].index \cup {c} |-> IF y = c THEN x ELSE h[p].index[y]]
          BY DEF With
        <4> HIDE DEF j
        <4> QED  BY <1>0, <2>3, <3>1, <4>1
      <3> HIDE DEF j
      <3>3. [updater |-> h[p].updater, index |-> j] \in Handle
        BY <2>2, <3>2, IsHandle
      <3> QED  BY <1>2, <2>4, <3>3, NoneIsNot DEF j
    <2>5. CASE k[p].kind # "array"
      <3>1. [updater |-> h[p].updater, index |-> h[p].index] \in Handle
        BY <2>2, <2>3, IsHandle
      <3> QED  BY <1>2, <2>5, <3>1, NoneIsNot
    <2> QED  BY <2>4, <2>5
  <1> QED  BY <1>2, <1>3, <1>4, <1>5, <1>6, <1>7

\* A value that the program may put into p: a container that is nowhere, or only
\* at a place in S of p.
Puttable(k, h, p, S, value) ==
    /\ value \in Value
    /\ value.tag = "value" =>
          /\ value.id # p /\ k[value.id] # None /\ h[value.id] # None
          /\ p \notin Under(k, value.id)
          /\ \A q \in Container : \A x \in DOMAIN Elems(k, q) :
                Place(k, q, x, value.id) => q = p /\ x \in S

\* A place where a value can be set.
IsPlaceFor(k, p, at) ==
    at \in DOMAIN k[p].elems \/ (k[p].kind = "map" /\ at \in Key)

\* What p holds after a value was set.
LEMMA WithValue ==
    ASSUME NEW k \in Programs, NEW p \in Container, k[p] # None, NEW at, IsPlaceFor(k, p, at),
           NEW value \in Value, NEW k2, Alters(k, k2, p, With(k[p].elems, at, value))
    PROVE  /\ k2[p] # None /\ k2[p].kind = k[p].kind
           /\ DOMAIN Elems(k2, p) = DOMAIN Elems(k, p) \cup {at}
           /\ Elems(k2, p)[at] = value
           /\ \A x \in DOMAIN Elems(k2, p) : x # at => x \in DOMAIN Elems(k, p)
                                                       /\ Elems(k2, p)[x] = Elems(k, p)[x]
           /\ \A d \in Container : d # p => k2[d] = k[d] /\ Elems(k2, d) = Elems(k, d)
           /\ k2 \in Programs
  <1> DEFINE s == k[p].elems
             t == With(s, at, value)
  <1>1. /\ k[p] \in Content /\ Elems(k, p) = s /\ k[p].kind \in Kind
    BY ElemsAre
  <1>2. k[p].type \in Types /\ (k[p].kind = "array" => s \in Seq(Value))
        /\ (k[p].kind = "map" => DOMAIN s \in SUBSET Key /\ s \in [DOMAIN s -> Value])
    <2>1. k[p] \in Holding(Value)
      BY <1>1 DEF Content
    <2> QED  BY <2>1, ContentIs
  <1>3. /\ DOMAIN t = DOMAIN s \cup {at} /\ t[at] = value
        /\ \A x \in DOMAIN t : x # at => x \in DOMAIN s /\ t[x] = s[x]
    BY DEF With
  <1>4. [kind |-> k[p].kind, type |-> k[p].type, elems |-> t] \in Content
    <2>1. CASE k[p].kind = "array"
      <3>1. at \in DOMAIN s /\ DOMAIN s = 1..Len(s) /\ Len(s) \in Nat
        BY <1>2, <2>1 DEF IsPlaceFor
      <3>2. t = [x \in 1..Len(s) |-> IF x = at THEN value ELSE s[x]]
        BY <3>1 DEF With
      <3>3. \A x \in 1..Len(s) : (IF x = at THEN value ELSE s[x]) \in Value
        BY <1>2, <2>1
      <3>4. t \in Seq(Value)
        <4> HIDE DEF t, s
        <4> QED  BY <3>1, <3>2, <3>3
      <3> QED  BY <1>2, <2>1, <3>4, IsContent DEF Content
    <2>2. CASE k[p].kind = "map"
      <3>1. DOMAIN s \cup {at} \in SUBSET Key
        BY <1>2, <2>2 DEF IsPlaceFor
      <3>2. t \in [DOMAIN s \cup {at} -> Value]
        BY <1>2, <2>2 DEF With
      <3> HIDE DEF t
      <3> QED  BY <1>2, <2>2, <3>1, <3>2, IsContent DEF Content
    <2> QED  BY <1>1, <2>1, <2>2 DEF Kind
  <1> HIDE DEF t
  <1>5. k2[p] = [kind |-> k[p].kind, type |-> k[p].type, elems |-> t] /\ k2 \in Programs
    BY DEF Alters, t
  <1>6. k2[p] # None /\ k2[p].kind = k[p].kind /\ Elems(k2, p) = t
    BY <1>4, <1>5, NoneIsNot DEF Elems
  <1>7. \A d \in Container : d # p => k2[d] = k[d] /\ Elems(k2, d) = Elems(k, d)
    BY DEF Alters, Elems
  <1> QED  BY <1>1, <1>3, <1>5, <1>6, <1>7

\* Containers are still nested after it.
LEMMA SetNests ==
    ASSUME NEW k, Nest(k), NEW h, NEW p \in Container, k[p] # None, NEW at, IsPlaceFor(k, p, at),
           NEW value, Puttable(k, h, p, {at}, value),
           NEW k2, Alters(k, k2, p, With(k[p].elems, at, value))
    PROVE  Nest(k2)
  <1> DEFINE V == IF value.tag = "value" THEN {value.id} ELSE {}
             D == DOMAIN Elems(k2, p)
             F == [y \in D |-> y]
  <1>1. k \in Programs /\ value \in Value
    BY DEF Nest, Puttable
  <1>2. /\ k2[p] # None /\ k2[p].kind = k[p].kind
        /\ DOMAIN Elems(k2, p) = DOMAIN Elems(k, p) \cup {at}
        /\ Elems(k2, p)[at] = value
        /\ \A x \in DOMAIN Elems(k2, p) : x # at => x \in DOMAIN Elems(k, p)
                                                    /\ Elems(k2, p)[x] = Elems(k, p)[x]
        /\ \A d \in Container : d # p => k2[d] = k[d] /\ Elems(k2, d) = Elems(k, d)
        /\ k2 \in Programs
    <2> HIDE DEF D, F, V
    <2> QED  BY <1>1, WithValue
  <1>3. V \in SUBSET Container /\ \A v, w \in V : v = w
    BY <1>1, ValueIs
  <1>4. \A y \in D : F[y] = y
    OBVIOUS
  <1> HIDE DEF F
  <1>5. ASSUME NEW c \in Container, NEW y \in D, Place(k2, p, y, c), c \notin V
        PROVE  Place(k, p, F[y], c)
    <2>1. y # at
      BY <1>2, <1>5 DEF Place
    <2> QED  BY <1>2, <1>4, <1>5, <2>1 DEF Place
  <1>6. ASSUME NEW v \in V
        PROVE  /\ k[v] # None /\ v # p /\ p \notin Under(k, v)
               /\ \A q \in Container : q # p => v \notin Kids(k, q)
               /\ \A y, z \in D : Place(k2, p, y, v) /\ Place(k2, p, z, v) => y = z
    <2>1. value.tag = "value" /\ v = value.id
      OBVIOUS
    <2>2. \A q \in Container : \A x \in DOMAIN Elems(k, q) : Place(k, q, x, v) => q = p /\ x = at
      BY <2>1 DEF Puttable
    <2>3. \A q \in Container : q # p => v \notin Kids(k, q)
      BY <2>2 DEF Kids
    <2>4. ASSUME NEW y \in D, Place(k2, p, y, v) PROVE y = at
      BY <1>2, <2>2, <2>4 DEF Place
    <2> QED  BY <2>1, <2>3, <2>4 DEF Puttable
  <1> HIDE DEF V, D
  <1>7. \A y, z \in D : F[y] = F[z] => y = z
    BY <1>4
  <1> QED  BY <1>2, <1>3, <1>5, <1>6, <1>7, NestChanged DEF D

\* The program sets a value in p.
Setting(st, p, at, value) ==
    /\ Whole(st) /\ p \in Container /\ st.slab[p] # None /\ st.handle[p] # None
    /\ IsPlaceFor(Contents(st), p, at) /\ Puttable(Contents(st), st.handle, p, {at}, value)

\* The container that is overwritten, unless it is the one that is set.
Overwritten(k, p, at, value) == {c \in Container : Place(k, p, at, c) /\ c # IdOf(value)}

\* The indexes of containers in G that are still in p.
Stale(k, p, G) == IF k[p].kind = "array" THEN {<<p, c>> : c \in G} ELSE {}

\* A call on p made r of st, but for those in G that it took out of p.
Left(st, r, p, vals, G) ==
    /\ Sound(r, None, G) /\ Handled(Contents(r), r.handle, {}, Stale(Contents(st), p, G))
    /\ r.handle[p] # None /\ Alters(Contents(st), Contents(r), p, vals)
    /\ \A c \in G : r.slab[c] = st.slab[c] /\ \A q \in Container : c \notin Kids(Contents(r), q)

\* What a call starts from.
LEMMA WholeIs ==
    ASSUME NEW st, Whole(st)
    PROVE  /\ st \in States /\ Nest(Contents(st)) /\ Contents(st) \in Programs
           /\ Handled(Contents(st), st.handle, {}, {}) /\ st.handle \in Handles
           /\ Sound(st, None, {})
           /\ \A c \in Container : Contents(st)[c] = None <=> st.slab[c] = None
  BY ContentsAre DEF Whole, Sound, Handled, Nest

\* A container does not contain what it is in.
LEMMA ClearOfKids ==
    ASSUME NEW k, Nest(k), NEW p \in Container, NEW c \in Container, NEW x, Place(k, p, x, c)
    PROVE  c # p /\ p \notin Under(k, c)
  <1>1. c \in Kids(k, p) /\ c \in Under(k, p)
    BY KidsAre, UnderIs
  <1>2. c # p
    BY <1>1 DEF Nest, NoCycle
  <1>3. p \in Under(k, c) => c \in Under(k, c)
    BY <1>1, UnderIs
  <1> QED  BY <1>2, <1>3 DEF Nest, NoCycle

\* What is overwritten is in no place then.
LEMMA OverwrittenIs ==
    ASSUME NEW st, NEW p, NEW at, NEW value, Setting(st, p, at, value),
           NEW k2, Alters(Contents(st), k2, p, With(Contents(st)[p].elems, at, value)),
           NEW c \in Overwritten(Contents(st), p, at, value)
    PROVE  /\ c # p /\ c \in Container /\ p \notin Under(Contents(st), c) /\ c # IdOf(value)
           /\ \A q \in Container : c \notin Kids(k2, q)
  <1> DEFINE k == Contents(st)
  <1>0. /\ p \in Container /\ k \in Programs /\ Nest(k) /\ k[p] # None /\ value \in Value
        /\ IsPlaceFor(k, p, at)
    BY WholeIs DEF Setting, Puttable
  <1>1. c \in Container /\ Place(k, p, at, c) /\ c # IdOf(value)
    BY DEF Overwritten
  <1>2. c # p /\ p \notin Under(k, c)
    BY <1>0, <1>1, ClearOfKids
  <1> HIDE DEF k
  <1>3. /\ k2[p] # None /\ k2[p].kind = k[p].kind
        /\ DOMAIN Elems(k2, p) = DOMAIN Elems(k, p) \cup {at}
        /\ Elems(k2, p)[at] = value
        /\ \A x \in DOMAIN Elems(k2, p) : x # at => x \in DOMAIN Elems(k, p)
                                                    /\ Elems(k2, p)[x] = Elems(k, p)[x]
        /\ \A d \in Container : d # p => k2[d] = k[d] /\ Elems(k2, d) = Elems(k, d)
        /\ k2 \in Programs
    BY <1>0, WithValue DEF k
  <1>4. ASSUME NEW q \in Container, NEW y \in DOMAIN Elems(k2, q), Place(k2, q, y, c) PROVE FALSE
    <2>1. CASE q = p /\ y = at
      BY <1>1, <1>3, <1>4, <2>1 DEF Place, IdOf
    <2>2. CASE ~ (q = p /\ y = at)
      <3>1. Place(k, q, y, c) /\ y \in DOMAIN Elems(k, q)
        BY <1>3, <1>4, <2>2 DEF Place
      <3>2. at \in DOMAIN Elems(k, p)
        BY <1>1 DEF Place
      <3> QED  BY <1>0, <1>1, <2>2, <3>1, <3>2 DEF Nest, OnePlace
    <2> QED  BY <2>1, <2>2
  <1>5. \A q \in Container : c \notin Kids(k2, q)
    BY <1>4 DEF Kids
  <1> QED  BY <1>1, <1>2, <1>5 DEF k

\* Handles after the slab of p was changed.
LEMMA SetHandled ==
    ASSUME NEW st, NEW p, NEW at, NEW value, Setting(st, p, at, value),
           NEW k2, Alters(Contents(st), k2, p, With(Contents(st)[p].elems, at, value)),
           NEW G, G = Overwritten(Contents(st), p, at, value),
           NEW L, L = (IF value.tag = "value" THEN {value.id} ELSE {})
    PROVE  Handled(k2, st.handle, L, Stale(Contents(st), p, G))
  <1> DEFINE k == Contents(st)
             h == st.handle
             I == Stale(k, p, G)
  <1>0. /\ p \in Container /\ k \in Programs /\ Nest(k) /\ k[p] # None /\ value \in Value
        /\ IsPlaceFor(k, p, at) /\ Handled(k, h, {}, {}) /\ h \in Handles /\ h[p] # None
    BY WholeIs DEF Setting, Puttable
  <1> HIDE DEF k, h
  <1>1. /\ k2[p] # None /\ k2[p].kind = k[p].kind
        /\ DOMAIN Elems(k2, p) = DOMAIN Elems(k, p) \cup {at}
        /\ Elems(k2, p)[at] = value
        /\ \A x \in DOMAIN Elems(k2, p) : x # at => x \in DOMAIN Elems(k, p)
                                                    /\ Elems(k2, p)[x] = Elems(k, p)[x]
        /\ \A d \in Container : d # p => k2[d] = k[d] /\ Elems(k2, d) = Elems(k, d)
        /\ k2 \in Programs
    BY <1>0, WithValue DEF k
  <1>2. ASSUME NEW c \in Container, NEW y \in DOMAIN Elems(k2, p), Place(k2, p, y, c), c \notin L
        PROVE  \E x \in DOMAIN Elems(k, p) :
                  /\ Place(k, p, x, c) /\ Elems(k2, p)[y].wrap = Elems(k, p)[x].wrap
                  /\ k[p].kind # "array" => x = y
                  /\ k[p].kind = "array" /\ c \in DOMAIN h[p].index /\ h[p].index[c] = x =>
                        c \in DOMAIN h[p].index /\ h[p].index[c] = y
    <2>1. y # at
      BY <1>1, <1>2 DEF Place
    <2>2. y \in DOMAIN Elems(k, p) /\ Elems(k2, p)[y] = Elems(k, p)[y]
      BY <1>1, <2>1
    <2> QED  BY <1>2, <2>2 DEF Place
  <1>3. ASSUME NEW c \in DOMAIN h[p].index, <<p, c>> \notin I
        PROVE  k[p].kind = "array" /\ Place(k2, p, h[p].index[c], c)
    <2>1. k[p].kind = "array" /\ Place(k, p, h[p].index[c], c)
      BY <1>0 DEF Handled, Indexed
    <2>2. c \in Container
      <3>1. h[p] \in Handle
        BY <1>0 DEF Handles
      <3> QED  BY <3>1, HandleIs
    <2>3. CASE h[p].index[c] = at
      <3>1. c \notin G
        BY <1>3, <2>1 DEF Stale
      <3>2. c = IdOf(value)
        BY <2>1, <2>2, <2>3, <3>1 DEF Overwritten, k
      <3>3. value.tag = "value" /\ value.id = c
        BY <2>2, <3>2, NoneIsNot DEF IdOf
      <3> QED  BY <1>1, <2>1, <2>3, <3>3 DEF Place
    <2>4. CASE h[p].index[c] # at
      BY <1>1, <2>1, <2>4 DEF Place
    <2> QED  BY <2>1, <2>3, <2>4
  <1>4. Relinks(k, h, k2, h, p, L, I)
    BY <1>0, <1>1, <1>2, <1>3 DEF Relinks
  <1> QED  BY <1>0, <1>4, RelinksAll DEF k, h

\* The slab can be set.
LEMMA SettingReady ==
    ASSUME NEW st, NEW p, NEW at, NEW value, Setting(st, p, at, value),
           NEW G, G = Overwritten(Contents(st), p, at, value)
    PROVE  SetReady(st, None, {}, p, at, value, G)
  <1> DEFINE k == Contents(st)
  <1>0. /\ p \in Container /\ k \in Programs /\ Nest(k) /\ k[p] # None /\ value \in Value
        /\ IsPlaceFor(k, p, at) /\ Sound(st, None, {}) /\ st \in States /\ st.slab[p] # None
        /\ Puttable(k, st.handle, p, {at}, value)
    BY WholeIs DEF Setting, Puttable
  <1>1. IdOf(value) # p /\ (value.tag = "value" => value.id \in Container /\ st.slab[value.id] # None)
    <2>1. CASE value.tag = "value"
      <3>1. value.id # p /\ value.id \in Container /\ k[value.id] # None
        BY <1>0, <2>1, ValueIs DEF Puttable
      <3>2. st.slab[value.id] # None
        BY <1>0, <3>1, ContentsAre
      <3> QED  BY <2>1, <3>1, <3>2 DEF IdOf
    <2>2. CASE value.tag # "value"
      BY <1>0, <2>2, NoneIsNot DEF IdOf
    <2> QED  BY <2>1, <2>2
  <1>2. /\ DOMAIN k[p].elems = DOMAIN st.slab[p].elems /\ k[p].kind = st.slab[p].kind
        /\ SlabElems(st, p) = st.slab[p].elems
    BY <1>0, HeldIs
  <1>3. at \in DOMAIN st.slab[p].elems \/ (st.slab[p].kind = "map" /\ at \in Key)
    BY <1>0, <1>2 DEF IsPlaceFor
  <1>4. ASSUME at \in DOMAIN st.slab[p].elems, IsChild(st.slab[p].elems[at])
        PROVE  st.slab[p].elems[at].id \in G \cup {IdOf(value)}
    <2> DEFINE e == st.slab[p].elems[at]
    <2>1. e.id \in Container
      <3>1. e \in Element
        BY <1>0, <1>2, <1>4, SlabElemsAre
      <3> QED  BY <1>4, <3>1, ElementIs
    <2>2. Place(k, p, at, e.id)
      BY <1>0, <1>2, <1>4, PlaceInSlab
    <2> QED  BY <2>1, <2>2 DEF Overwritten
  <1>5. \A j \in Programs : Alters(k, j, p, With(k[p].elems, at, value)) => Nest(j)
    <2> TAKE j \in Programs
    <2> HAVE Alters(k, j, p, With(k[p].elems, at, value))
    <2> HIDE DEF k
    <2> QED  BY <1>0, SetNests
  <1> QED  BY <1>0, <1>1, <1>3, <1>4, <1>5 DEF SetReady

\* Array.set and OrderedMap.set.
LEMMA SetCall ==
    ASSUME NEW st, NEW p, NEW at, NEW value, Setting(st, p, at, value),
           NEW G, G = Overwritten(Contents(st), p, at, value)
    PROVE  Left(st, set(st, p, at, value), p, With(Contents(st)[p].elems, at, value), G)
  <1> DEFINE k == Contents(st)
             vals == With(k[p].elems, at, value)
             L == IF value.tag = "value" THEN {value.id} ELSE {}
             Z == G \cup L
             I == Stale(k, p, G)
             r1 == SlabSet(st, p, at, value)
             r2 == notifyParentIfNeeded(r1, p)
             r3 == setCallbackWithChild(r2, p, at, value)
  <1>0. /\ p \in Container /\ k \in Programs /\ Nest(k) /\ k[p] # None /\ value \in Value
        /\ IsPlaceFor(k, p, at) /\ Sound(st, None, {}) /\ st \in States /\ st.handle[p] # None
        /\ Puttable(k, st.handle, p, {at}, value)
    BY WholeIs DEF Setting, Puttable
  <1>1. Altered(st, r1, IdOf(value), p, vals, G)
    BY SettingReady, SlabSetIs
  <1> HIDE DEF k, r1, vals
  <1>2. /\ Sound(r1, p, G) /\ r1.handle = st.handle /\ Alters(k, Contents(r1), p, vals)
        /\ \A d \in Container : d \notin {p, IdOf(value)} => r1.slab[d] = st.slab[d]
    BY <1>1 DEF Altered, k
  <1>3. G \in SUBSET Container /\ L \in SUBSET Container /\ Z \in SUBSET Container
    BY <1>0, ValueIs DEF Overwritten
  <1>4. \A c \in G : /\ c # p /\ p \notin Under(k, c) /\ c # IdOf(value)
                     /\ \A q \in Container : c \notin Kids(Contents(r1), q)
    BY <1>2, OverwrittenIs DEF k, vals
  <1>5. Handled(Contents(r1), r1.handle, L, I)
    BY <1>2, SetHandled DEF k, vals
  <1>6. Clear(Contents(r1), p, Z)
    <2>1. Clear(k, p, Z)
      BY <1>0, <1>4 DEF Clear, Puttable
    <2> QED  BY <1>0, <1>2, <1>3, <2>1, StaysClear
  <1>7. Telling(r1, p, Z, G, L, I)
    <2>1. \A q, d \in Container : <<q, d>> \in I => d \in Z
      BY DEF Stale
    <2> QED  BY <1>0, <1>2, <1>3, <1>5, <1>6, <2>1 DEF Telling
  <1> HIDE DEF L, Z, I
  <1>8. Told(r1, r2, Z, G, L, I)
    BY <1>7, Notify
  <1> HIDE DEF r2
  <1>9. /\ Sound(r2, None, G) /\ Handled(Contents(r2), r2.handle, L, I) /\ r2 \in States
        /\ Contents(r2) = Contents(r1) /\ r2.handle[p] # None
        /\ \A d \in Container : r2.handle[d] = None <=> st.handle[d] = None
        /\ \A z \in Z : r2.slab[z] = r1.slab[z]
    BY <1>0, <1>2, <1>8 DEF Told, Kept, Sound
  <1>10. /\ Sound(r3, None, G) /\ Contents(r3) = Contents(r1) /\ r3.slab = r2.slab
         /\ Handled(Contents(r3), r3.handle, {}, I) /\ r3.handle[p] # None
    <2>1. CASE value.tag = "value"
      <3>1. value.id \in Container /\ r2.handle[value.id] # None /\ L = {value.id}
        BY <1>0, <1>9, <2>1, ValueIs DEF Puttable, L
      <3>2. Place(Contents(r2), p, at, value.id) /\ value = Elems(Contents(r2), p)[at]
        <4>1. DOMAIN Elems(Contents(r1), p) = DOMAIN Elems(k, p) \cup {at} /\ Elems(Contents(r1), p)[at] = value
          <5>1. PICK k2 : k2 = Contents(r1)
            OBVIOUS
          <5>2. Alters(k, k2, p, With(k[p].elems, at, value))
            BY <1>2, <5>1 DEF vals
          <5>3. /\ k2[p] # None /\ k2[p].kind = k[p].kind
                /\ DOMAIN Elems(k2, p) = DOMAIN Elems(k, p) \cup {at}
                /\ Elems(k2, p)[at] = value
                /\ \A x \in DOMAIN Elems(k2, p) : x # at => x \in DOMAIN Elems(k, p)
                                                            /\ Elems(k2, p)[x] = Elems(k, p)[x]
                /\ \A d \in Container : d # p => k2[d] = k[d] /\ Elems(k2, d) = Elems(k, d)
                /\ k2 \in Programs
            BY <1>0, <5>2, WithValue
          <5> QED  BY <5>1, <5>3
        <4> QED  BY <1>9, <2>1, <4>1 DEF Place
      <3>3. Handled(Contents(r2), r2.handle, {value.id}, I)
        BY <1>9, <3>1
      <3>4. PICK c \in Container : /\ r2.handle[c] # None /\ Place(Contents(r2), p, at, c)
                                  /\ Handled(Contents(r2), r2.handle, {c}, I)
        BY <3>1, <3>2, <3>3
      <3>5. /\ Sound(r3, None, G) /\ Contents(r3) = Contents(r2) /\ r3.slab = r2.slab
            /\ Handled(Contents(r3), r3.handle, {}, I) /\ r3.handle[p] # None
        <4>1. p \in Container /\ Sound(r2, None, G) /\ r2.handle[p] # None
          BY <1>0, <1>9
        <4>2. value = Elems(Contents(r2), p)[at]
          BY <3>2
        <4>3. Linking(r2, G, I, p, c, at, value)
          BY <3>4, <4>1, <4>2 DEF Linking
        <4> QED  BY <4>3, LinkChild
      <3> QED  BY <1>9, <3>5
    <2>2. CASE value.tag # "value"
      <3>1. value.tag = "plain" /\ L = {}
        BY <1>0, <2>2, ValueIs DEF L
      <3>2. r3 = r2
        BY <3>1 DEF setCallbackWithChild
      <3> QED  BY <1>9, <3>1, <3>2
    <2> QED  BY <2>1, <2>2
  <1> HIDE DEF r3
  <1>11. set(st, p, at, value) = r3
    <2>1. ~ r1.failed /\ ~ r2.failed
      BY <1>2, <1>9, StateIs DEF Sound
    <2> QED  BY <2>1 DEF set, Then, r1, r2, r3
  <1>12. \A c \in G : r3.slab[c] = st.slab[c] /\ \A q \in Container : c \notin Kids(Contents(r3), q)
    BY <1>2, <1>3, <1>4, <1>9, <1>10 DEF Z
  <1> QED  BY <1>2, <1>10, <1>11, <1>12 DEF Left, I, k, vals

\* The element at a place of p is to be taken out of r, if it is in G.
Out(st, r, p, at, vals, G) ==
    LET e == st.slab[p].elems[at] IN
      /\ Whole(st) /\ p \in Container /\ st.slab[p] # None /\ at \in DOMAIN st.slab[p].elems
      /\ Left(st, r, p, vals, G)
      /\ G \subseteq (IF IsChild(e) THEN {e.id} ELSE {}) /\ (e.tag = "slab" => e.id \in G)

\* What is left to do then is for the index of p.
LEMMA OutIs ==
    ASSUME NEW st, NEW r, NEW p, NEW at, NEW vals, NEW G, Out(st, r, p, at, vals, G)
    PROVE  LET n == uninlineStorableIfNeeded(r, st.slab[p].elems[at])
           IN /\ Sound(n, None, {}) /\ Handled(Contents(n), n.handle, {}, Stale(Contents(st), p, G))
              /\ n.handle[p] # None /\ Alters(Contents(st), Contents(n), p, vals)
              /\ \A c \in G : c \in Container /\ c \notin Kids(Contents(n), p)
              /\ n \in States
  <1>1. PICK e : e = st.slab[p].elems[at]
    OBVIOUS
  <1>2. /\ st \in States /\ Nest(Contents(st)) /\ p \in Container /\ st.slab[p] # None
        /\ Sound(st, None, {}) /\ SlabElems(st, p) = st.slab[p].elems
        /\ at \in DOMAIN SlabElems(st, p) /\ e = SlabElems(st, p)[at]
    BY <1>1, WholeIs, SlabElemsAre DEF Out
  <1>3. /\ Left(st, r, p, vals, G)
        /\ G \subseteq (IF IsChild(e) THEN {e.id} ELSE {}) /\ (e.tag = "slab" => e.id \in G)
    BY <1>1 DEF Out
  <1>4. e \in Element
    BY <1>2, SlabElemsAre
  <1>5. IsChild(e) => e.id \in Container /\ st.slab[e.id] # None /\ (e.tag = "slab" <=> st.slab[e.id].inlined)
    <2> SUFFICES ASSUME IsChild(e)
                 PROVE  e.id \in Container /\ st.slab[e.id] # None
                        /\ (e.tag = "slab" <=> st.slab[e.id].inlined)
      OBVIOUS
    <2>1. e.id \in Container
      BY <1>4, ElementIs
    <2>2. st.slab[e.id] # None
      BY <1>2, BytesAre DEF Nest
    <2>3. e.tag = "slab" <=> st.slab[e.id].inlined
      BY <1>2 DEF Sound, TagsFit
    <2> QED  BY <2>1, <2>2, <2>3
  <1>6. Leaving(r, e, G)
    <2>1. /\ Sound(r, None, G)
          /\ \A c \in G : r.slab[c] = st.slab[c] /\ \A q \in Container : c \notin Kids(Contents(r), q)
      BY <1>3 DEF Left
    <2>2. IsChild(e) /\ e.id \in G =>
             r.slab[e.id] # None /\ (e.tag = "slab" <=> r.slab[e.id].inlined)
      BY <1>5, <2>1
    <2> QED  BY <1>3, <1>4, <2>1, <2>2 DEF Leaving
  <1>7. PICK n : /\ n = uninlineStorableIfNeeded(r, e) /\ Sound(n, None, {})
                 /\ n.handle = r.handle /\ Contents(n) = Contents(r)
    BY <1>6, Leaves
  <1>8. /\ Sound(n, None, {}) /\ Handled(Contents(n), n.handle, {}, Stale(Contents(st), p, G))
        /\ n.handle[p] # None /\ Alters(Contents(st), Contents(n), p, vals)
        /\ \A c \in G : c \notin Kids(Contents(n), p)
    BY <1>2, <1>3, <1>7 DEF Left
  <1>9. G \subseteq Container /\ n \in States
    BY <1>3, <1>5, <1>7 DEF Sound
  <1> QED  BY <1>1, <1>7, <1>8, <1>9

\* A map has no index.
LEMMA OutOfMap ==
    ASSUME NEW st, NEW r, NEW p, NEW at, NEW vals, NEW G, Out(st, r, p, at, vals, G),
           st.slab[p].kind = "map"
    PROVE  LET n == uninlineStorableIfNeeded(r, st.slab[p].elems[at])
           IN Whole(n) /\ Alters(Contents(st), Contents(n), p, vals)
  <1>1. Contents(st)[p].kind = "map"
    BY WholeIs, HeldIs DEF Out
  <1>2. Stale(Contents(st), p, G) = {}
    BY <1>1 DEF Stale
  <1> QED  BY <1>2, OutIs DEF Whole

\* The index of c is deleted.
Dropped(st, p, c, drop) == Then(st, LAMBDA x : IF drop THEN deleteIndex(x, p, c) ELSE x)

\* An array forgets the index of what is taken out.
LEMMA OutOfArray ==
    ASSUME NEW st, NEW r, NEW p, NEW at, NEW vals, NEW G, Out(st, r, p, at, vals, G),
           st.slab[p].kind = "array", NEW drop \in BOOLEAN,
           drop => G = {st.slab[p].elems[at].id}, ~ drop => G = {}
    PROVE  LET n == Dropped(uninlineStorableIfNeeded(r, st.slab[p].elems[at]), p,
                            st.slab[p].elems[at].id, drop)
           IN Whole(n) /\ Alters(Contents(st), Contents(n), p, vals)
  <1>1. Contents(st)[p].kind = "array" /\ p \in Container
    BY WholeIs, HeldIs DEF Out
  <1>2. PICK c : c = st.slab[p].elems[at].id
    OBVIOUS
  <1>3. PICK n : /\ n = uninlineStorableIfNeeded(r, st.slab[p].elems[at])
                 /\ Sound(n, None, {}) /\ Handled(Contents(n), n.handle, {}, Stale(Contents(st), p, G))
                 /\ n.handle[p] # None /\ Alters(Contents(st), Contents(n), p, vals)
                 /\ \A d \in G : d \in Container /\ d \notin Kids(Contents(n), p)
                 /\ n \in States
    BY OutIs
  <1>4. ~ n.failed
    BY <1>3, StateIs
  <1>5. CASE drop
    <2>1. G = {c} /\ Stale(Contents(st), p, G) = {<<p, c>>}
      BY <1>1, <1>2, <1>5 DEF Stale
    <2>2. c \in Container /\ c \notin Kids(Contents(n), p) /\ Handled(Contents(n), n.handle, {}, {<<p, c>>})
      BY <1>3, <2>1
    <2>3. PICK m : /\ m = deleteIndex(n, p, c) /\ Sound(m, None, {}) /\ Contents(m) = Contents(n)
                   /\ Handled(Contents(m), m.handle, {}, {})
      BY <1>1, <1>3, <2>2, DeleteIndex
    <2>4. Whole(m) /\ Alters(Contents(st), Contents(m), p, vals)
      BY <1>3, <2>3 DEF Whole
    <2> QED  BY <1>2, <1>3, <1>4, <1>5, <2>3, <2>4 DEF Then, Dropped
  <1>6. CASE ~ drop
    <2>1. Stale(Contents(st), p, G) = {}
      BY <1>6 DEF Stale
    <2>2. Whole(n)
      BY <1>3, <2>1 DEF Whole
    <2> QED  BY <1>3, <1>4, <1>6, <2>2 DEF Then, Dropped
  <1> QED  BY <1>5, <1>6

\* What Overwritten is, in slabs.
LEMMA OverwrittenSlab ==
    ASSUME NEW st, NEW p, NEW at, NEW value, Setting(st, p, at, value),
           at \in DOMAIN st.slab[p].elems,
           value.tag = "value" /\ Place(Contents(st), p, at, value.id) => ~ st.slab[value.id].inlined,
           NEW G, G = Overwritten(Contents(st), p, at, value), NEW e, e = st.slab[p].elems[at]
    PROVE  /\ e \in Element
           /\ G = IF IsChild(e) /\ (value.tag = "plain" \/ value.id # e.id) THEN {e.id} ELSE {}
           /\ e.tag = "slab" => e.id \in G
  <1>1. /\ st \in States /\ p \in Container /\ st.slab[p] # None /\ value \in Value
        /\ SlabElems(st, p) = st.slab[p].elems /\ TagsFit(st)
    BY WholeIs, SlabElemsAre DEF Setting, Puttable, Sound
  <1>2. e \in Element
    BY <1>1, SlabElemsAre
  <1>3. \A c : Place(Contents(st), p, at, c) <=> IsChild(e) /\ e.id = c
    BY <1>1, PlaceInSlab
  <1>4. IsChild(e) => e.id \in Container
    BY <1>2, ElementIs
  <1>5. ASSUME NEW c \in Container
        PROVE  c # IdOf(value) <=> (value.tag = "plain" \/ value.id # c)
    <2>1. value.tag = "value" \/ value.tag = "plain"
      BY <1>1, ValueIs
    <2> QED  BY <2>1, NoneIsNot DEF IdOf
  <1>6. G = IF IsChild(e) /\ (value.tag = "plain" \/ value.id # e.id) THEN {e.id} ELSE {}
    BY <1>3, <1>4, <1>5 DEF Overwritten
  <1>7. ASSUME e.tag = "slab" PROVE e.id \in G
    <2>1. IsChild(e) /\ st.slab[e.id].inlined
      <3>1. IsChild(e)
        BY <1>7 DEF IsChild
      <3> QED  BY <1>1, <1>7, <3>1 DEF TagsFit
    <2>2. value.tag = "value" \/ value.tag = "plain"
      BY <1>1, ValueIs
    <2>3. value.tag = "value" => value.id # e.id
      BY <1>3, <2>1
    <2> QED  BY <1>6, <2>1, <2>2, <2>3
  <1> QED  BY <1>2, <1>6, <1>7

\* A child may be set again in its place if it is not inlined.
Settles(st, p, at, value) ==
    /\ Setting(st, p, at, value)
    /\ value.tag = "value" /\ Place(Contents(st), p, at, value.id) => ~ st.slab[value.id].inlined

\* Array.Set.
LEMMA ArraySetCall ==
    ASSUME NEW st, NEW p, NEW at, NEW value, Settles(st, p, at, value), st.slab[p].kind = "array"
    PROVE  LET r == ArraySet(st, p, at, value)
           IN Whole(r) /\ Alters(Contents(st), Contents(r), p, With(Contents(st)[p].elems, at, value))
  <1>1. PICK G, e, r, vals : /\ G = Overwritten(Contents(st), p, at, value)
                             /\ e = st.slab[p].elems[at] /\ r = set(st, p, at, value)
                             /\ vals = With(Contents(st)[p].elems, at, value)
    OBVIOUS
  <1> DEFINE drop == e.tag # "plain" /\ (value.tag = "plain" \/ value.id # e.id)
  <1>2. Setting(st, p, at, value) /\ Left(st, r, p, vals, G)
    BY <1>1, SetCall DEF Settles
  <1>3. Whole(st) /\ p \in Container /\ st.slab[p] # None /\ at \in DOMAIN st.slab[p].elems
    <2>1. /\ Whole(st) /\ p \in Container /\ st.slab[p] # None /\ st \in States
          /\ IsPlaceFor(Contents(st), p, at)
      BY <1>2, WholeIs DEF Setting
    <2>2. /\ DOMAIN Contents(st)[p].elems = DOMAIN st.slab[p].elems
          /\ Contents(st)[p].kind = st.slab[p].kind
      BY <2>1, HeldIs
    <2> QED  BY <2>1, <2>2 DEF IsPlaceFor
  <1>4. /\ e \in Element
        /\ G = (IF IsChild(e) /\ (value.tag = "plain" \/ value.id # e.id) THEN {e.id} ELSE {})
        /\ e.tag = "slab" => e.id \in G
    BY <1>1, <1>2, <1>3, OverwrittenSlab DEF Settles
  <1>5. drop <=> IsChild(e) /\ (value.tag = "plain" \/ value.id # e.id)
    BY DEF IsChild
  <1>6. drop \in BOOLEAN /\ (drop => G = {e.id}) /\ (~ drop => G = {})
    BY <1>4, <1>5
  <1>7. Out(st, r, p, at, vals, G)
    <2>1. G \subseteq (IF IsChild(e) THEN {e.id} ELSE {})
      BY <1>4
    <2> QED  BY <1>1, <1>2, <1>3, <1>4, <2>1 DEF Out
  <1>8. PICK b \in BOOLEAN : b <=> drop
    OBVIOUS
  <1>9. ArraySet(st, p, at, value) = Dropped(uninlineStorableIfNeeded(r, e), p, e.id, b)
    BY <1>1, <1>8 DEF ArraySet, Dropped, Then
  <1> HIDE DEF drop
  <1>10. (b => G = {e.id}) /\ (~ b => G = {})
    BY <1>6, <1>8
  <1> QED  BY <1>1, <1>7, <1>9, <1>10, OutOfArray

\* OrderedMap.Set.
LEMMA MapSetCall ==
    ASSUME NEW st, NEW p, NEW at, NEW value, Settles(st, p, at, value), st.slab[p].kind = "map"
    PROVE  LET r == MapSet(st, p, at, value)
           IN Whole(r) /\ Alters(Contents(st), Contents(r), p, With(Contents(st)[p].elems, at, value))
  <1>1. PICK G, e, r, vals : /\ G = Overwritten(Contents(st), p, at, value)
                             /\ e = st.slab[p].elems[at] /\ r = set(st, p, at, value)
                             /\ vals = With(Contents(st)[p].elems, at, value)
    OBVIOUS
  <1>2. Setting(st, p, at, value) /\ Left(st, r, p, vals, G)
    BY <1>1, SetCall DEF Settles
  <1>3. Whole(st) /\ p \in Container /\ st.slab[p] # None /\ st \in States
    BY <1>2, WholeIs DEF Setting
  <1>4. CASE at \in DOMAIN st.slab[p].elems
    <2>1. /\ e \in Element
          /\ G = (IF IsChild(e) /\ (value.tag = "plain" \/ value.id # e.id) THEN {e.id} ELSE {})
          /\ e.tag = "slab" => e.id \in G
      BY <1>1, <1>2, <1>4, OverwrittenSlab DEF Settles
    <2>2. Out(st, r, p, at, vals, G)
      <3>1. G \subseteq (IF IsChild(e) THEN {e.id} ELSE {})
        BY <2>1
      <3> QED  BY <1>1, <1>2, <1>3, <1>4, <2>1, <3>1 DEF Out
    <2>3. MapSet(st, p, at, value) = uninlineStorableIfNeeded(r, e)
      BY <1>1, <1>4 DEF MapSet
    <2> QED  BY <1>1, <2>2, <2>3, OutOfMap
  <1>5. CASE at \notin DOMAIN st.slab[p].elems
    <2>1. MapSet(st, p, at, value) = r
      BY <1>1, <1>5 DEF MapSet
    <2>2. G = {}
      <3>1. \A c : ~ Place(Contents(st), p, at, c)
        BY <1>3, <1>5, PlaceInSlab, SlabElemsAre
      <3> QED  BY <1>1, <3>1 DEF Overwritten
    <2>3. Stale(Contents(st), p, G) = {}
      BY <2>2 DEF Stale
    <2> QED  BY <1>1, <1>2, <2>1, <2>2, <2>3 DEF Left, Whole
  <1> QED  BY <1>4, <1>5

-----------------------------------------------------------------------------
(* Insert.                                                                 *)

\* The program inserts a value in the array p.
Inserting(st, p, at, value) ==
    /\ Whole(st) /\ p \in Container /\ st.slab[p] # None /\ st.handle[p] # None
    /\ st.slab[p].kind = "array" /\ at \in 1..Len(st.slab[p].elems) + 1
    /\ Puttable(Contents(st), st.handle, p, {}, value)

\* Two arrays of values in p.
Arrays(k, k2, p) ==
    /\ k \in Programs /\ k2 \in Programs /\ p \in Container /\ k[p] # None /\ k2[p] # None
    /\ k[p].kind = "array" /\ k2[p].kind = "array"
    /\ Elems(k, p) \in Seq(Value) /\ Elems(k2, p) \in Seq(Value)
    /\ \A d \in Container : d # p => k2[d] = k[d] /\ Elems(k2, d) = Elems(k, d)

\* What p holds after a value was inserted.
LEMMA InsertedValue ==
    ASSUME NEW k \in Programs, NEW p \in Container, k[p] # None, k[p].kind = "array",
           NEW at \in 1..Len(k[p].elems) + 1, NEW value \in Value,
           NEW k2, Alters(k, k2, p, InsertAt(k[p].elems, at, value))
    PROVE  Arrays(k, k2, p) /\ Inserted(Elems(k2, p), Elems(k, p), at, value)
  <1> DEFINE s == k[p].elems
             t == InsertAt(s, at, value)
  <1>1. k[p] \in Content /\ Elems(k, p) = s
    BY ElemsAre
  <1>2. k[p].type \in Types /\ s \in Seq(Value)
    <2>1. k[p] \in Holding(Value)
      BY <1>1 DEF Content
    <2> QED  BY <2>1, ContentIs
  <1>3. t \in Seq(Value) /\ Inserted(t, s, at, value)
    BY <1>2, InsertedAt
  <1>4. k2[p] = [kind |-> k[p].kind, type |-> k[p].type, elems |-> t] /\ k2 \in Programs
    BY DEF Alters
  <1> HIDE DEF t
  <1>5. [kind |-> k[p].kind, type |-> k[p].type, elems |-> t] \in Content
    BY <1>2, <1>3, IsContent DEF Content
  <1>6. k2[p] # None /\ k2[p].kind = k[p].kind /\ Elems(k2, p) = t
    BY <1>4, <1>5, NoneIsNot DEF Elems
  <1>7. \A d \in Container : d # p => k2[d] = k[d] /\ Elems(k2, d) = Elems(k, d)
    BY DEF Alters, Elems
  <1> QED  BY <1>1, <1>2, <1>3, <1>4, <1>6, <1>7 DEF Arrays

\* Where an element was.
LEMMA WasAt ==
    ASSUME NEW s \in Seq(Value), NEW u \in Seq(Value), NEW at \in 1..Len(s) + 1, NEW value,
           Inserted(u, s, at, value)
    PROVE  /\ DOMAIN s = 1..Len(s) /\ DOMAIN u = 1..Len(s) + 1 /\ Len(s) \in Nat /\ Len(u) = Len(s) + 1
           /\ u[at] = value /\ at \in DOMAIN u
           /\ \A y \in DOMAIN u : y < at => y \in DOMAIN s /\ u[y] = s[y]
           /\ \A y \in DOMAIN u : y > at => y - 1 \in DOMAIN s /\ u[y] = s[y-1]
           /\ \A x \in DOMAIN s : x < at => x \in DOMAIN u /\ u[x] = s[x]
           /\ \A x \in DOMAIN s : x >= at => x + 1 \in DOMAIN u /\ u[x + 1] = s[x]
  <1>1. DOMAIN s = 1..Len(s) /\ Len(s) \in Nat /\ DOMAIN u = 1..Len(u) /\ Len(u) = Len(s) + 1
    BY DEF Inserted
  <1>2. \A i \in 1..Len(s) + 1 : u[i] = IF i < at THEN s[i] ELSE IF i = at THEN value ELSE s[i-1]
    BY DEF Inserted
  <1>3. ASSUME NEW x \in 1..Len(s), x >= at PROVE u[x + 1] = s[x]
    <2>1. x + 1 \in 1..Len(s) + 1 /\ ~ (x + 1 < at) /\ x + 1 # at /\ (x + 1) - 1 = x
      BY <1>1, <1>3
    <2> QED  BY <1>2, <2>1
  <1>4. ASSUME NEW x \in 1..Len(s), x < at PROVE u[x] = s[x] /\ x \in 1..Len(s) + 1
    BY <1>1, <1>2, <1>4
  <1>5. ASSUME NEW y \in 1..Len(s) + 1, y < at PROVE u[y] = s[y] /\ y \in 1..Len(s)
    BY <1>1, <1>2, <1>5
  <1>6. ASSUME NEW y \in 1..Len(s) + 1, y > at PROVE u[y] = s[y-1] /\ y - 1 \in 1..Len(s)
    BY <1>1, <1>2, <1>6
  <1>7. u[at] = value
    BY <1>1, <1>2
  <1> QED  BY <1>1, <1>3, <1>4, <1>5, <1>6, <1>7

\* Containers are still nested after an insertion.
LEMMA InsertNests ==
    ASSUME NEW k, Nest(k), NEW h, NEW p \in Container, k[p] # None, k[p].kind = "array",
           NEW at \in 1..Len(k[p].elems) + 1, NEW value, Puttable(k, h, p, {}, value),
           NEW k2, Alters(k, k2, p, InsertAt(k[p].elems, at, value))
    PROVE  Nest(k2)
  <1> DEFINE V == IF value.tag = "value" THEN {value.id} ELSE {}
             D == DOMAIN Elems(k2, p)
             F == [y \in D |-> IF y < at THEN y ELSE IF y = at THEN 0 ELSE y - 1]
  <1>1. k \in Programs /\ value \in Value
    BY DEF Nest, Puttable
  <1>2. Arrays(k, k2, p) /\ Inserted(Elems(k2, p), Elems(k, p), at, value)
    BY <1>1, InsertedValue
  <1>3. PICK s \in Seq(Value), u \in Seq(Value) : s = Elems(k, p) /\ u = Elems(k2, p)
    BY <1>2 DEF Arrays
  <1>4. at \in 1..Len(s) + 1
    BY <1>3 DEF Elems
  <1>5. /\ DOMAIN s = 1..Len(s) /\ DOMAIN u = 1..Len(s) + 1 /\ Len(s) \in Nat /\ Len(u) = Len(s) + 1
        /\ u[at] = value /\ at \in DOMAIN u
        /\ \A y \in DOMAIN u : y < at => y \in DOMAIN s /\ u[y] = s[y]
        /\ \A y \in DOMAIN u : y > at => y - 1 \in DOMAIN s /\ u[y] = s[y-1]
    BY <1>2, <1>3, <1>4, WasAt
  <1>6. V \in SUBSET Container /\ \A v, w \in V : v = w
    BY <1>1, ValueIs
  <1>7. \A y \in D : F[y] = IF y < at THEN y ELSE IF y = at THEN 0 ELSE y - 1
    OBVIOUS
  <1> HIDE DEF F
  <1>8. \A y, z \in D : F[y] = F[z] => y = z
    BY <1>3, <1>5, <1>7
  <1>9. ASSUME NEW c \in Container, NEW y \in D, Place(k2, p, y, c), c \notin V
        PROVE  Place(k, p, F[y], c)
    <2>1. y # at /\ y \in DOMAIN u
      BY <1>3, <1>5, <1>9 DEF Place
    <2>2. F[y] \in DOMAIN s /\ s[F[y]] = u[y]
      BY <1>3, <1>5, <1>7, <2>1
    <2> QED  BY <1>3, <1>9, <2>2 DEF Place
  <1>10. ASSUME NEW v \in V
        PROVE  /\ k[v] # None /\ v # p /\ p \notin Under(k, v)
               /\ \A q \in Container : q # p => v \notin Kids(k, q)
               /\ \A y, z \in D : Place(k2, p, y, v) /\ Place(k2, p, z, v) => y = z
    <2>1. value.tag = "value" /\ v = value.id
      OBVIOUS
    <2>2. \A q \in Container : \A x \in DOMAIN Elems(k, q) : ~ Place(k, q, x, v)
      BY <2>1 DEF Puttable
    <2>3. \A q \in Container : q # p => v \notin Kids(k, q)
      BY <2>2 DEF Kids
    <2>4. ASSUME NEW y \in D, Place(k2, p, y, v) PROVE y = at
      <3>1. ASSUME y # at PROVE FALSE
        <4>1. F[y] \in DOMAIN s /\ s[F[y]] = u[y]
          BY <1>3, <1>5, <1>7, <3>1
        <4>2. Place(k, p, F[y], v) /\ F[y] \in DOMAIN Elems(k, p)
          BY <1>3, <2>4, <4>1 DEF Place
        <4> QED  BY <2>2, <4>2
      <3> QED  BY <3>1
    <2> QED  BY <2>1, <2>3, <2>4 DEF Puttable
  <1> HIDE DEF V, D
  <1>11. k2 \in Programs /\ k2[p] # None /\ \A d \in Container : d # p => k2[d] = k[d]
    BY <1>2 DEF Arrays
  <1> QED  BY <1>6, <1>8, <1>9, <1>10, <1>11, NestChanged DEF D

\* The index of p after an insertion.
MovedUp(index, at) == [c \in DOMAIN index |-> IF index[c] >= at THEN index[c] + 1 ELSE index[c]]

\* Handles with another index of p.
NewIndex(h, h2, p, index) ==
    /\ h2 \in Handles /\ \A d \in Container : d # p => h2[d] = h[d]
    /\ h2[p] = [updater |-> h[p].updater, index |-> index] /\ h2[p] # None

\* It has the new places.
LEMMA InsertHandled ==
    ASSUME NEW st, NEW p, NEW at, NEW value, Inserting(st, p, at, value),
           NEW k2, Alters(Contents(st), k2, p, InsertAt(Contents(st)[p].elems, at, value)),
           NEW h2, NewIndex(st.handle, h2, p, MovedUp(st.handle[p].index, at)),
           NEW L, L = (IF value.tag = "value" THEN {value.id} ELSE {})
    PROVE  /\ Handled(k2, h2, L, {})
           /\ at \in DOMAIN Elems(k2, p) /\ Elems(k2, p)[at] = value
  <1> DEFINE k == Contents(st)
             h == st.handle
             old == h[p].index
  <1>0. /\ p \in Container /\ k \in Programs /\ Nest(k) /\ k[p] # None /\ value \in Value
        /\ Handled(k, h, {}, {}) /\ h \in Handles /\ h[p] # None
        /\ k[p].kind = "array" /\ at \in 1..Len(k[p].elems) + 1
    <2>1. /\ st \in States /\ p \in Container /\ st.slab[p] # None /\ st.slab[p].kind = "array"
          /\ at \in 1..Len(st.slab[p].elems) + 1
      BY WholeIs DEF Inserting
    <2>2. k[p].kind = "array" /\ at \in 1..Len(k[p].elems) + 1
      BY <2>1, HeldIs, ValuesAre
    <2> QED  BY <2>1, <2>2, WholeIs DEF Inserting, Puttable
  <1> HIDE DEF k, h
  <1>2. Arrays(k, k2, p) /\ Inserted(Elems(k2, p), Elems(k, p), at, value)
    BY <1>0, InsertedValue DEF k
  <1>3. PICK s \in Seq(Value), u \in Seq(Value) : s = Elems(k, p) /\ u = Elems(k2, p)
    BY <1>2 DEF Arrays
  <1>4. at \in 1..Len(s) + 1 /\ s = k[p].elems /\ u = k2[p].elems
    BY <1>0, <1>2, <1>3 DEF Elems, Arrays
  <1>5. /\ DOMAIN s = 1..Len(s) /\ DOMAIN u = 1..Len(s) + 1 /\ Len(s) \in Nat /\ Len(u) = Len(s) + 1
        /\ u[at] = value /\ at \in DOMAIN u
        /\ \A y \in DOMAIN u : y < at => y \in DOMAIN s /\ u[y] = s[y]
        /\ \A y \in DOMAIN u : y > at => y - 1 \in DOMAIN s /\ u[y] = s[y-1]
        /\ \A x \in DOMAIN s : x < at => x \in DOMAIN u /\ u[x] = s[x]
        /\ \A x \in DOMAIN s : x >= at => x + 1 \in DOMAIN u /\ u[x + 1] = s[x]
    <2>1. Inserted(u, s, at, value)
      BY <1>2, <1>3
    <2>2. at \in 1..Len(s) + 1
      BY <1>4
    <2>3. PICK n \in 1..Len(s) + 1 : n = at
      BY <2>2
    <2>4. Inserted(u, s, n, value)
      BY <2>1, <2>3
    <2> HIDE DEF old
    <2>5. /\ DOMAIN s = 1..Len(s) /\ DOMAIN u = 1..Len(s) + 1 /\ Len(s) \in Nat /\ Len(u) = Len(s) + 1
          /\ u[n] = value /\ n \in DOMAIN u
          /\ \A y \in DOMAIN u : y < n => y \in DOMAIN s /\ u[y] = s[y]
          /\ \A y \in DOMAIN u : y > n => y - 1 \in DOMAIN s /\ u[y] = s[y-1]
          /\ \A x \in DOMAIN s : x < n => x \in DOMAIN u /\ u[x] = s[x]
          /\ \A x \in DOMAIN s : x >= n => x + 1 \in DOMAIN u /\ u[x + 1] = s[x]
      BY <2>4, WasAt
    <2> QED  BY <2>3, <2>5
  <1>6. /\ h2[p].updater = h[p].updater /\ h2[p].index = MovedUp(old, at)
        /\ DOMAIN h2[p].index = DOMAIN old
        /\ \A c \in DOMAIN old : h2[p].index[c] = IF old[c] >= at THEN old[c] + 1 ELSE old[c]
    <2>1. h2[p].updater = h[p].updater /\ h2[p].index = MovedUp(old, at)
      BY DEF h, NewIndex
    <2> HIDE DEF old
    <2> QED  BY <2>1 DEF MovedUp
  <1>7. ASSUME NEW c \in DOMAIN old PROVE old[c] \in DOMAIN s /\ Place(k, p, old[c], c)
    <2>1. Place(k, p, old[c], c)
      BY <1>0 DEF Handled, Indexed
    <2> QED  BY <1>3, <2>1 DEF Place
  <1>8. ASSUME NEW c \in Container, NEW y \in DOMAIN Elems(k2, p), Place(k2, p, y, c), c \notin L
        PROVE  \E x \in DOMAIN Elems(k, p) :
                  /\ Place(k, p, x, c) /\ Elems(k2, p)[y].wrap = Elems(k, p)[x].wrap
                  /\ k[p].kind # "array" => x = y
                  /\ k[p].kind = "array" /\ c \in DOMAIN h[p].index /\ h[p].index[c] = x =>
                        c \in DOMAIN h2[p].index /\ h2[p].index[c] = y
    <2>1. y # at
      BY <1>3, <1>5, <1>8 DEF Place
    <2>2. PICK x \in DOMAIN s : u[y] = s[x] /\ y = IF x >= at THEN x + 1 ELSE x
      <3>1. CASE y < at
        BY <1>3, <1>5, <3>1
      <3>2. CASE y > at
        <4>1. y - 1 \in DOMAIN s /\ u[y] = s[y-1] /\ y - 1 >= at /\ y = (y - 1) + 1
          BY <1>3, <1>5, <3>2
        <4> QED  BY <4>1
      <3> QED  BY <1>3, <1>5, <2>1, <3>1, <3>2
    <2>3. Place(k, p, x, c)
      BY <1>3, <1>8, <2>2 DEF Place
    <2> QED  BY <1>0, <1>3, <1>6, <2>2, <2>3
  <1>9. ASSUME NEW c \in DOMAIN h2[p].index
        PROVE  k[p].kind = "array" /\ Place(k2, p, h2[p].index[c], c)
    <2>1. PICK x : x = old[c]
      OBVIOUS
    <2>2. x \in DOMAIN s /\ Place(k, p, x, c)
      BY <1>6, <1>7, <2>1
    <2>3. PICK y \in DOMAIN u : u[y] = s[x] /\ y = IF x >= at THEN x + 1 ELSE x
      BY <1>5, <2>2
    <2>4. h2[p].index[c] = y
      BY <1>6, <2>1, <2>3
    <2>5. Place(k2, p, y, c)
      BY <1>3, <2>2, <2>3 DEF Place
    <2> QED  BY <1>0, <2>4, <2>5
  <1>10. Relinks(k, h, k2, h2, p, L, {})
    <2>1. \A d \in Container : d # p => k2[d] = k[d] /\ h2[d] = h[d]
      BY <1>2 DEF Arrays, h, NewIndex
    <2>2. k2 \in Programs /\ k2[p] # None /\ k2[p].kind = k[p].kind
      BY <1>0, <1>2 DEF Arrays
    <2>3. h2 \in Handles /\ h2[p] # None
      BY DEF NewIndex
    <2> QED  BY <1>0, <1>6, <1>8, <1>9, <2>1, <2>2, <2>3 DEF Relinks
  <1>11. Handled(k2, h2, L, {})
    BY <1>0, <1>10, RelinksAll
  <1> QED  BY <1>3, <1>5, <1>11 DEF k, h

\* incrementIndexFrom returns no error.
LEMMA IncrementIs ==
    ASSUME NEW st \in States, NEW p \in Container, st.handle[p] # None, NEW at \in Nat,
           Len(st.slab[p].elems) \in Nat,
           \A c \in DOMAIN st.handle[p].index : /\ st.handle[p].index[c] \in Nat
                                                /\ st.handle[p].index[c] < Len(st.slab[p].elems)
    PROVE  LET r == incrementIndexFrom(st, p, at)
           IN /\ r \in States /\ r.slab = st.slab /\ r.stored = st.stored
              /\ \A d \in Container : d # p => r.handle[d] = st.handle[d]
              /\ r.handle[p] = [updater |-> st.handle[p].updater,
                                index |-> MovedUp(st.handle[p].index, at)]
              /\ r.handle[p] # None
  <1> DEFINE old == st.handle[p].index
             index == MovedUp(old, at)
  <1>1. DOMAIN old \in SUBSET Container /\ old \in [DOMAIN old -> Nat]
    BY StateIs, HandleIs
  <1>2. index \in [DOMAIN old -> Nat]
    <2> HIDE DEF old
    <2> QED  BY <1>1 DEF MovedUp
  <1>3. incrementIndexFrom(st, p, at) = Reindexed(st, p, index)
    <2>1. ~ \E c \in {d \in DOMAIN old : old[d] >= at} : old[c] >= Len(st.slab[p].elems)
      OBVIOUS
    <2>2. [c \in DOMAIN old |-> IF c \in {d \in DOMAIN old : old[d] >= at} THEN old[c] + 1 ELSE old[c]]
             = index
      <3> HIDE DEF old
      <3> QED  BY DEF MovedUp
    <2> QED  BY <2>1, <2>2 DEF incrementIndexFrom, Reindexed
  <1> HIDE DEF index
  <1>4. PICK r : r = Reindexed(st, p, index)
    OBVIOUS
  <1>5. /\ r \in States /\ r.slab = st.slab /\ r.stored = st.stored
        /\ \A d \in Container : d # p => r.handle[d] = st.handle[d]
        /\ r.handle[p] = [updater |-> st.handle[p].updater, index |-> index]
        /\ r.handle[p] # None
    <2>1. PICK children \in SUBSET Container : children = DOMAIN old
      BY <1>1
    <2>2. index \in [children -> Nat]
      BY <1>2, <2>1
    <2> HIDE DEF old
    <2> QED  BY <1>4, <2>1, <2>2, ReindexedIs
  <1> QED  BY <1>3, <1>4, <1>5 DEF index

\* The slab can be inserted into.
LEMMA InsertingIs ==
    ASSUME NEW st, NEW p, NEW at, NEW value, Inserting(st, p, at, value)
    PROVE  /\ InsertReady(st, {}, p, at, value)
           /\ p \in Container /\ Contents(st) \in Programs /\ Nest(Contents(st))
           /\ Contents(st)[p] # None /\ Contents(st)[p].kind = "array"
           /\ at \in 1..Len(Contents(st)[p].elems) + 1 /\ at \in Nat
           /\ Len(Contents(st)[p].elems) \in Nat
           /\ value \in Value /\ st.handle[p] # None
           /\ Puttable(Contents(st), st.handle, p, {}, value)
           /\ \A c \in DOMAIN st.handle[p].index :
                 st.handle[p].index[c] \in 1..Len(Contents(st)[p].elems)
  <1> DEFINE k == Contents(st)
  <1>0. /\ p \in Container /\ k \in Programs /\ Nest(k) /\ k[p] # None /\ value \in Value
        /\ Sound(st, None, {}) /\ st \in States /\ st.slab[p] # None /\ st.slab[p].kind = "array"
        /\ at \in 1..Len(st.slab[p].elems) + 1 /\ st.handle[p] # None
        /\ Puttable(k, st.handle, p, {}, value) /\ Handled(k, st.handle, {}, {})
    BY WholeIs DEF Inserting, Puttable
  <1>1. IdOf(value) # p /\ (value.tag = "value" => value.id \in Container /\ st.slab[value.id] # None)
    <2>1. CASE value.tag = "value"
      <3>1. value.id # p /\ value.id \in Container /\ k[value.id] # None
        BY <1>0, <2>1, ValueIs DEF Puttable
      <3>2. st.slab[value.id] # None
        BY <1>0, <3>1, ContentsAre
      <3> QED  BY <2>1, <3>1, <3>2 DEF IdOf
    <2>2. CASE value.tag # "value"
      BY <1>0, <2>2, NoneIsNot DEF IdOf
    <2> QED  BY <2>1, <2>2
  <1>2. /\ k[p].kind = "array" /\ Len(k[p].elems) = Len(st.slab[p].elems)
        /\ at \in 1..Len(k[p].elems) + 1 /\ Len(k[p].elems) \in Nat
    <2>1. k[p].kind = "array" /\ k[p].elems \in Seq(Value) /\ Len(k[p].elems) = Len(st.slab[p].elems)
      BY <1>0, HeldIs, ValuesAre
    <2> QED  BY <1>0, <2>1
  <1>3. \A j \in Programs : Alters(k, j, p, InsertAt(k[p].elems, at, value)) => Nest(j)
    <2> TAKE j \in Programs
    <2> HAVE Alters(k, j, p, InsertAt(k[p].elems, at, value))
    <2> HIDE DEF k
    <2> QED  BY <1>0, <1>2, InsertNests
  <1>4. ASSUME NEW c \in DOMAIN st.handle[p].index
        PROVE  st.handle[p].index[c] \in 1..Len(k[p].elems)
    <2>1. Place(k, p, st.handle[p].index[c], c)
      BY <1>0 DEF Handled, Indexed
    <2>2. c \in Container
      <3>1. st.handle[p] \in Handle
        BY <1>0, StateIs
      <3> QED  BY <3>1, HandleIs
    <2>3. PICK x : x = st.handle[p].index[c] /\ Place(k, p, x, c)
      BY <2>1
    <2>4. x \in 1..Len(k[p].elems)
      BY <1>0, <1>2, <2>2, <2>3, PlaceIs
    <2> QED  BY <2>3, <2>4
  <1>5. InsertReady(st, {}, p, at, value)
    BY <1>0, <1>1, <1>3 DEF InsertReady
  <1>6. at \in Nat
    BY <1>2
  <1> QED  BY <1>0, <1>2, <1>4, <1>5, <1>6

\* Array.Insert.
LEMMA InsertCall ==
    ASSUME NEW st, NEW p, NEW at, NEW value, Inserting(st, p, at, value)
    PROVE  LET r == Insert(st, p, at, value)
           IN Whole(r) /\ Alters(Contents(st), Contents(r), p, InsertAt(Contents(st)[p].elems, at, value))
  <1> DEFINE k == Contents(st)
             h == st.handle
             vals == InsertAt(k[p].elems, at, value)
             L == IF value.tag = "value" THEN {value.id} ELSE {}
             r0 == SlabInsert(st, p, at, value)
             r1 == incrementIndexFrom(r0, p, at)
             r2 == notifyParentIfNeeded(r1, p)
             r3 == setCallbackWithChild(r2, p, at, value)
  <1>0. /\ InsertReady(st, {}, p, at, value)
        /\ p \in Container /\ k \in Programs /\ Nest(k) /\ k[p] # None /\ k[p].kind = "array"
        /\ at \in 1..Len(k[p].elems) + 1 /\ at \in Nat /\ Len(k[p].elems) \in Nat
        /\ value \in Value /\ h[p] # None /\ Puttable(k, h, p, {}, value)
        /\ \A c \in DOMAIN h[p].index : h[p].index[c] \in 1..Len(k[p].elems)
    BY InsertingIs
  <1>1. Altered(st, r0, IdOf(value), p, vals, {})
    BY <1>0, SlabInsertIs
  <1> HIDE DEF k, h, r0, vals
  <1>2. Sound(r0, p, {}) /\ r0.handle = h /\ Alters(k, Contents(r0), p, vals) /\ r0 \in States
    BY <1>1 DEF Altered, Sound, k, h
  <1>3. Arrays(k, Contents(r0), p) /\ Inserted(Elems(Contents(r0), p), Elems(k, p), at, value)
    <2>1. PICK k2 : k2 = Contents(r0)
      OBVIOUS
    <2>2. Alters(k, k2, p, InsertAt(k[p].elems, at, value))
      BY <1>2, <2>1 DEF vals
    <2>3. Arrays(k, k2, p) /\ Inserted(Elems(k2, p), Elems(k, p), at, value)
      BY <1>0, <2>2, InsertedValue
    <2> QED  BY <2>1, <2>3
  <1>4. Len(r0.slab[p].elems) = Len(k[p].elems) + 1
    <2>1. Contents(r0)[p] # None /\ Contents(r0)[p].kind = "array"
      BY <1>3 DEF Arrays
    <2>2. r0.slab[p] # None
      BY <1>0, <1>2, <2>1, ContentsAre
    <2>3. r0.slab[p].kind = "array"
      BY <1>0, <1>2, <2>1, <2>2, HeldIs
    <2>4. Len(Contents(r0)[p].elems) = Len(r0.slab[p].elems)
      BY <1>0, <1>2, <2>2, <2>3, ValuesAre
    <2>5. Elems(Contents(r0), p) = Contents(r0)[p].elems /\ Elems(k, p) = k[p].elems
      BY <1>0, <2>1 DEF Elems
    <2> QED  BY <1>3, <2>4, <2>5 DEF Inserted
  <1>5. /\ r1 \in States /\ r1.slab = r0.slab /\ r1.stored = r0.stored
        /\ \A d \in Container : d # p => r1.handle[d] = h[d]
        /\ r1.handle[p] = [updater |-> h[p].updater, index |-> MovedUp(h[p].index, at)]
        /\ r1.handle[p] # None
    <2>1. \A c \in DOMAIN r0.handle[p].index : /\ r0.handle[p].index[c] \in Nat
                                               /\ r0.handle[p].index[c] < Len(r0.slab[p].elems)
      BY <1>0, <1>2, <1>4
    <2>2. Len(r0.slab[p].elems) \in Nat /\ r0.handle[p] # None
      BY <1>0, <1>2, <1>4
    <2>3. /\ r1 \in States /\ r1.slab = r0.slab /\ r1.stored = r0.stored
          /\ \A d \in Container : d # p => r1.handle[d] = r0.handle[d]
          /\ r1.handle[p] = [updater |-> r0.handle[p].updater, index |-> MovedUp(r0.handle[p].index, at)]
          /\ r1.handle[p] # None
      BY <1>0, <1>2, <2>1, <2>2, IncrementIs
    <2> QED  BY <1>2, <2>3
  <1> HIDE DEF r1
  <1>6. Sound(r1, p, {}) /\ Contents(r1) = Contents(r0)
    BY <1>2, <1>5, SoundSlabs
  <1>7. /\ Handled(Contents(r1), r1.handle, L, {})
        /\ at \in DOMAIN Elems(Contents(r1), p) /\ Elems(Contents(r1), p)[at] = value
    <2>1. PICK k2, h2 : k2 = Contents(r1) /\ h2 = r1.handle
      OBVIOUS
    <2>2. Alters(Contents(st), k2, p, InsertAt(Contents(st)[p].elems, at, value))
      BY <1>2, <1>6, <2>1 DEF vals, k
    <2>3. NewIndex(st.handle, h2, p, MovedUp(st.handle[p].index, at))
      BY <1>5, <2>1, StateIs DEF h, NewIndex
    <2>4. L = (IF value.tag = "value" THEN {value.id} ELSE {})
      OBVIOUS
    <2>5. /\ Handled(k2, h2, L, {})
          /\ at \in DOMAIN Elems(k2, p) /\ Elems(k2, p)[at] = value
      <3> HIDE DEF L
      <3> QED  BY <2>2, <2>3, <2>4, InsertHandled
    <2> QED  BY <2>1, <2>5
  <1>8. L \in SUBSET Container
    BY <1>0, ValueIs
  <1>9. Clear(Contents(r1), p, L)
    <2>1. Clear(k, p, L)
      BY <1>0 DEF Clear, Puttable
    <2>2. Alters(k, Contents(r1), p, vals)
      BY <1>2, <1>6
    <2> QED  BY <1>0, <1>8, <2>1, <2>2, StaysClear
  <1>10. Telling(r1, p, L, {}, L, {})
    BY <1>0, <1>5, <1>6, <1>7, <1>8, <1>9 DEF Telling
  <1> HIDE DEF L
  <1>11. Told(r1, r2, L, {}, L, {})
    BY <1>10, Notify
  <1> HIDE DEF r2
  <1>12. /\ Sound(r2, None, {}) /\ Handled(Contents(r2), r2.handle, L, {}) /\ r2 \in States
         /\ Contents(r2) = Contents(r1) /\ r2.handle[p] # None
         /\ \A d \in Container : r2.handle[d] = None <=> r1.handle[d] = None
    BY <1>0, <1>5, <1>11 DEF Told, Kept, Sound
  <1>13. /\ Sound(r3, None, {}) /\ Contents(r3) = Contents(r2)
         /\ Handled(Contents(r3), r3.handle, {}, {})
    <2>1. CASE value.tag = "value"
      <3>1. value.id \in Container /\ r2.handle[value.id] # None /\ L = {value.id}
        BY <1>0, <1>5, <1>12, <2>1, ValueIs DEF Puttable, L
      <3>2. Place(Contents(r2), p, at, value.id) /\ value = Elems(Contents(r2), p)[at]
        BY <1>7, <1>12, <2>1 DEF Place
      <3>3. PICK c : c = value.id
        OBVIOUS
      <3>4. Linking(r2, {}, {}, p, c, at, value)
        BY <1>0, <1>12, <3>1, <3>2, <3>3 DEF Linking
      <3> QED  BY <3>4, LinkChild
    <2>2. CASE value.tag # "value"
      <3>1. value.tag = "plain" /\ L = {}
        BY <1>0, <2>2, ValueIs DEF L
      <3>2. r3 = r2
        BY <3>1 DEF setCallbackWithChild
      <3> QED  BY <1>12, <3>1, <3>2
    <2> QED  BY <2>1, <2>2
  <1> HIDE DEF r3
  <1>14. Insert(st, p, at, value) = r3
    <2>1. ~ r1.failed /\ ~ r2.failed
      BY <1>5, <1>12, StateIs
    <2> QED  BY <2>1 DEF Insert, Then, r0, r1, r2, r3
  <1> QED  BY <1>2, <1>6, <1>12, <1>13, <1>14 DEF Whole, k, vals

-----------------------------------------------------------------------------
(* Remove.                                                                 *)

\* The program removes an element of p.
Removing(st, p, at) ==
    /\ Whole(st) /\ p \in Container /\ st.slab[p] # None /\ st.handle[p] # None
    /\ at \in DOMAIN st.slab[p].elems

\* The container that is removed.
Taken(k, p, at) == {c \in Container : Place(k, p, at, c)}

\* The elements of p in k2 are those in k but for the one at a place; F[y] is
\* where the one that is now at y was.
Shrinks(k, k2, p, at, F) ==
    /\ k2 \in Programs /\ k[p] # None /\ k2[p] # None /\ k2[p].kind = k[p].kind
    /\ \A d \in Container : d # p => k2[d] = k[d] /\ Elems(k2, d) = Elems(k, d)
    /\ \A y, z \in DOMAIN Elems(k2, p) : F[y] = F[z] => y = z
    /\ \A y \in DOMAIN Elems(k2, p) :
          F[y] # at /\ F[y] \in DOMAIN Elems(k, p) /\ Elems(k2, p)[y] = Elems(k, p)[F[y]]

\* Containers are still nested.
LEMMA ShrinkNests ==
    ASSUME NEW k, NEW k2, NEW p \in Container, NEW at, NEW F, Nest(k), Shrinks(k, k2, p, at, F)
    PROVE  Nest(k2)
  <1>1. \A c \in Container : \A y \in DOMAIN Elems(k2, p) :
              Place(k2, p, y, c) /\ c \notin {} => Place(k, p, F[y], c)
    BY DEF Place, Shrinks
  <1>2. PICK V \in SUBSET Container : V = {}
    OBVIOUS
  <1>3. /\ k2 \in Programs /\ k[p] # None /\ k2[p] # None
        /\ \A d \in Container : d # p => k2[d] = k[d]
        /\ \A y, z \in DOMAIN Elems(k2, p) : F[y] = F[z] => y = z
    BY DEF Shrinks
  <1>4. \A v, w \in V : v = w
    BY <1>2
  <1>5. \A v \in V : /\ k[v] # None /\ v # p /\ p \notin Under(k, v)
                     /\ \A q \in Container : q # p => v \notin Kids(k, q)
                     /\ \A y, z \in DOMAIN Elems(k2, p) :
                           Place(k2, p, y, v) /\ Place(k2, p, z, v) => y = z
    BY <1>2
  <1>6. \A c \in Container : \A y \in DOMAIN Elems(k2, p) :
              Place(k2, p, y, c) /\ c \notin V => Place(k, p, F[y], c)
    BY <1>1, <1>2
  <1> QED  BY <1>3, <1>4, <1>5, <1>6, NestChanged

\* What was removed is in no place.
LEMMA TakenIs ==
    ASSUME NEW k, NEW k2, NEW p \in Container, NEW at, NEW F, Nest(k), Shrinks(k, k2, p, at, F),
           NEW c \in Taken(k, p, at)
    PROVE  /\ c \in Container /\ c # p /\ p \notin Under(k, c)
           /\ \A q \in Container : c \notin Kids(k2, q)
  <1>1. c \in Container /\ Place(k, p, at, c) /\ at \in DOMAIN Elems(k, p)
    BY DEF Taken, Place
  <1>2. c # p /\ p \notin Under(k, c)
    BY <1>1, ClearOfKids
  <1>3. ASSUME NEW q \in Container, NEW y \in DOMAIN Elems(k2, q), Place(k2, q, y, c) PROVE FALSE
    <2>1. CASE q = p
      <3>1. F[y] # at /\ F[y] \in DOMAIN Elems(k, p) /\ Elems(k2, p)[y] = Elems(k, p)[F[y]]
        BY <2>1 DEF Shrinks
      <3>2. Place(k, p, F[y], c)
        BY <1>3, <2>1, <3>1 DEF Place
      <3> QED  BY <1>1, <3>1, <3>2 DEF Nest, OnePlace
    <2>2. CASE q # p
      <3>1. Elems(k2, q) = Elems(k, q)
        BY <2>2 DEF Shrinks
      <3>2. Place(k, q, y, c) /\ y \in DOMAIN Elems(k, q)
        BY <1>3, <3>1 DEF Place
      <3> QED  BY <1>1, <2>2, <3>2 DEF Nest, OnePlace
    <2> QED  BY <2>1, <2>2
  <1> QED  BY <1>1, <1>2, <1>3 DEF Kids

\* The slab of p was changed, to r.
Removes(st, r, p, at, vals, F, G) ==
    /\ Removing(st, p, at) /\ G = Taken(Contents(st), p, at)
    /\ Sound(r, p, G) /\ Alters(Contents(st), Contents(r), p, vals)
    /\ Shrinks(Contents(st), Contents(r), p, at, F)
    /\ Handled(Contents(r), r.handle, {}, Stale(Contents(st), p, G)) /\ r.handle[p] # None
    /\ \A d \in Container : d # p => r.slab[d] = st.slab[d]

\* Its parents are told.
LEMMA RemoveCall ==
    ASSUME NEW st, NEW r, NEW p, NEW at, NEW vals, NEW F, NEW G, Removes(st, r, p, at, vals, F, G)
    PROVE  Out(st, notifyParentIfNeeded(r, p), p, at, vals, G)
  <1> DEFINE k == Contents(st)
             I == Stale(k, p, G)
             e == st.slab[p].elems[at]
             n == notifyParentIfNeeded(r, p)
  <1>0. /\ p \in Container /\ Whole(st) /\ Nest(k) /\ st \in States /\ st.slab[p] # None
        /\ at \in DOMAIN st.slab[p].elems /\ G = Taken(k, p, at)
        /\ Shrinks(k, Contents(r), p, at, F) /\ r.handle[p] # None
        /\ Sound(r, p, G) /\ Alters(k, Contents(r), p, vals)
        /\ Handled(Contents(r), r.handle, {}, I)
        /\ \A d \in Container : d # p => r.slab[d] = st.slab[d]
    BY WholeIs DEF Removes, Removing
  <1>1. \A c \in G : /\ c \in Container /\ c # p /\ p \notin Under(k, c)
                     /\ \A q \in Container : c \notin Kids(Contents(r), q)
    BY <1>0, TakenIs
  <1>2. Clear(Contents(r), p, G)
    <2>1. Clear(k, p, G) /\ G \in SUBSET Container
      BY <1>1 DEF Clear
    <2> HIDE DEF k
    <2> QED  BY <1>0, <2>1, StaysClear
  <1>3. Telling(r, p, G, G, {}, I)
    <2>1. \A q, d \in Container : <<q, d>> \in I => d \in G
      BY DEF Stale
    <2> QED  BY <1>0, <1>1, <1>2, <2>1 DEF Telling
  <1>4. Told(r, n, G, G, {}, I)
    BY <1>3, Notify
  <1> HIDE DEF n, k, I
  <1>5. /\ Sound(n, None, G) /\ Handled(Contents(n), n.handle, {}, I)
        /\ Contents(n) = Contents(r) /\ n.handle[p] # None /\ \A c \in G : n.slab[c] = r.slab[c]
    BY <1>0, <1>4 DEF Told, Kept
  <1>6. \A c \in G : n.slab[c] = st.slab[c] /\ \A q \in Container : c \notin Kids(Contents(n), q)
    BY <1>0, <1>1, <1>5
  <1>7. Left(st, n, p, vals, G)
    BY <1>0, <1>5, <1>6 DEF Left, k, I
  <1>8. G = IF IsChild(e) THEN {e.id} ELSE {}
    <2>1. \A c : Place(k, p, at, c) <=> IsChild(e) /\ e.id = c
      BY <1>0, PlaceInSlab, SlabElemsAre DEF k
    <2>2. IsChild(e) => e.id \in Container
      <3>1. e \in Element
        BY <1>0, StateIs, SlabIs
      <3> QED  BY <3>1, ElementIs
    <2> QED  BY <1>0, <2>1, <2>2 DEF Taken
  <1>9. e.tag = "slab" => IsChild(e)
    BY DEF IsChild
  <1>10. G \subseteq (IF IsChild(e) THEN {e.id} ELSE {}) /\ (e.tag = "slab" => e.id \in G)
    BY <1>8, <1>9
  <1> QED  BY <1>0, <1>7, <1>10 DEF Out, n

\* Where elements of an array are after a removal.
Pull(s, at) == [y \in 1..(Len(s) - 1) |-> IF y < at THEN y ELSE y + 1]

\* What an array holds after a removal.
LEMMA ArrayShrinks ==
    ASSUME NEW k \in Programs, NEW p \in Container, k[p] # None, k[p].kind = "array",
           NEW at \in DOMAIN k[p].elems,
           NEW k2, Alters(k, k2, p, RemoveAt(k[p].elems, at))
    PROVE  /\ Shrinks(k, k2, p, at, Pull(k[p].elems, at))
           /\ Len(k[p].elems) \in Nat /\ DOMAIN k[p].elems = 1..Len(k[p].elems)
           /\ DOMAIN Elems(k2, p) = 1..(Len(k[p].elems) - 1)
  <1>1. PICK s, t, F : s = k[p].elems /\ t = RemoveAt(s, at) /\ F = Pull(s, at)
    OBVIOUS
  <1>2. k[p] \in Content /\ Elems(k, p) = s
    BY <1>1, ElemsAre
  <1>3. k[p].type \in Types /\ s \in Seq(Value)
    <2>1. k[p] \in Holding(Value)
      BY <1>2 DEF Content
    <2> QED  BY <1>1, <2>1, ContentIs
  <1>4. Len(s) \in Nat /\ DOMAIN s = 1..Len(s) /\ at \in 1..Len(s)
    BY <1>1, <1>3
  <1>5. t \in Seq(Value) /\ Removed(t, s, at)
    BY <1>1, <1>3, <1>4, RemovedAt
  <1>6. DOMAIN t = 1..(Len(s) - 1)
    BY <1>4, <1>5 DEF Removed
  <1>7. k2[p] = [kind |-> k[p].kind, type |-> k[p].type, elems |-> t] /\ k2 \in Programs
    BY <1>1 DEF Alters
  <1>8. [kind |-> k[p].kind, type |-> k[p].type, elems |-> t] \in Content
    BY <1>3, <1>5, IsContent DEF Content
  <1>9. k2[p] # None /\ k2[p].kind = k[p].kind /\ Elems(k2, p) = t
    BY <1>7, <1>8, NoneIsNot DEF Elems
  <1>10. \A d \in Container : d # p => k2[d] = k[d] /\ Elems(k2, d) = Elems(k, d)
    BY DEF Alters, Elems
  <1>11. \A y \in 1..(Len(s) - 1) : F[y] = IF y < at THEN y ELSE y + 1
    BY <1>1 DEF Pull
  <1>12. \A y, z \in 1..(Len(s) - 1) : F[y] = F[z] => y = z
    BY <1>4, <1>11
  <1>13. ASSUME NEW y \in 1..(Len(s) - 1) PROVE F[y] # at /\ F[y] \in 1..Len(s) /\ t[y] = s[F[y]]
    <2>1. t[y] = IF y < at THEN s[y] ELSE s[y + 1]
      BY <1>5 DEF Removed
    <2>2. F[y] = IF y < at THEN y ELSE y + 1
      BY <1>11
    <2> QED  BY <1>4, <2>1, <2>2
  <1>14. Shrinks(k, k2, p, at, F)
    BY <1>2, <1>4, <1>6, <1>7, <1>9, <1>10, <1>12, <1>13 DEF Shrinks
  <1> QED  BY <1>1, <1>4, <1>6, <1>9, <1>14

\* What a map holds after a removal.
LEMMA MapShrinks ==
    ASSUME NEW k \in Programs, NEW p \in Container, k[p] # None, k[p].kind = "map",
           NEW at \in DOMAIN k[p].elems,
           NEW k2, Alters(k, k2, p, Without(k[p].elems, at))
    PROVE  \E F : /\ Shrinks(k, k2, p, at, F)
                  /\ \A y \in DOMAIN Elems(k2, p) : F[y] = y
  <1>1. PICK s, t : s = k[p].elems /\ t = Without(s, at)
    OBVIOUS
  <1>2. k[p] \in Content /\ Elems(k, p) = s
    BY <1>1, ElemsAre
  <1>3. k[p].type \in Types /\ DOMAIN s \in SUBSET Key /\ s \in [DOMAIN s -> Value]
    <2>1. k[p] \in Holding(Value)
      BY <1>2 DEF Content
    <2> QED  BY <1>1, <2>1, ContentIs
  <1>4. /\ DOMAIN t = DOMAIN s \ {at} /\ t \in [DOMAIN s \ {at} -> Value]
        /\ \A y \in DOMAIN t : t[y] = s[y]
    BY <1>1, <1>3 DEF Without
  <1>5. k2[p] = [kind |-> k[p].kind, type |-> k[p].type, elems |-> t] /\ k2 \in Programs
    BY <1>1 DEF Alters
  <1>6. [kind |-> k[p].kind, type |-> k[p].type, elems |-> t] \in Content
    <2>1. DOMAIN s \ {at} \in SUBSET Key
      BY <1>3
    <2> QED  BY <1>3, <1>4, <2>1, IsContent DEF Content
  <1>7. k2[p] # None /\ k2[p].kind = k[p].kind /\ Elems(k2, p) = t
    BY <1>5, <1>6, NoneIsNot DEF Elems
  <1>8. \A d \in Container : d # p => k2[d] = k[d] /\ Elems(k2, d) = Elems(k, d)
    BY DEF Alters, Elems
  <1>9. PICK F : F = [y \in DOMAIN t |-> y]
    OBVIOUS
  <1>10. \A y \in DOMAIN t : F[y] = y /\ F[y] # at /\ F[y] \in DOMAIN s
    BY <1>4, <1>9
  <1>11. Shrinks(k, k2, p, at, F)
    BY <1>2, <1>4, <1>5, <1>7, <1>8, <1>10 DEF Shrinks
  <1> QED  BY <1>7, <1>10, <1>11

\* The index of p after a removal.
MovedDown(index, at) == [c \in DOMAIN index |-> IF index[c] > at THEN index[c] - 1 ELSE index[c]]

\* It has the new places, and may have the one that was removed.
LEMMA RemoveHandled ==
    ASSUME NEW st, NEW p, NEW at, Removing(st, p, at), st.slab[p].kind = "array",
           NEW k2, Alters(Contents(st), k2, p, RemoveAt(Contents(st)[p].elems, at)),
           NEW h2, NewIndex(st.handle, h2, p, MovedDown(st.handle[p].index, at)),
           NEW G, G = Taken(Contents(st), p, at)
    PROVE  Handled(k2, h2, {}, Stale(Contents(st), p, G))
  <1> DEFINE k == Contents(st)
             h == st.handle
             old == h[p].index
             I == Stale(k, p, G)
  <1>0. /\ p \in Container /\ k \in Programs /\ Nest(k) /\ k[p] # None
        /\ Handled(k, h, {}, {}) /\ h \in Handles /\ h[p] # None
        /\ k[p].kind = "array" /\ at \in DOMAIN k[p].elems
    <2>1. /\ st \in States /\ p \in Container /\ st.slab[p] # None
          /\ at \in DOMAIN st.slab[p].elems
      BY WholeIs DEF Removing
    <2>2. k[p].kind = "array" /\ at \in DOMAIN k[p].elems
      BY <2>1, HeldIs
    <2> QED  BY <2>1, <2>2, WholeIs DEF Removing
  <1>1. PICK s, F : s = k[p].elems /\ F = Pull(s, at)
    OBVIOUS
  <1>2. /\ Shrinks(k, k2, p, at, F) /\ Len(s) \in Nat /\ DOMAIN s = 1..Len(s)
        /\ DOMAIN Elems(k2, p) = 1..(Len(s) - 1)
    <2> HIDE DEF k, h
    <2>1. Alters(k, k2, p, RemoveAt(k[p].elems, at))
      BY DEF k
    <2> QED  BY <1>0, <1>1, <2>1, ArrayShrinks
  <1> HIDE DEF k, h
  <1>3. Elems(k, p) = s /\ at \in 1..Len(s)
    BY <1>0, <1>1, <1>2 DEF Elems
  <1>4. \A y \in 1..(Len(s) - 1) : F[y] = IF y < at THEN y ELSE y + 1
    BY <1>1 DEF Pull
  <1>5. \A y \in 1..(Len(s) - 1) :
           F[y] # at /\ F[y] \in DOMAIN s /\ Elems(k2, p)[y] = s[F[y]]
    BY <1>2, <1>3 DEF Shrinks
  <1>6. /\ h2[p].updater = h[p].updater
        /\ DOMAIN h2[p].index = DOMAIN old
        /\ \A c \in DOMAIN old : h2[p].index[c] = IF old[c] > at THEN old[c] - 1 ELSE old[c]
    <2>1. h2[p].updater = h[p].updater /\ h2[p].index = MovedDown(old, at)
      BY DEF h, NewIndex
    <2> HIDE DEF old
    <2> QED  BY <2>1 DEF MovedDown
  <1>7. ASSUME NEW c \in DOMAIN old PROVE old[c] \in DOMAIN s /\ Place(k, p, old[c], c) /\ c \in Container
    <2>1. Place(k, p, old[c], c)
      BY <1>0 DEF Handled, Indexed
    <2>2. h[p] \in Handle
      BY <1>0 DEF Handles
    <2> QED  BY <1>3, <2>1, <2>2, HandleIs DEF Place
  <1>8. ASSUME NEW c \in Container, NEW y \in DOMAIN Elems(k2, p), Place(k2, p, y, c)
        PROVE  \E x \in DOMAIN Elems(k, p) :
                  /\ Place(k, p, x, c) /\ Elems(k2, p)[y].wrap = Elems(k, p)[x].wrap
                  /\ k[p].kind # "array" => x = y
                  /\ k[p].kind = "array" /\ c \in DOMAIN h[p].index /\ h[p].index[c] = x =>
                        c \in DOMAIN h2[p].index /\ h2[p].index[c] = y
    <2>1. PICK x : x = F[y]
      OBVIOUS
    <2>2. x # at /\ x \in DOMAIN s /\ Elems(k2, p)[y] = s[x]
      BY <1>2, <1>5, <2>1
    <2>3. Place(k, p, x, c)
      BY <1>3, <1>8, <2>2 DEF Place
    <2>4. y = IF x > at THEN x - 1 ELSE x
      BY <1>2, <1>3, <1>4, <2>1
    <2> QED  BY <1>0, <1>3, <1>6, <2>2, <2>3, <2>4
  <1>9. ASSUME NEW c \in DOMAIN h2[p].index, <<p, c>> \notin I
        PROVE  k[p].kind = "array" /\ Place(k2, p, h2[p].index[c], c)
    <2>1. PICK x : x = old[c]
      OBVIOUS
    <2>2. x \in DOMAIN s /\ Place(k, p, x, c) /\ c \in Container
      BY <1>6, <1>7, <2>1
    <2>3. x # at
      <3>1. c \notin G
        BY <1>0, <1>9 DEF Stale
      <3> QED  BY <2>2, <3>1 DEF Taken, k
    <2>4. PICK y \in 1..(Len(s) - 1) : F[y] = x /\ y = IF x > at THEN x - 1 ELSE x
      <3>1. CASE x > at
        <4>1. x - 1 \in 1..(Len(s) - 1) /\ ~ (x - 1 < at) /\ (x - 1) + 1 = x
          BY <1>2, <1>3, <2>2, <3>1
        <4>2. F[x - 1] = x
          BY <1>4, <4>1
        <4> QED  BY <3>1, <4>1, <4>2
      <3>2. CASE x < at
        <4>1. x \in 1..(Len(s) - 1)
          BY <1>2, <1>3, <2>2, <3>2
        <4>2. F[x] = x
          BY <1>4, <3>2, <4>1
        <4> QED  BY <1>2, <1>3, <2>2, <3>2, <4>1, <4>2
      <3> QED  BY <1>2, <1>3, <2>2, <2>3, <3>1, <3>2
    <2>5. h2[p].index[c] = y
      BY <1>6, <2>1, <2>4
    <2>6. Place(k2, p, y, c)
      BY <1>2, <1>3, <1>5, <2>2, <2>4 DEF Place
    <2> QED  BY <1>0, <2>5, <2>6
  <1>10. Relinks(k, h, k2, h2, p, {}, I)
    <2>1. \A d \in Container : d # p => k2[d] = k[d] /\ h2[d] = h[d]
      BY <1>2 DEF Shrinks, h, NewIndex
    <2>2. k2 \in Programs /\ k2[p] # None /\ k2[p].kind = k[p].kind /\ h2 \in Handles /\ h2[p] # None
      BY <1>2 DEF Shrinks, NewIndex
    <2> QED  BY <1>0, <1>6, <1>8, <1>9, <2>1, <2>2 DEF Relinks
  <1> QED  BY <1>0, <1>10, RelinksAll DEF k

\* What a removal starts from.
LEMMA RemovingIs ==
    ASSUME NEW st, NEW p, NEW at, Removing(st, p, at)
    PROVE  /\ st \in States /\ Contents(st) \in Programs /\ Nest(Contents(st)) /\ p \in Container
           /\ st.slab[p] # None /\ Contents(st)[p] # None /\ st.handle[p] # None
           /\ Contents(st)[p].kind = st.slab[p].kind /\ st.slab[p].kind \in Kind
           /\ at \in DOMAIN Contents(st)[p].elems
           /\ Handled(Contents(st), st.handle, {}, {})
           /\ RemoveReady(st, {}, p, at, Taken(Contents(st), p, at))
  <1>1. /\ st \in States /\ Contents(st) \in Programs /\ Nest(Contents(st)) /\ p \in Container
        /\ st.slab[p] # None /\ Contents(st)[p] # None /\ st.handle[p] # None
        /\ at \in DOMAIN st.slab[p].elems
        /\ Handled(Contents(st), st.handle, {}, {}) /\ Sound(st, None, {})
    BY WholeIs DEF Removing
  <1>2. /\ Contents(st)[p].kind = st.slab[p].kind /\ st.slab[p].kind \in Kind
        /\ DOMAIN Contents(st)[p].elems = DOMAIN st.slab[p].elems
        /\ SlabElems(st, p) = st.slab[p].elems
    BY <1>1, HeldIs
  <1>3. IsChild(st.slab[p].elems[at]) => st.slab[p].elems[at].id \in Taken(Contents(st), p, at)
    <2> SUFFICES ASSUME IsChild(st.slab[p].elems[at])
                 PROVE  st.slab[p].elems[at].id \in Taken(Contents(st), p, at)
      OBVIOUS
    <2>1. st.slab[p].elems[at] \in Element
      BY <1>1, <1>2, SlabElemsAre
    <2>2. st.slab[p].elems[at].id \in Container
      BY <2>1, ElementIs
    <2>3. Place(Contents(st), p, at, st.slab[p].elems[at].id)
      BY <1>1, <1>2, PlaceInSlab
    <2> QED  BY <2>2, <2>3 DEF Taken
  <1>4. RemoveReady(st, {}, p, at, Taken(Contents(st), p, at))
    BY <1>1, <1>3 DEF RemoveReady
  <1> QED  BY <1>1, <1>2, <1>4

\* decrementIndexFrom.
LEMMA DecrementIs ==
    ASSUME NEW st \in States, NEW p \in Container, st.handle[p] # None, NEW at \in Nat
    PROVE  LET r == decrementIndexFrom(st, p, at)
           IN /\ r \in States /\ r.slab = st.slab /\ r.stored = st.stored
              /\ NewIndex(st.handle, r.handle, p, MovedDown(st.handle[p].index, at))
  <1> DEFINE old == st.handle[p].index
             index == MovedDown(old, at)
  <1>1. DOMAIN old \in SUBSET Container /\ old \in [DOMAIN old -> Nat]
    BY StateIs, HandleIs
  <1>2. index \in [DOMAIN old -> Nat]
    <2> HIDE DEF old
    <2> QED  BY <1>1 DEF MovedDown
  <1>3. decrementIndexFrom(st, p, at) = Reindexed(st, p, index)
    BY DEF decrementIndexFrom, Reindexed, MovedDown
  <1> HIDE DEF index
  <1>4. PICK r : r = Reindexed(st, p, index)
    OBVIOUS
  <1>5. /\ r \in States /\ r.slab = st.slab /\ r.stored = st.stored
        /\ \A d \in Container : d # p => r.handle[d] = st.handle[d]
        /\ r.handle[p] = [updater |-> st.handle[p].updater, index |-> index]
        /\ r.handle[p] # None
    BY <1>1, <1>2, <1>4, ReindexedIs
  <1>6. r.handle \in Handles
    BY <1>5, StateIs
  <1> QED  BY <1>3, <1>4, <1>5, <1>6 DEF index, NewIndex

\* Array.Remove.
LEMMA ArrayRemoveCall ==
    ASSUME NEW st, NEW p, NEW at, Removing(st, p, at), st.slab[p].kind = "array"
    PROVE  LET r == ArrayRemove(st, p, at)
           IN Whole(r) /\ Alters(Contents(st), Contents(r), p, RemoveAt(Contents(st)[p].elems, at))
  <1>0. /\ st \in States /\ Contents(st) \in Programs /\ Nest(Contents(st)) /\ p \in Container
        /\ Contents(st)[p] # None /\ Contents(st)[p].kind = "array" /\ st.handle[p] # None
        /\ at \in DOMAIN Contents(st)[p].elems
        /\ RemoveReady(st, {}, p, at, Taken(Contents(st), p, at))
    BY RemovingIs
  <1>1. PICK k, G, e, r0, r1, vals :
           /\ k = Contents(st) /\ G = Taken(k, p, at) /\ e = st.slab[p].elems[at]
           /\ r0 = ArraySlabRemove(st, p, at) /\ r1 = decrementIndexFrom(r0, p, at)
           /\ vals = RemoveAt(k[p].elems, at)
    OBVIOUS
  <1>2. ASSUME NEW j, Alters(k, j, p, vals)
        PROVE  Shrinks(k, j, p, at, Pull(k[p].elems, at)) /\ Nest(j) /\ at \in Nat
    <2>1. /\ Shrinks(k, j, p, at, Pull(k[p].elems, at))
          /\ Len(k[p].elems) \in Nat /\ DOMAIN k[p].elems = 1..Len(k[p].elems)
          /\ DOMAIN Elems(j, p) = 1..(Len(k[p].elems) - 1)
      BY <1>0, <1>1, <1>2, ArrayShrinks
    <2>2. PICK F : F = Pull(k[p].elems, at)
      OBVIOUS
    <2>3. Nest(j)
      BY <1>0, <1>1, <2>1, <2>2, ShrinkNests
    <2>4. at \in Nat
      BY <1>0, <1>1, <2>1
    <2> QED  BY <2>1, <2>3, <2>4
  <1>3. Altered(st, r0, None, p, vals, G)
    BY <1>0, <1>1, <1>2, ArrayRemoveIs
  <1>4. /\ Sound(r0, p, G) /\ r0.handle = st.handle /\ Alters(k, Contents(r0), p, vals)
        /\ \A d \in Container : d # p => r0.slab[d] = st.slab[d]
        /\ r0 \in States
    BY <1>1, <1>3, NoneIsNot DEF Altered, Sound
  <1>5. at \in Nat
    BY <1>2, <1>4
  <1>6. /\ r1 \in States /\ r1.slab = r0.slab /\ r1.stored = r0.stored
        /\ NewIndex(st.handle, r1.handle, p, MovedDown(st.handle[p].index, at))
    <2>1. r0.handle[p] # None
      BY <1>0, <1>4
    <2>2. /\ r1 \in States /\ r1.slab = r0.slab /\ r1.stored = r0.stored
          /\ NewIndex(r0.handle, r1.handle, p, MovedDown(r0.handle[p].index, at))
      BY <1>0, <1>1, <1>4, <1>5, <2>1, DecrementIs
    <2> QED  BY <1>4, <2>2
  <1>7. Sound(r1, p, G) /\ Contents(r1) = Contents(r0)
    BY <1>4, <1>6, SoundSlabs
  <1>8. Handled(Contents(r1), r1.handle, {}, Stale(k, p, G)) /\ r1.handle[p] # None
    <2>1. PICK k2, h2 : k2 = Contents(r1) /\ h2 = r1.handle
      OBVIOUS
    <2>2. /\ Alters(Contents(st), k2, p, RemoveAt(Contents(st)[p].elems, at))
          /\ NewIndex(st.handle, h2, p, MovedDown(st.handle[p].index, at))
      BY <1>1, <1>4, <1>6, <1>7, <2>1
    <2>3. Handled(k2, h2, {}, Stale(Contents(st), p, G))
      BY <1>1, <2>2, RemoveHandled
    <2> QED  BY <1>1, <1>6, <2>1, <2>3 DEF NewIndex
  <1>9. PICK F : Removes(st, r1, p, at, vals, F, G)
    <2>1. Alters(k, Contents(r1), p, vals)
      BY <1>4, <1>7
    <2>2. Shrinks(k, Contents(r1), p, at, Pull(k[p].elems, at))
      BY <1>2, <2>1
    <2>3. PICK F : F = Pull(k[p].elems, at)
      OBVIOUS
    <2>4. Removes(st, r1, p, at, vals, F, G)
      BY <1>1, <1>4, <1>6, <1>7, <1>8, <2>1, <2>2, <2>3 DEF Removes
    <2> QED  BY <2>4
  <1>10. PICK n : n = notifyParentIfNeeded(r1, p) /\ Out(st, n, p, at, vals, G)
    BY <1>9, RemoveCall
  <1>11. PICK drop \in BOOLEAN : drop <=> e.tag # "plain"
    OBVIOUS
  <1>12. (drop => G = {e.id}) /\ (~ drop => G = {})
    <2>1. SlabElems(st, p) = st.slab[p].elems /\ e \in Element /\ at \in DOMAIN SlabElems(st, p)
      BY <1>0, <1>1, HeldIs, SlabElemsAre DEF Removing
    <2>2. \A c : Place(k, p, at, c) <=> IsChild(e) /\ e.id = c
      BY <1>0, <1>1, <2>1, PlaceInSlab
    <2>3. IsChild(e) => e.id \in Container
      BY <2>1, ElementIs
    <2> QED  BY <1>1, <1>11, <2>2, <2>3 DEF Taken, IsChild
  <1>13. ArrayRemove(st, p, at) = Dropped(uninlineStorableIfNeeded(n, e), p, e.id, drop)
    BY <1>1, <1>10, <1>11 DEF ArrayRemove, Dropped, Then
  <1> QED  BY <1>1, <1>10, <1>12, <1>13, OutOfArray

\* OrderedMap.Remove.
LEMMA MapRemoveCall ==
    ASSUME NEW st, NEW p, NEW at, Removing(st, p, at), st.slab[p].kind = "map"
    PROVE  LET r == MapRemove(st, p, at)
           IN Whole(r) /\ Alters(Contents(st), Contents(r), p, Without(Contents(st)[p].elems, at))
  <1>0. /\ st \in States /\ Contents(st) \in Programs /\ Nest(Contents(st)) /\ p \in Container
        /\ Contents(st)[p] # None /\ Contents(st)[p].kind = "map" /\ st.handle[p] # None
        /\ at \in DOMAIN Contents(st)[p].elems /\ Handled(Contents(st), st.handle, {}, {})
        /\ RemoveReady(st, {}, p, at, Taken(Contents(st), p, at))
    BY RemovingIs
  <1>1. PICK k, h, G, e, r1, vals :
           /\ k = Contents(st) /\ h = st.handle /\ G = Taken(k, p, at) /\ e = st.slab[p].elems[at]
           /\ r1 = MapSlabRemove(st, p, at) /\ vals = Without(k[p].elems, at)
    OBVIOUS
  <1>2. ASSUME NEW j, Alters(k, j, p, vals)
        PROVE  (\E F : Shrinks(k, j, p, at, F) /\ \A y \in DOMAIN Elems(j, p) : F[y] = y) /\ Nest(j)
    <2>1. PICK F : Shrinks(k, j, p, at, F) /\ \A y \in DOMAIN Elems(j, p) : F[y] = y
      BY <1>0, <1>1, <1>2, MapShrinks
    <2>2. Nest(j)
      BY <1>0, <1>1, <2>1, ShrinkNests
    <2> QED  BY <2>1, <2>2
  <1>3. Altered(st, r1, None, p, vals, G)
    BY <1>0, <1>1, <1>2, MapRemoveIs
  <1>4. /\ Sound(r1, p, G) /\ r1.handle = h /\ Alters(k, Contents(r1), p, vals)
        /\ \A d \in Container : d # p => r1.slab[d] = st.slab[d]
    BY <1>1, <1>3, NoneIsNot DEF Altered
  <1>5. PICK k2, F : /\ k2 = Contents(r1) /\ Shrinks(k, k2, p, at, F)
                     /\ \A y \in DOMAIN Elems(k2, p) : F[y] = y
    BY <1>2, <1>4
  <1>6. Stale(k, p, G) = {}
    BY <1>0, <1>1 DEF Stale
  <1>7. Handled(k2, h, {}, {})
    <2>1. ASSUME NEW c \in DOMAIN h[p].index PROVE FALSE
      BY <1>0, <1>1 DEF Handled, Indexed
    <2>2. ASSUME NEW c \in Container, NEW y \in DOMAIN Elems(k2, p), Place(k2, p, y, c)
          PROVE  \E x \in DOMAIN Elems(k, p) :
                    /\ Place(k, p, x, c) /\ Elems(k2, p)[y].wrap = Elems(k, p)[x].wrap
                    /\ k[p].kind # "array" => x = y
                    /\ k[p].kind = "array" /\ c \in DOMAIN h[p].index /\ h[p].index[c] = x =>
                          c \in DOMAIN h[p].index /\ h[p].index[c] = y
      <3>1. y \in DOMAIN Elems(k, p) /\ Elems(k2, p)[y] = Elems(k, p)[y]
        BY <1>5 DEF Shrinks
      <3> QED  BY <2>2, <3>1 DEF Place
    <2>3. Relinks(k, h, k2, h, p, {}, {})
      BY <1>0, <1>1, <1>5, <2>1, <2>2 DEF Relinks, Shrinks, Handled
    <2> QED  BY <1>0, <1>1, <2>3, RelinksAll
  <1>8. Removes(st, r1, p, at, vals, F, G)
    BY <1>0, <1>1, <1>4, <1>5, <1>6, <1>7 DEF Removes
  <1>9. PICK n : n = notifyParentIfNeeded(r1, p) /\ Out(st, n, p, at, vals, G)
    BY <1>8, RemoveCall
  <1>10. MapRemove(st, p, at) = uninlineStorableIfNeeded(n, e)
    BY <1>1, <1>9 DEF MapRemove
  <1> QED  BY <1>1, <1>9, <1>10, OutOfMap

-----------------------------------------------------------------------------
(* SetType.                                                                *)

\* The type of p changes, and nothing else.
Retypes(k, k2, p, type) ==
    /\ k2 \in Programs /\ k[p] # None
    /\ \A d \in Container : d # p => k2[d] = k[d]
    /\ k2[p] = [kind |-> k[p].kind, type |-> type, elems |-> k[p].elems]

\* A type is of no concern to containers and handles.
LEMMA RetypeNests ==
    ASSUME NEW k, NEW h, NEW p \in Container, NEW type \in Types, NEW k2, Retypes(k, k2, p, type),
           Nest(k), Handled(k, h, {}, {}), h[p] # None
    PROVE  Nest(k2) /\ Handled(k2, h, {}, {})
  <1>1. k \in Programs /\ k2 \in Programs /\ k[p] # None /\ \A d \in Container : d # p => k2[d] = k[d]
    BY DEF Retypes, Nest
  <1>2. k[p] \in Content /\ Elems(k, p) = k[p].elems
    BY <1>1, ElemsAre
  <1>3. k2[p] # None /\ k2[p].kind = k[p].kind /\ k2[p].elems = k[p].elems
    <2>1. k[p] \in Holding(Value)
      BY <1>2 DEF Content
    <2>2. /\ k[p].kind \in Kind
          /\ k[p].kind = "array" => k[p].elems \in Seq(Value)
          /\ k[p].kind = "map" => /\ DOMAIN k[p].elems \in SUBSET Key
                                  /\ k[p].elems \in [DOMAIN k[p].elems -> Value]
      BY <2>1, ContentIs
    <2>3. [kind |-> k[p].kind, type |-> type, elems |-> k[p].elems] \in Content
      BY <2>2, IsContent DEF Content, Kind
    <2> QED  BY <2>3, NoneIsNot DEF Retypes
  <1>4. Elems(k2, p) = Elems(k, p)
    BY <1>2, <1>3 DEF Elems
  <1>5. Nest(k2)
    <2>1. PICK F, V : F = [y \in DOMAIN Elems(k2, p) |-> y] /\ V = {}
      OBVIOUS
    <2>2. \A y \in DOMAIN Elems(k2, p) : F[y] = y
      BY <2>1
    <2>3. \A c \in Container : \A y \in DOMAIN Elems(k2, p) :
              Place(k2, p, y, c) /\ c \notin V => Place(k, p, F[y], c)
      BY <1>4, <2>2 DEF Place
    <2>4. V \in SUBSET Container /\ (\A v, w \in V : v = w)
          /\ \A v \in V : /\ k[v] # None /\ v # p /\ p \notin Under(k, v)
                          /\ \A q \in Container : q # p => v \notin Kids(k, q)
                          /\ \A y, z \in DOMAIN Elems(k2, p) :
                                Place(k2, p, y, v) /\ Place(k2, p, z, v) => y = z
      BY <2>1
    <2>5. \A y, z \in DOMAIN Elems(k2, p) : F[y] = F[z] => y = z
      BY <2>2
    <2> QED  BY <1>1, <1>3, <2>3, <2>4, <2>5, NestChanged
  <1>6. Relinks(k, h, k2, h, p, {}, {})
    <2>1. ASSUME NEW c \in Container, NEW y \in DOMAIN Elems(k2, p), Place(k2, p, y, c)
          PROVE  \E x \in DOMAIN Elems(k, p) :
                    /\ Place(k, p, x, c) /\ Elems(k2, p)[y].wrap = Elems(k, p)[x].wrap
                    /\ k[p].kind # "array" => x = y
                    /\ k[p].kind = "array" /\ c \in DOMAIN h[p].index /\ h[p].index[c] = x =>
                          c \in DOMAIN h[p].index /\ h[p].index[c] = y
      BY <1>4, <2>1 DEF Place
    <2>2. ASSUME NEW c \in DOMAIN h[p].index
          PROVE  k[p].kind = "array" /\ Place(k2, p, h[p].index[c], c)
      <3>1. k[p].kind = "array" /\ Place(k, p, h[p].index[c], c)
        BY DEF Handled, Indexed
      <3> QED  BY <1>4, <3>1 DEF Place
    <2>3. h \in Handles
      BY DEF Handled
    <2> QED  BY <1>1, <1>3, <2>1, <2>2, <2>3 DEF Relinks
  <1> QED  BY <1>5, <1>6, RelinksAll

\* The slab with another type can be put.
LEMMA RetypeReady ==
    ASSUME NEW st, Whole(st), NEW p \in Container, st.slab[p] # None, st.handle[p] # None,
           NEW type \in Types, NEW s, s = Retyped(st.slab[p], type)
    PROVE  /\ Ready(st, None, {}, st, None, p, s, {})
           /\ Retypes(Contents(st), Contents(PutSlab(st, p, s)), p, type)
           /\ s.inlined = st.slab[p].inlined /\ s.kind = st.slab[p].kind /\ s.size = st.slab[p].size
           /\ s \in Slab /\ PrefixSize(s) = PrefixSize(st.slab[p])
  <1>0. /\ st \in States /\ Nest(Contents(st)) /\ Contents(st) \in Programs /\ Sound(st, None, {})
        /\ Handled(Contents(st), st.handle, {}, {})
    BY WholeIs
  <1>1. PICK t \in Slab : t = st.slab[p]
    BY <1>0, StateIs
  <1>2. s = [kind |-> t.kind, type |-> type, inlined |-> t.inlined, size |-> t.size,
             elems |-> t.elems, cached |-> t.cached]
    BY <1>1, SlabExcept
  <1>3. /\ s.inlined = t.inlined /\ s.kind = t.kind /\ s.size = t.size /\ s.elems = t.elems
        /\ s.cached = t.cached /\ s.type = type
    BY <1>2
  <1>4. s \in Slab
    <2>1. /\ t.kind \in Kind /\ t.inlined \in BOOLEAN /\ t.size \in Nat
          /\ t.kind = "array" => t.elems \in Seq(Element) /\ t.cached = <<>>
          /\ t.kind = "map" => /\ DOMAIN t.elems \in SUBSET Key
                               /\ t.elems \in [DOMAIN t.elems -> Element]
                               /\ DOMAIN t.cached \in SUBSET Key
                               /\ t.cached \in [DOMAIN t.cached -> Nat]
      BY SlabIs
    <2>2. \/ t.kind = "array" /\ t.elems \in Seq(Element) /\ t.cached = <<>>
          \/ /\ t.kind = "map"
             /\ \E keys \in SUBSET Key : t.elems \in [keys -> Element]
             /\ \E keys \in SUBSET Key : t.cached \in [keys -> Nat]
      BY <2>1 DEF Kind
    <2>3. PICK kind, inlined, size, elems, cached :
             kind = t.kind /\ inlined = t.inlined /\ size = t.size /\ elems = t.elems /\ cached = t.cached
      OBVIOUS
    <2>4. \/ kind = "array" /\ elems \in Seq(Element) /\ cached = <<>>
          \/ /\ kind = "map"
             /\ \E keys \in SUBSET Key : elems \in [keys -> Element]
             /\ \E keys \in SUBSET Key : cached \in [keys -> Nat]
      BY <2>2, <2>3
    <2>6. inlined \in BOOLEAN /\ size \in Nat
      BY <2>1, <2>3
    <2>5. [kind |-> kind, type |-> type, inlined |-> inlined, size |-> size,
           elems |-> elems, cached |-> cached] \in Slab
      BY <2>4, <2>6, IsSlab
    <2> QED  BY <1>2, <2>3, <2>5
  <1>5. PICK w : w = PutSlab(st, p, s)
    OBVIOUS
  <1>6. /\ w \in States /\ w.slab[p] = s /\ \A d \in Container : d # p => w.slab[d] = st.slab[d]
    BY <1>0, <1>4, <1>5, PutSlabIs
  <1>7. Retypes(Contents(st), Contents(w), p, type)
    <2>1. Contents(w) \in Programs /\ Contents(st)[p] # None
      BY <1>0, <1>6, ContentsAre
    <2>2. ASSUME NEW d \in Container, d # p PROVE Contents(w)[d] = Contents(st)[d]
      <3>1. SameHeld(st, w, d)
        BY <1>6, <2>2 DEF SameHeld
      <3> QED  BY <1>0, <1>6, <3>1, SameElems
    <2>3. Contents(w)[p] = [kind |-> s.kind, type |-> s.type,
                            elems |-> [x \in DOMAIN s.elems |-> AsValue(s.elems[x])]]
      BY <1>0, <1>4, <1>5, PutHolds
    <2>4. Contents(st)[p] = [kind |-> t.kind, type |-> t.type,
                             elems |-> [x \in DOMAIN t.elems |-> AsValue(t.elems[x])]]
      BY <1>0, <1>1, ContentsAre
    <2>5. Contents(w)[p] = [kind |-> Contents(st)[p].kind, type |-> type,
                            elems |-> Contents(st)[p].elems]
      BY <1>3, <2>3, <2>4
    <2> QED  BY <2>1, <2>2, <2>5 DEF Retypes
  <1>8. Nest(Contents(w))
    <2>1. PICK k, k2 : k = Contents(st) /\ k2 = Contents(w)
      OBVIOUS
    <2> QED  BY <1>0, <1>7, <2>1, RetypeNests
  <1>9. PrefixSize(s) = PrefixSize(t)
    BY <1>3 DEF PrefixSize
  <1>10. /\ SlabElems(w, p) = s.elems /\ SlabElems(st, p) = t.elems /\ SlabsIn(w, p) = SlabsIn(st, p)
    <2>1. SlabElems(w, p) = s.elems /\ SlabElems(st, p) = t.elems
      BY <1>0, <1>1, <1>4, <1>6, NoneIsNot DEF SlabElems
    <2> QED  BY <1>3, <2>1 DEF SlabsIn
  <1>11. ASSUME NEW x \in DOMAIN t.elems, IsChild(t.elems[x])
         PROVE  t.elems[x].id # p /\ w.slab[t.elems[x].id] = st.slab[t.elems[x].id]
    <2>1. t.elems[x].id \in Container
      BY <1>11, SlabIs, ElementIs
    <2>2. Place(Contents(st), p, x, t.elems[x].id)
      BY <1>0, <1>10, <1>11, PlaceInSlab
    <2>3. t.elems[x].id # p
      BY <1>0, <2>1, <2>2, ClearOfKids
    <2> QED  BY <1>6, <2>1, <2>3
  <1>12. ElementsFit(st, w, p, None)
    <2>1. ASSUME NEW x \in DOMAIN s.elems, IsChild(s.elems[x])
          PROVE  s.elems[x].id # None /\ \E y \in DOMAIN t.elems : t.elems[y] = s.elems[x]
      <3>1. s.elems[x].id \in Container
        BY <1>4, <2>1, SlabIs, ElementIs
      <3> QED  BY <1>3, <3>1, NoneIsNot
    <2> QED  BY <1>10, <2>1 DEF ElementsFit
  <1>13. \A x \in DOMAIN t.elems : ByteSize(w, t.elems[x]) = ByteSize(st, t.elems[x])
    <2> TAKE x \in DOMAIN t.elems
    <2>1. t.elems[x].tag = "slab" => IsChild(t.elems[x])
      BY DEF IsChild
    <2>2. PICK e \in Element : e = t.elems[x]
      BY SlabIs
    <2> QED  BY <1>11, <2>1, <2>2, SameByteSize
  <1>14. SizesIn(w, p)
    <2>1. /\ SizeIs(st, p)
          /\ t.kind = "map" => DOMAIN t.cached = DOMAIN t.elems
          /\ t.kind = "map" =>
               \A x \in DOMAIN t.elems : t.cached[x] = ElementOverhead + ByteSize(st, t.elems[x])
      <3>1. None \notin SlabsIn(st, p)
        BY NoneIsNot DEF SlabsIn
      <3>2. \A x \in DOMAIN t.elems : ~ (t.elems[x].tag = "slab" /\ t.elems[x].id = None)
        BY SlabIs, ElementIs, NoneIsNot DEF IsChild
      <3> QED  BY <1>0, <1>1, <3>1, <3>2 DEF Sound, SizesFit
    <2>2. SumSizes(w, t.elems) = SumSizes(st, t.elems)
      <3>1. [x \in DOMAIN t.elems |-> ByteSize(w, t.elems[x])]
               = [x \in DOMAIN t.elems |-> ByteSize(st, t.elems[x])]
        BY <1>13
      <3> QED  BY <3>1 DEF SumSizes
    <2>3. SizeIs(w, p)
      BY <1>1, <1>3, <1>6, <1>9, <2>1, <2>2 DEF SizeIs
    <2> QED  BY <1>3, <1>6, <1>13, <2>1, <2>3 DEF SizesIn
  <1>15. None # p /\ Prepared(st, st, None)
    BY NoneIsNot DEF Prepared
  <1>16. Ready(st, None, {}, st, None, p, s, {})
    BY <1>0, <1>1, <1>3, <1>4, <1>5, <1>8, <1>10, <1>12, <1>14, <1>15 DEF Ready
  <1> QED  BY <1>1, <1>3, <1>4, <1>5, <1>7, <1>9, <1>16

\* SetType.
LEMMA SetTypeCall ==
    ASSUME NEW st, Whole(st), NEW p \in Container, st.slab[p] # None, st.handle[p] # None,
           NEW type \in Types
    PROVE  LET r == SetTypeInfo(st, p, type)
           IN Whole(r) /\ Retypes(Contents(st), Contents(r), p, type)
  <1>0. /\ st \in States /\ Nest(Contents(st)) /\ Contents(st) \in Programs /\ Sound(st, None, {})
        /\ Handled(Contents(st), st.handle, {}, {}) /\ st.slab[p] \in Slab
    BY WholeIs, StateIs
  <1>1. PICK s : s = Retyped(st.slab[p], type)
    OBVIOUS
  <1>2. PICK w : w = PutSlab(st, p, s)
    OBVIOUS
  <1>3. PICK r : r = storeIfNotInlined(w, p)
    OBVIOUS
  <1>4. /\ Ready(st, None, {}, st, None, p, s, {})
        /\ Retypes(Contents(st), Contents(w), p, type)
        /\ s.inlined = st.slab[p].inlined /\ s.kind = st.slab[p].kind /\ s.size = st.slab[p].size
        /\ s \in Slab /\ PrefixSize(s) = PrefixSize(st.slab[p])
    BY <1>1, <1>2, RetypeReady
  <1>5. /\ Sound(r, p, {}) /\ r.slab = w.slab /\ r.handle = st.handle /\ Contents(r) = Contents(w)
        /\ \A d \in Container : d # p => r.slab[d] = st.slab[d]
    <2>1. \A d \in Container : d # None
      BY NoneIsNot
    <2>2. /\ Sound(r, p, {}) /\ r.slab = w.slab /\ r.handle = st.handle
          /\ Contents(r) = Contents(w)
          /\ \A d \in Container : d \notin {p, None} => r.slab[d] = st.slab[d]
      BY <1>2, <1>3, <1>4, PutSound
    <2> QED  BY <2>1, <2>2
  <1>6. w.slab[p] = s /\ w \in States
    BY <1>0, <1>2, <1>4, PutSlabIs
  <1>7. Handled(Contents(r), r.handle, {}, {}) /\ Nest(Contents(r))
    <2>1. PICK k, k2, h : k = Contents(st) /\ k2 = Contents(w) /\ h = st.handle
      OBVIOUS
    <2>2. Handled(k2, h, {}, {}) /\ Nest(k2)
      BY <1>0, <1>4, <2>1, RetypeNests
    <2> QED  BY <1>5, <2>1, <2>2
  <1>8. w = [st EXCEPT !.slab[p].type = type]
    BY <1>0, <1>1, <1>2, StateIs DEF PutSlab, Retyped
  <1>9. SetTypeInfo(st, p, type) = IF s.inlined THEN notifyParentIfNeeded(w, p) ELSE storeSlab(w, p)
    BY <1>6, <1>8 DEF SetTypeInfo
  <1>10. CASE s.inlined
    <2>1. r = w
      BY <1>3, <1>6, <1>10 DEF storeIfNotInlined
    <2>2. Telling(w, p, {}, {}, {}, {})
      BY <1>5, <1>7, <2>1 DEF Telling, Clear
    <2>3. PICK n : n = notifyParentIfNeeded(w, p)
      OBVIOUS
    <2>4. Told(w, n, {}, {}, {}, {})
      BY <2>2, <2>3, Notify
    <2>5. Whole(n) /\ Contents(n) = Contents(w)
      BY <2>4 DEF Told, Whole, Kept
    <2> QED  BY <1>4, <1>9, <1>10, <2>3, <2>5
  <1>11. CASE ~ s.inlined
    <2>1. r = storeSlab(w, p)
      BY <1>3, <1>6, <1>11 DEF storeIfNotInlined
    <2>2. ASSUME NEW q \in Container, NEW x \in DOMAIN SlabElems(r, q),
                 IsChild(SlabElems(r, q)[x]), SlabElems(r, q)[x].id = p
          PROVE  ~ Inlinable(r.slab[p], MaxInlineSize[r.slab[q].kind] - SlabElems(r, q)[x].wrap)
      <3>1. r \in States
        BY <1>5 DEF Sound
      <3>2. Place(Contents(r), q, x, p)
        BY <2>2, <3>1, PlaceInSlab
      <3>3. p # q
        BY <1>7, <3>2, ClearOfKids
      <3>4. r.slab[q] = st.slab[q] /\ SlabElems(r, q) = SlabElems(st, q)
        BY <1>5, <3>3 DEF SlabElems
      <3>5. st.slab[q] # None /\ SlabElems(st, q) = st.slab[q].elems
        BY <1>0, <2>2, <3>4, SlabElemsAre
      <3>6. SizesFit(st, None) /\ p # None
        BY <1>0, NoneIsNot DEF Sound
      <3>7. PICK max : max = MaxInlineSize[st.slab[q].kind] - SlabElems(st, q)[x].wrap
        OBVIOUS
      <3>8. ~ Inlinable(st.slab[p], max)
        <4>1. \A z \in DOMAIN st.slab[q].elems :
                LET d == st.slab[q].elems[z]
                IN IsChild(d) /\ d.id # None =>
                     (st.slab[d.id].inlined
                        <=> Inlinable(st.slab[d.id], MaxInlineSize[st.slab[q].kind] - d.wrap))
          BY <3>5, <3>6 DEF SizesFit
        <4>2. PICK d : d = st.slab[q].elems[x]
          OBVIOUS
        <4>3. /\ x \in DOMAIN st.slab[q].elems /\ IsChild(d) /\ d.id = p /\ d.id # None
              /\ max = MaxInlineSize[st.slab[q].kind] - d.wrap
          BY <2>2, <3>4, <3>5, <3>6, <3>7, <4>2
        <4>4. ~ st.slab[p].inlined
          BY <1>4, <1>11
        <4> QED  BY <4>1, <4>2, <4>3, <4>4
      <3>9. s.size - PrefixSize(s) = st.slab[p].size - PrefixSize(st.slab[p])
        BY <1>4
      <3>10. Inlinable(s, max) = Inlinable(st.slab[p], max)
        <4>1. PICK t \in Slab : t = st.slab[p]
          BY <1>0
        <4> QED  BY <1>4, <3>9, <4>1, SameInlinable
      <3> QED  BY <1>5, <1>6, <3>4, <3>7, <3>8, <3>10
    <2>3. ~ r.slab[p].inlined
      BY <1>5, <1>6, <1>11
    <2>4. Sound(r, None, {})
      BY <1>5, <2>2, <2>3, Settle
    <2>5. Whole(r)
      BY <1>7, <2>4 DEF Whole
    <2> QED  BY <1>4, <1>5, <1>9, <1>11, <2>1, <2>5
  <1> QED  BY <1>10, <1>11

-----------------------------------------------------------------------------
(* New, and PopIterate.                                                    *)

\* Nothing adds up to nothing.
LEMMA NothingAddsUp ==
    ASSUME NEW s \in Seq(Nat), \A i \in 1..Len(s) : s[i] = 0
    PROVE  Total(s) = 0
  <1>1. Len(s) \in Nat
    BY LenProperties
  <1>2. /\ Sums(s) \in [0..Len(s) -> Nat] /\ Sums(s)[0] = 0
        /\ \A i \in 1..Len(s) : Sums(s)[i] = Sums(s)[i-1] + s[i]
    BY SumsDef
  <1>0. PICK n \in Nat : n = Len(s)
    BY <1>1
  <1>3. PICK f : n = Len(s) /\ f = Sums(s)
    BY <1>0
  <1>4. PICK S : S = {i \in 0..n : f[i] = 0}
    OBVIOUS
  <1>5. 0 \in S
    BY <1>2, <1>3, <1>4
  <1>6. ASSUME NEW i \in 0..n, i < n, i \in S PROVE i + 1 \in S
    <2>1. i + 1 \in 1..n /\ (i + 1) - 1 = i /\ i + 1 \in 0..n
      BY <1>6
    <2>2. f[i + 1] = f[i] + s[i + 1] /\ s[i + 1] = 0
      BY <1>2, <1>3, <2>1
    <2>3. f[i] = 0
      BY <1>4, <1>6
    <2> QED  BY <1>4, <2>1, <2>2, <2>3
  <1>7. \A i \in 0..n : i \in S
    BY <1>5, <1>6, UpTo
  <1>8. f[n] = 0
    BY <1>4, <1>7
  <1> QED  BY <1>3, <1>8 DEF Total

\* An empty slab has the size of its prefix.
LEMMA EmptySizes ==
    ASSUME NEW st
    PROVE  SumSizes(st, <<>>) = 0 /\ SumCached(<<>>) = 0
  <1>1. PICK s : s = [x \in DOMAIN << >> |-> ByteSize(st, << >>[x])]
    OBVIOUS
  <1>2. s = << >>
    BY <1>1
  <1>3. s \in Seq(Nat) /\ Len(s) = 0
    BY <1>2
  <1>4. Total(s) = 0
    <2>1. \A i \in 1..Len(s) : s[i] = 0
      BY <1>3
    <2> QED  BY <1>3, <2>1, NothingAddsUp
  <1>5. PICK t : t = [i \in 1..Len(KeyOrder) |->
                        IF KeyOrder[i] \in DOMAIN << >> THEN << >>[KeyOrder[i]] ELSE 0]
    OBVIOUS
  <1>6. t \in Seq(Nat) /\ \A i \in 1..Len(t) : t[i] = 0
    <2>1. \A i \in 1..Len(KeyOrder) : t[i] = 0
      BY <1>5
    <2>2. Len(KeyOrder) \in Nat
      BY KeyOrderIs
    <2>3. t \in [1..Len(KeyOrder) -> Nat]
      BY <1>5
    <2>4. t \in Seq(Nat) /\ Len(t) = Len(KeyOrder)
      <3>1. PICK n \in Nat : n = Len(KeyOrder)
        BY <2>2
      <3> QED  BY <2>3, <3>1
    <2> QED  BY <2>1, <2>4
  <1>7. Total(t) = 0
    BY <1>6, NothingAddsUp
  <1> QED  BY <1>1, <1>4, <1>5, <1>7 DEF SumSizes, SumCached

\* What is below c is the same when edges agree on a closed set that has c.
LEMMA BelowAgree ==
    ASSUME NEW edges \in [Container -> SUBSET Container],
           NEW other \in [Container -> SUBSET Container],
           NEW S \in SUBSET Container, NEW c \in S,
           \A x \in S : other[x] = edges[x] /\ edges[x] \subseteq S
    PROVE  Below(other, c) = Below(edges, c) /\ Below(edges, c) \subseteq S
  <1>1. c \in Container
    OBVIOUS
  <1>2. Below(edges, c) \subseteq Below(other, c) \cap S
    <2>1. PICK T \in SUBSET Container : T = Below(other, c) \cap S
      OBVIOUS
    <2>2. edges[c] \subseteq T /\ \A x \in T : edges[x] \subseteq T
      BY <1>1, <2>1, BelowIs
    <2> QED  BY <1>1, <2>1, <2>2, BelowIs
  <1>3. Below(other, c) \subseteq Below(edges, c)
    <2>1. PICK T \in SUBSET Container : T = Below(edges, c) \cap S
      OBVIOUS
    <2>2. other[c] \subseteq T /\ \A x \in T : other[x] \subseteq T
      BY <1>1, <2>1, BelowIs
    <2> QED  BY <1>1, <2>1, <2>2, BelowIs
  <1> QED  BY <1>2, <1>3

\* The containers in gone are no more and c becomes an empty slab of its own:
\* they are only in one another.
Emptied(st, r, c, gone) ==
    /\ Sound(st, None, {}) /\ r \in States
    /\ c \in Container /\ gone \in SUBSET Container /\ c \notin gone
    /\ \A d \in Container : d \notin gone \cup {c} =>
          r.slab[d] = st.slab[d] /\ r.stored[d] = st.stored[d]
    /\ \A d \in gone : r.slab[d] = None /\ r.stored[d] = None
    /\ r.slab[c] # None /\ r.slab[c].elems = <<>> /\ r.slab[c].cached = <<>>
    /\ ~ r.slab[c].inlined /\ r.slab[c].size = PrefixSize(r.slab[c])
    /\ r.stored[c] = Encode(r, c)
    /\ \A p \in Container : p \notin gone \cup {c} =>
          \A d \in gone \cup {c} : d \notin Kids(Contents(st), p)
    /\ \A p \in gone \cup {c} : SlabsIn(st, p) \subseteq gone

\* What is left.
Remains(st, r, c, gone) ==
    /\ SlabElems(r, c) = <<>> /\ \A p \in gone : SlabElems(r, p) = <<>>
    /\ \A p \in Container : p \notin gone \cup {c} =>
          SlabElems(r, p) = SlabElems(st, p) /\ Contents(r)[p] = Contents(st)[p]
    /\ Contents(r)[c] = [kind |-> r.slab[c].kind, type |-> r.slab[c].type, elems |-> <<>>]
    /\ \A d \in gone : Contents(r)[d] = None
    /\ \A p \in Container : \A x \in DOMAIN SlabElems(r, p) :
          LET e == SlabElems(r, p)[x] IN
            /\ p \notin gone \cup {c} /\ e \in Element
            /\ IsChild(e) => /\ e.id \in Container /\ e.id \notin gone \cup {c}
                             /\ r.slab[e.id] = st.slab[e.id] /\ st.slab[e.id] # None

\* It is as it was.
LEMMA EmptiedIs ==
    ASSUME NEW st, NEW r, NEW c, NEW gone, Emptied(st, r, c, gone)
    PROVE  Remains(st, r, c, gone)
  <1>0. /\ st \in States /\ r \in States /\ Nest(Contents(st)) /\ c \in Container
        /\ gone \in SUBSET Container
    BY DEF Emptied, Sound
  <1>1. SlabElems(r, c) = <<>> /\ \A p \in gone : SlabElems(r, p) = <<>>
    BY DEF Emptied, SlabElems
  <1>2. \A p \in Container : p \notin gone \cup {c} =>
           SlabElems(r, p) = SlabElems(st, p) /\ Contents(r)[p] = Contents(st)[p]
    <2> TAKE p \in Container
    <2> HAVE p \notin gone \cup {c}
    <2>1. SameHeld(st, r, p)
      BY DEF Emptied, SameHeld
    <2> QED  BY <1>0, <2>1, SameElems
  <1>3. Contents(r)[c] = [kind |-> r.slab[c].kind, type |-> r.slab[c].type, elems |-> <<>>]
    <2>1. r.slab[c] # None /\ r.slab[c].elems = <<>>
      BY DEF Emptied
    <2>2. Contents(r)[c] = [kind |-> r.slab[c].kind, type |-> r.slab[c].type,
                            elems |-> [x \in DOMAIN r.slab[c].elems |->
                                         AsValue(r.slab[c].elems[x])]]
      BY <1>0, <2>1, ContentsAre
    <2>3. [x \in DOMAIN << >> |-> AsValue(<< >>[x])] = << >>
      OBVIOUS
    <2> QED  BY <2>1, <2>2, <2>3
  <1>4. \A d \in gone : Contents(r)[d] = None
    BY <1>0, ContentsAre DEF Emptied
  <1>5. ASSUME NEW p \in Container, NEW x \in DOMAIN SlabElems(r, p)
        PROVE  LET e == SlabElems(r, p)[x] IN
                   /\ p \notin gone \cup {c} /\ e \in Element
                   /\ IsChild(e) => /\ e.id \in Container /\ e.id \notin gone \cup {c}
                                    /\ r.slab[e.id] = st.slab[e.id] /\ st.slab[e.id] # None
    <2>1. p \notin gone \cup {c}
      BY <1>1
    <2>2. PICK e : e = SlabElems(r, p)[x]
      OBVIOUS
    <2>3. e \in Element
      BY <1>0, <2>2, SlabElemsAre
    <2>4. ASSUME IsChild(e)
          PROVE  /\ e.id \in Container /\ e.id \notin gone \cup {c}
                 /\ r.slab[e.id] = st.slab[e.id] /\ st.slab[e.id] # None
      <3>1. SlabElems(r, p) = SlabElems(st, p)
        BY <1>2, <2>1
      <3>2. e.id \in Container
        BY <2>3, <2>4, ElementIs
      <3>3. Place(Contents(st), p, x, e.id)
        BY <1>0, <2>2, <2>4, <3>1, PlaceInSlab
      <3>4. e.id \in Kids(Contents(st), p)
        BY <3>2, <3>3, KidsAre
      <3>5. Contents(st)[e.id] # None
        <4>1. x \in DOMAIN Elems(Contents(st), p)
          BY <3>3 DEF Place
        <4> QED  BY <1>0, <3>2, <3>3, <4>1 DEF Nest, ChildrenExist
      <3>6. e.id \notin gone \cup {c}
        BY <2>1, <3>4 DEF Emptied
      <3>7. st.slab[e.id] # None
        BY <1>0, <3>2, <3>5, ContentsAre
      <3> QED  BY <3>2, <3>6, <3>7 DEF Emptied
    <2> QED  BY <2>1, <2>2, <2>3, <2>4
  <1> QED  BY <1>1, <1>2, <1>3, <1>4, <1>5 DEF Remains

\* Containers are still nested.
LEMMA EmptiedNests ==
    ASSUME NEW st, NEW r, NEW c, NEW gone, Emptied(st, r, c, gone)
    PROVE  Nest(Contents(r))
  <1>0. /\ st \in States /\ r \in States /\ Nest(Contents(st)) /\ c \in Container
        /\ gone \in SUBSET Container
    BY DEF Emptied, Sound
  <1>7. Remains(st, r, c, gone)
    BY EmptiedIs
  <1>1. PICK k, k2 : k = Contents(st) /\ k2 = Contents(r)
    OBVIOUS
  <1>2. k2 \in Programs
    BY <1>0, <1>1, ContentsAre
  <1>3. ASSUME NEW p \in Container, NEW d, NEW x, Place(k2, p, x, d)
        PROVE  /\ Place(k, p, x, d) /\ k2[d] # None
               /\ x \in DOMAIN Elems(k, p) /\ d \in Container
    <2>1. /\ x \in DOMAIN SlabElems(r, p) /\ IsChild(SlabElems(r, p)[x]) /\ SlabElems(r, p)[x].id = d
      BY <1>0, <1>1, <1>3, PlaceInSlab
    <2>2. /\ d \in Container /\ r.slab[d] # None /\ p \notin gone \cup {c}
      BY <2>1, <1>7 DEF Remains
    <2>3. SlabElems(r, p) = SlabElems(st, p)
      BY <2>2, <1>7 DEF Remains
    <2>4. Place(k, p, x, d)
      BY <1>0, <1>1, <2>1, <2>3, PlaceInSlab
    <2>5. k2[d] # None
      BY <1>0, <1>1, <2>2, ContentsAre
    <2> QED  BY <2>2, <2>4, <2>5 DEF Place
  <1>4. ChildrenExist(k2)
    BY <1>3 DEF ChildrenExist
  <1>5. OnePlace(k2)
    BY <1>0, <1>1, <1>3 DEF OnePlace, Nest
  <1>6. NoCycle(k2)
    <2> SUFFICES ASSUME NEW d \in Container PROVE d \notin Under(k2, d)
      BY DEF NoCycle
    <2>1. PICK edges, less : edges = [p \in Container |-> Kids(k, p)] /\ less = [p \in Container |-> Kids(k2, p)]
      OBVIOUS
    <2>2. edges \in [Container -> SUBSET Container] /\ less \in [Container -> SUBSET Container]
      BY <2>1, KidsAre
    <2>3. \A x \in Container : less[x] \subseteq edges[x]
      <3>1. \A p \in Container : Kids(k2, p) \subseteq Kids(k, p)
        BY <1>3, KidsAre DEF Kids
      <3> QED  BY <2>1, <3>1
    <2>4. Below(less, d) \subseteq Below(edges, d)
      BY <2>2, <2>3, BelowLess
    <2> QED  BY <1>0, <1>1, <2>1, <2>4 DEF Nest, NoCycle, Under
  <1> QED  BY <1>1, <1>2, <1>4, <1>5, <1>6 DEF Nest

\* Sizes still add up.
LEMMA EmptiedSizes ==
    ASSUME NEW st, NEW r, NEW c, NEW gone, Emptied(st, r, c, gone)
    PROVE  TagsFit(r) /\ SizesFit(r, None)
  <1>0. /\ st \in States /\ r \in States /\ c \in Container /\ gone \in SUBSET Container
        /\ TagsFit(st) /\ SizesFit(st, None)
    BY DEF Emptied, Sound
  <1>1. Remains(st, r, c, gone)
    BY EmptiedIs
  <1>2. TagsFit(r)
    <2> SUFFICES ASSUME NEW p \in Container, NEW x \in DOMAIN SlabElems(r, p),
                        NEW e, e = SlabElems(r, p)[x], IsChild(e)
                 PROVE  e.tag = "slab" <=> r.slab[e.id].inlined
      BY DEF TagsFit
    <2>1. p \notin gone \cup {c} /\ r.slab[e.id] = st.slab[e.id]
      BY <1>1 DEF Remains
    <2>2. SlabElems(r, p) = SlabElems(st, p)
      BY <1>1, <2>1 DEF Remains
    <2> QED  BY <1>0, <2>1, <2>2 DEF TagsFit
  <1>3. SizesFit(r, None)
    <2> SUFFICES ASSUME NEW p \in Container, NEW s, s = r.slab[p], s # None
                 PROVE  /\ s.size >= PrefixSize(s)
                        /\ SizeIs(r, p)
                        /\ s.kind = "map" => DOMAIN s.cached = DOMAIN s.elems
                        /\ \A x \in DOMAIN s.elems :
                              LET e == s.elems[x] IN
                                /\ s.kind = "map" => s.cached[x] = ElementOverhead + ByteSize(r, e)
                                /\ IsChild(e) =>
                                      (r.slab[e.id].inlined
                                         <=> Inlinable(r.slab[e.id], MaxInlineSize[s.kind] - e.wrap))
      BY DEF SizesFit
    <2>0. s \in Slab /\ p \notin gone
      BY <1>0, StateIs DEF Emptied
    <2>1. CASE p = c
      <3>1. s.elems = <<>> /\ s.cached = <<>> /\ s.size = PrefixSize(s)
        BY <2>1 DEF Emptied
      <3>2. PrefixSize(s) \in Nat /\ s.kind \in Kind
        BY <2>0, PrefixIs, SlabIs
      <3>3. SumSizes(r, s.elems) = 0 /\ SumCached(s.cached) = 0
        BY <3>1, EmptySizes
      <3>4. SizeIs(r, p)
        BY <3>1, <3>2, <3>3 DEF SizeIs
      <3> QED  BY <3>1, <3>2, <3>4
    <2>2. CASE p # c
      <3>1. s = st.slab[p]
        BY <2>0, <2>2 DEF Emptied
      <3>2. SlabElems(r, p) = s.elems /\ SlabElems(st, p) = s.elems
        BY <3>1 DEF SlabElems
      <3>3. ASSUME NEW x \in DOMAIN s.elems
            PROVE  /\ s.elems[x] \in Element
                   /\ IsChild(s.elems[x]) => /\ s.elems[x].id \in Container
                                             /\ r.slab[s.elems[x].id] = st.slab[s.elems[x].id]
        BY <1>1, <3>2 DEF Remains
      <3>4. \A x \in DOMAIN s.elems : ByteSize(r, s.elems[x]) = ByteSize(st, s.elems[x])
        <4> TAKE x \in DOMAIN s.elems
        <4>1. PICK e \in Element : e = s.elems[x]
          BY <3>3
        <4>2. e.tag = "slab" => IsChild(e)
          BY DEF IsChild
        <4> QED  BY <3>3, <4>1, <4>2, SameByteSize
      <3>5. \A x \in DOMAIN s.elems : IsChild(s.elems[x]) => s.elems[x].id # None
        BY <3>3, NoneIsNot
      <3>6. None \notin SlabsIn(st, p)
        BY NoneIsNot DEF SlabsIn
      <3>7. /\ s.size >= PrefixSize(s) /\ SizeIs(st, p)
            /\ s.kind = "map" => DOMAIN s.cached = DOMAIN s.elems
        BY <1>0, <3>1, <3>6 DEF SizesFit
      <3>8. ASSUME NEW x \in DOMAIN s.elems
            PROVE  /\ s.kind = "map" => s.cached[x] = ElementOverhead + ByteSize(st, s.elems[x])
                   /\ IsChild(s.elems[x]) =>
                        (st.slab[s.elems[x].id].inlined
                           <=> Inlinable(st.slab[s.elems[x].id], MaxInlineSize[s.kind] - s.elems[x].wrap))
        <4>1. s.elems[x].tag = "slab" => IsChild(s.elems[x])
          BY DEF IsChild
        <4> QED  BY <1>0, <3>1, <3>5, <4>1 DEF SizesFit
      <3>9. SumSizes(r, s.elems) = SumSizes(st, s.elems)
        <4>1. [x \in DOMAIN s.elems |-> ByteSize(r, s.elems[x])]
                 = [x \in DOMAIN s.elems |-> ByteSize(st, s.elems[x])]
          BY <3>4
        <4> QED  BY <4>1 DEF SumSizes
      <3>10. SizeIs(r, p)
        BY <3>1, <3>7, <3>9 DEF SizeIs
      <3>11. ASSUME NEW x \in DOMAIN s.elems
             PROVE  /\ s.kind = "map" => s.cached[x] = ElementOverhead + ByteSize(r, s.elems[x])
                    /\ IsChild(s.elems[x]) =>
                        (r.slab[s.elems[x].id].inlined
                           <=> Inlinable(r.slab[s.elems[x].id], MaxInlineSize[s.kind] - s.elems[x].wrap))
        BY <3>3, <3>4, <3>8
      <3> QED  BY <3>7, <3>10, <3>11
    <2> QED  BY <2>1, <2>2
  <1> QED  BY <1>2, <1>3

\* Slabs are still stored.
LEMMA EmptiedSaved ==
    ASSUME NEW st, NEW r, NEW c, NEW gone, Emptied(st, r, c, gone)
    PROVE  Saved(r, None)
  <1>0. /\ st \in States /\ r \in States /\ c \in Container /\ gone \in SUBSET Container
        /\ Saved(st, None)
    BY DEF Emptied, Sound
  <1>1. Remains(st, r, c, gone)
    BY EmptiedIs
  <1> SUFFICES ASSUME NEW d \in Container
               PROVE  IF r.slab[d] # None /\ ~ r.slab[d].inlined
                        THEN r.stored[d] = Encode(r, d) ELSE r.stored[d] = None
    BY DEF Saved
  <1>2. CASE d \in gone
    BY <1>2 DEF Emptied
  <1>3. CASE d = c
    BY <1>3 DEF Emptied
  <1>4. CASE d \notin gone \cup {c}
    <2>1. r.slab[d] = st.slab[d] /\ r.stored[d] = st.stored[d]
      BY <1>4 DEF Emptied
    <2>2. None \notin InlinedIn(st, d)
      BY <1>0, InlinedIs, NoneIsNot
    <2>3. IF st.slab[d] # None /\ ~ st.slab[d].inlined
            THEN st.stored[d] = Encode(st, d) ELSE st.stored[d] = None
      BY <1>0, <2>2 DEF Saved
    <2>4. PICK S \in SUBSET Container : S = Container \ (gone \cup {c})
      OBVIOUS
    <2>5. \A x \in S : r.slab[x] = st.slab[x] /\ SlabsIn(r, x) = SlabsIn(st, x) /\ SlabsIn(st, x) \subseteq S
      <3> TAKE x \in S
      <3>1. x \in Container /\ x \notin gone \cup {c}
        BY <2>4
      <3>2. SlabElems(r, x) = SlabElems(st, x) /\ r.slab[x] = st.slab[x]
        BY <1>1, <3>1 DEF Remains, Emptied
      <3>3. SlabsIn(r, x) = SlabsIn(st, x)
        BY <3>2 DEF SlabsIn
      <3>4. SlabsIn(st, x) \subseteq Kids(Contents(st), x) /\ SlabsIn(st, x) \subseteq Container
        BY <1>0, <3>1, InnerIs DEF SlabsIn
      <3>5. \A y \in gone \cup {c} : y \notin Kids(Contents(st), x)
        BY <3>1 DEF Emptied
      <3> QED  BY <2>4, <3>2, <3>3, <3>4, <3>5
    <2>6. PICK edges, other : edges = Inner(st) /\ other = Inner(r)
      OBVIOUS
    <2>7. /\ edges \in [Container -> SUBSET Container] /\ other \in [Container -> SUBSET Container]
          /\ \A x \in S : other[x] = edges[x] /\ edges[x] \subseteq S
      BY <1>0, <2>5, <2>6, InnerIs
    <2>8. d \in S
      BY <1>4, <2>4
    <2>9. Below(other, d) = Below(edges, d) /\ Below(edges, d) \subseteq S
      BY <2>7, <2>8, BelowAgree
    <2>10. InlinedIn(r, d) = InlinedIn(st, d) /\ InlinedIn(st, d) \subseteq S
      BY <1>0, <2>6, <2>9, InlinedIs
    <2>11. Encode(r, d) = Encode(st, d)
      BY <2>5, <2>8, <2>10 DEF Encode
    <2> QED  BY <2>1, <2>3, <2>11
  <1> QED  BY <1>2, <1>3, <1>4

\* All is well but for handles.
LEMMA EmptiedSound ==
    ASSUME NEW st, NEW r, NEW c, NEW gone, Emptied(st, r, c, gone)
    PROVE  Sound(r, None, {})
  <1>0. /\ st \in States /\ r \in States /\ c \in Container /\ gone \in SUBSET Container
        /\ InlinedHavePlace(st, {})
    BY DEF Emptied, Sound
  <1>1. Remains(st, r, c, gone)
    BY EmptiedIs
  <1>2. InlinedHavePlace(r, {})
    <2> SUFFICES ASSUME NEW d \in Container, r.slab[d] # None, r.slab[d].inlined
                 PROVE  \E p \in Container : d \in SlabsIn(r, p)
      BY DEF InlinedHavePlace
    <2>1. d \notin gone \cup {c} /\ r.slab[d] = st.slab[d]
      BY DEF Emptied
    <2>2. PICK p \in Container : d \in SlabsIn(st, p)
      BY <1>0, <2>1 DEF InlinedHavePlace
    <2>3. p \notin gone \cup {c}
      BY <2>1, <2>2 DEF Emptied
    <2>4. SlabElems(r, p) = SlabElems(st, p)
      BY <1>1, <2>3 DEF Remains
    <2> QED  BY <2>2, <2>4 DEF SlabsIn
  <1> QED  BY <1>0, <1>2, EmptiedNests, EmptiedSizes, EmptiedSaved DEF Sound

\* Those in gone have no handle, and no one looks for a parent there.
Releases(st, r, c, gone) ==
    /\ Emptied(st, r, c, gone) /\ Handled(Contents(st), st.handle, {}, {})
    /\ \A d \in gone : r.handle[d] = None
    /\ \A d \in Container : d \notin gone \cup {c} =>
          /\ r.handle[d] = None <=> st.handle[d] = None
          /\ st.handle[d] # None =>
                /\ r.handle[d].index = st.handle[d].index
                /\ r.handle[d].updater =
                     IF st.handle[d].updater # None /\ st.handle[d].updater.parent \in gone
                       THEN None ELSE st.handle[d].updater
    /\ r.handle[c] # None /\ DOMAIN r.handle[c].index = {}
    /\ r.handle[c].updater # None =>
          r.handle[c].updater.parent \in Container /\ r.handle[c].updater.parent \notin gone
          /\ r.slab[r.handle[c].updater.parent] # None

\* All is well then.
LEMMA ReleasesAll ==
    ASSUME NEW st, NEW r, NEW c, NEW gone, Releases(st, r, c, gone)
    PROVE  Whole(r)
  <1>0. /\ st \in States /\ r \in States /\ Nest(Contents(st)) /\ c \in Container
        /\ gone \in SUBSET Container /\ Emptied(st, r, c, gone)
        /\ Handled(Contents(st), st.handle, {}, {})
    BY DEF Releases, Emptied, Sound
  <1>1. Remains(st, r, c, gone)
    BY <1>0, EmptiedIs
  <1>2. PICK k, k2, h, h2 : k = Contents(st) /\ k2 = Contents(r) /\ h = st.handle /\ h2 = r.handle
    OBVIOUS
  <1>3. h \in Handles /\ h2 \in Handles /\ k \in Programs /\ k2 \in Programs
    BY <1>0, <1>2, StateIs, ContentsAre
  <1>4. /\ Known(h) /\ Linked(k, h, {}) /\ Indexed(k, h, {}) /\ UpdatersLead(k, h)
    BY <1>0, <1>2 DEF Handled
  <1>5. /\ \A d \in gone : h2[d] = None
        /\ \A d \in Container : d \notin gone \cup {c} =>
              /\ h2[d] = None <=> h[d] = None
              /\ h[d] # None =>
                    /\ h2[d].index = h[d].index
                    /\ h2[d].updater = IF h[d].updater # None /\ h[d].updater.parent \in gone
                                         THEN None ELSE h[d].updater
        /\ h2[c] # None /\ DOMAIN h2[c].index = {}
    BY <1>2 DEF Releases
  <1>6. \A p \in Container : p \notin gone \cup {c} => k2[p] = k[p] /\ Elems(k2, p) = Elems(k, p)
    BY <1>1, <1>2 DEF Remains, Elems
  <1>7. ASSUME NEW p \in Container, NEW d \in Container, NEW x, Place(k2, p, x, d)
        PROVE  p \notin gone \cup {c} /\ d \notin gone \cup {c}
    <2>1. /\ x \in DOMAIN SlabElems(r, p) /\ IsChild(SlabElems(r, p)[x]) /\ SlabElems(r, p)[x].id = d
      BY <1>0, <1>2, <1>7, PlaceInSlab
    <2> QED  BY <1>1, <2>1 DEF Remains
  <1>8. ASSUME NEW p \in Container, p \notin gone \cup {c}, NEW d \in Container, NEW x, Place(k, p, x, d)
        PROVE  d \notin gone \cup {c} /\ Place(k2, p, x, d)
    <2>1. d \in Kids(k, p)
      BY <1>8, KidsAre
    <2>2. d \notin gone \cup {c}
      BY <1>0, <1>2, <1>8, <2>1 DEF Emptied
    <2> QED  BY <1>6, <1>8, <2>2 DEF Place
  <1>9. Linked(k2, h2, {})
    <2> SUFFICES ASSUME NEW p \in Container, NEW d \in Container, NEW x \in DOMAIN Elems(k2, p),
                        Place(k2, p, x, d), h2[d] # None
                 PROVE  /\ h2[p] # None
                        /\ h2[d].updater = [parent |-> p, wrap |-> Elems(k2, p)[x].wrap,
                                            key |-> IF k2[p].kind = "array" THEN None ELSE x]
                        /\ k2[p].kind = "array" => d \in DOMAIN h2[p].index /\ h2[p].index[d] = x
      BY DEF Linked
    <2>1. p \notin gone \cup {c} /\ d \notin gone \cup {c}
      BY <1>7
    <2>2. k2[p] = k[p] /\ Elems(k2, p) = Elems(k, p) /\ Place(k, p, x, d) /\ h[d] # None
      BY <1>5, <1>6, <2>1 DEF Place
    <2>3. x \in DOMAIN Elems(k, p)
      BY <2>2
    <2>4. /\ h[p] # None
          /\ h[d].updater = [parent |-> p, wrap |-> Elems(k, p)[x].wrap,
                             key |-> IF k[p].kind = "array" THEN None ELSE x]
          /\ k[p].kind = "array" => d \in DOMAIN h[p].index /\ h[p].index[d] = x
      BY <1>4, <2>2, <2>3 DEF Linked
    <2>5. h[d].updater.parent = p
      BY <2>4
    <2>6. h2[d].updater = h[d].updater
      BY <1>5, <2>1, <2>2, <2>5
    <2>7. h2[p] # None /\ h2[p].index = h[p].index
      BY <1>5, <2>1, <2>4
    <2> QED  BY <2>2, <2>4, <2>6, <2>7
  <1>10. Indexed(k2, h2, {}) /\ Known(h2)
    <2> SUFFICES ASSUME NEW p \in Container, h2[p] # None
                 PROVE  /\ k2[p] # None
                        /\ \A d \in DOMAIN h2[p].index :
                              /\ k2[p].kind = "array" /\ Place(k2, p, h2[p].index[d], d)
                              /\ d \in Container /\ h2[d] # None
      BY DEF Indexed, Known
    <2>1. p \notin gone
      BY <1>5
    <2>2. CASE p = c
      <3>1. k2[c] # None
        BY <1>0, <1>2, ContentsAre DEF Emptied
      <3> QED  BY <1>5, <2>2, <3>1
    <2>3. CASE p # c
      <3>1. h[p] # None /\ h2[p].index = h[p].index /\ k2[p] = k[p]
        BY <1>5, <1>6, <2>1, <2>3
      <3>2. k[p] # None
        BY <1>4, <3>1 DEF Indexed
      <3>3. ASSUME NEW d \in DOMAIN h[p].index
            PROVE  /\ k[p].kind = "array" /\ Place(k2, p, h[p].index[d], d)
                   /\ d \in Container /\ h2[d] # None
        <4>1. k[p].kind = "array" /\ Place(k, p, h[p].index[d], d)
          BY <1>4, <3>1 DEF Indexed
        <4>2. d \in Container /\ h[d] # None
          BY <1>4, <3>1 DEF Known
        <4>3. d \notin gone \cup {c} /\ Place(k2, p, h[p].index[d], d)
          BY <1>8, <2>1, <2>3, <4>1, <4>2
        <4> QED  BY <1>5, <4>1, <4>2, <4>3
      <3> QED  BY <3>1, <3>2, <3>3
    <2> QED  BY <2>2, <2>3
  <1>11. UpdatersLead(k2, h2)
    <2> SUFFICES ASSUME NEW d \in Container, h2[d] # None, h2[d].updater # None
                 PROVE  k2[h2[d].updater.parent] # None
      BY DEF UpdatersLead
    <2>1. CASE d = c
      BY <1>0, <1>2, <2>1, ContentsAre DEF Releases
    <2>2. CASE d # c
      <3>1. d \notin gone \cup {c} /\ h[d] # None
        BY <1>5, <2>2
      <3>2. h2[d].updater = h[d].updater /\ h[d].updater.parent \notin gone
        BY <1>5, <3>1
      <3>3. h[d] \in Handle
        BY <1>3, <3>1 DEF Handles
      <3>4. h[d].updater.parent \in Container
        BY <3>2, <3>3, HandleIs, UpdaterIs
      <3>5. k[h[d].updater.parent] # None
        BY <1>4, <3>1, <3>2 DEF UpdatersLead
      <3>6. k2[c] # None
        BY <1>0, <1>2, ContentsAre DEF Emptied
      <3> QED  BY <1>6, <3>2, <3>4, <3>5, <3>6
    <2> QED  BY <2>1, <2>2
  <1>12. Handled(k2, h2, {}, {})
    BY <1>3, <1>9, <1>10, <1>11 DEF Handled
  <1> QED  BY <1>0, <1>2, <1>12, EmptiedSound DEF Whole

\* An empty slab.
EmptySlab(kind, type, inlined, size) ==
    [kind |-> kind, type |-> type, inlined |-> inlined, size |-> size, elems |-> <<>>, cached |-> <<>>]

\* It is a slab.
LEMMA EmptySlabIs ==
    ASSUME NEW kind \in Kind, NEW type \in Types, NEW inlined \in BOOLEAN, NEW size \in Nat
    PROVE  EmptySlab(kind, type, inlined, size) \in Slab
  <1>1. PICK elems, cached : elems = <<>> /\ cached = <<>>
    OBVIOUS
  <1>2. elems \in Seq(Element) /\ elems \in [{} -> Element] /\ cached \in [{} -> Nat] /\ {} \in SUBSET Key
    BY <1>1
  <1>3. \/ kind = "array" /\ elems \in Seq(Element) /\ cached = <<>>
        \/ /\ kind = "map"
           /\ \E keys \in SUBSET Key : elems \in [keys -> Element]
           /\ \E keys \in SUBSET Key : cached \in [keys -> Nat]
    BY <1>1, <1>2 DEF Kind
  <1>4. [kind |-> kind, type |-> type, inlined |-> inlined, size |-> size,
         elems |-> elems, cached |-> cached] \in Slab
    BY <1>3, IsSlab
  <1> QED  BY <1>1, <1>4 DEF EmptySlab

\* Children still exist when a slab is emptied or is new.
LEMMA EmptyPut ==
    ASSUME NEW st \in States, ChildrenExist(Contents(st)), NEW c \in Container,
           NEW s \in Slab, s.elems = <<>>
    PROVE  /\ PutSlab(st, c, s) \in States /\ ChildrenExist(Contents(PutSlab(st, c, s)))
           /\ SlabElems(PutSlab(st, c, s), c) = <<>>
  <1>1. PICK w : w = PutSlab(st, c, s)
    OBVIOUS
  <1>2. /\ w \in States /\ w.slab[c] = s /\ \A d \in Container : d # c => w.slab[d] = st.slab[d]
    BY <1>1, PutSlabIs
  <1>3. SlabElems(w, c) = <<>> /\ s # None
    BY <1>2, NoneIsNot DEF SlabElems
  <1>4. ASSUME NEW p \in Container, NEW d \in Container, NEW x, Place(Contents(w), p, x, d)
        PROVE  Contents(w)[d] # None
    <2>1. x \in DOMAIN SlabElems(w, p)
      BY <1>2, <1>4, PlaceInSlab
    <2>2. p # c
      BY <1>3, <2>1
    <2>3. SameHeld(st, w, p)
      BY <1>2, <2>2 DEF SameHeld
    <2>4. SlabElems(w, p) = SlabElems(st, p)
      BY <1>2, <2>3, SameElems
    <2>5. Place(Contents(st), p, x, d)
      BY <1>2, <1>4, <2>4, PlaceInSlab
    <2>6. x \in DOMAIN Elems(Contents(st), p)
      BY <2>5 DEF Place
    <2>7. Contents(st)[d] # None
      BY <2>5, <2>6 DEF ChildrenExist
    <2>8. st.slab[d] # None
      BY <2>7, ContentsAre
    <2>9. w.slab[d] # None
      BY <1>2, <1>3, <2>8
    <2> QED  BY <1>2, <2>9, ContentsAre
  <1> QED  BY <1>1, <1>2, <1>3, <1>4 DEF ChildrenExist

\* Nothing is inlined in an empty slab.
LEMMA NothingInlined ==
    ASSUME NEW st \in States, NEW c \in Container, SlabElems(st, c) = <<>>
    PROVE  InlinedIn(st, c) = {}
  <1>1. SlabsIn(st, c) = {}
    BY DEF SlabsIn
  <1>2. PICK edges \in [Container -> SUBSET Container] : edges = Inner(st)
    BY InnerIs
  <1>3. edges[c] = {}
    BY <1>1, <1>2, InnerIs
  <1>4. Below(edges, c) \subseteq {}
    <2>1. PICK S \in SUBSET Container : S = {}
      OBVIOUS
    <2>2. edges[c] \subseteq S /\ \A x \in S : edges[x] \subseteq S
      BY <1>3, <2>1
    <2>3. Below(edges, c) \subseteq S
      BY <2>2, BelowIs
    <2> QED  BY <2>1, <2>3
  <1> QED  BY <1>2, <1>4, InlinedIs

\* A handle on a container without a parent.
LEMMA NoHandleIs ==
    /\ NoHandle \in Handle /\ NoHandle # None /\ NoHandle.updater = None
    /\ NoHandle.index = <<>> /\ DOMAIN NoHandle.index = {}
  <1>1. PICK updater, index : updater = None /\ index = <<>>
    OBVIOUS
  <1>2. index \in [{} -> Nat] /\ {} \in SUBSET Container
    BY <1>1
  <1>3. [updater |-> updater, index |-> index] \in Handle
    BY <1>1, <1>2, IsHandle
  <1>4. NoHandle \in Handle
    BY <1>1, <1>3 DEF NoHandle
  <1> QED  BY <1>4, NoneIsNot DEF NoHandle

\* c is a new container, empty.
Creates(k, k2, c, kind, type) ==
    /\ k[c] = None /\ k2[c] = [kind |-> kind, type |-> type, elems |-> <<>>]
    /\ \A d \in Container : d # c => k2[d] = k[d]

\* NewArray and NewMap.
LEMMA NewCall ==
    ASSUME NEW st, Whole(st), NEW c \in Container, st.slab[c] = None,
           NEW kind \in Kind, NEW type \in Types,
           NEW s, s = EmptySlab(kind, type, FALSE, RootPrefixSize[kind])
    PROVE  LET r == storeSlab([PutSlab(st, c, s) EXCEPT !.handle[c] = NoHandle], c)
           IN Whole(r) /\ Creates(Contents(st), Contents(r), c, kind, type)
  <1>0. /\ st \in States /\ Nest(Contents(st)) /\ Contents(st) \in Programs /\ Sound(st, None, {})
        /\ Handled(Contents(st), st.handle, {}, {}) /\ st.handle \in Handles
        /\ ChildrenExist(Contents(st))
    BY WholeIs DEF Nest
  <1>1. RootPrefixSize[kind] \in Nat
    BY SizesAre
  <1>2. /\ s \in Slab /\ s.elems = <<>> /\ s.cached = <<>> /\ ~ s.inlined /\ s # None
        /\ s.size = PrefixSize(s) /\ s.kind = kind /\ s.type = type
    <2>1. FALSE \in BOOLEAN
      OBVIOUS
    <2>2. s \in Slab
      BY <1>1, <2>1, EmptySlabIs
    <2>3. s.elems = <<>> /\ s.cached = <<>> /\ s.inlined = FALSE /\ s.kind = kind /\ s.type = type
          /\ s.size = RootPrefixSize[kind]
      BY DEF EmptySlab
    <2> QED  BY <2>2, <2>3, NoneIsNot DEF PrefixSize
  <1>3. PICK w : w = PutSlab(st, c, s)
    OBVIOUS
  <1>4. /\ w \in States /\ ChildrenExist(Contents(w)) /\ SlabElems(w, c) = <<>>
        /\ w.slab[c] = s /\ w.handle = st.handle /\ w.stored = st.stored
        /\ \A d \in Container : d # c => w.slab[d] = st.slab[d]
    <2>1. PICK t \in Slab : t = s /\ t.elems = <<>>
      BY <1>2
    <2>2. /\ PutSlab(st, c, t) \in States /\ ChildrenExist(Contents(PutSlab(st, c, t)))
          /\ SlabElems(PutSlab(st, c, t), c) = <<>>
      BY <1>0, <2>1, EmptyPut
    <2>3. /\ PutSlab(st, c, t).slab[c] = t
          /\ \A d \in Container : d # c => PutSlab(st, c, t).slab[d] = st.slab[d]
          /\ PutSlab(st, c, t).handle = st.handle
          /\ PutSlab(st, c, t).stored = st.stored
      BY <1>0, PutSlabIs
    <2> QED  BY <1>3, <2>1, <2>2, <2>3
  <1>5. PICK h2 : h2 = [st.handle EXCEPT ![c] = NoHandle]
    OBVIOUS
  <1>6. /\ h2 \in Handles /\ h2[c] = NoHandle /\ \A d \in Container : d # c => h2[d] = st.handle[d]
    BY <1>0, <1>5, NoHandleIs DEF Handles
  <1>7. PICK m : m = Rehandled(w, h2)
    OBVIOUS
  <1>8. m \in States /\ m.handle = h2 /\ m.slab = w.slab /\ m.stored = w.stored
    BY <1>4, <1>6, <1>7, RehandledIs
  <1>9. m = [w EXCEPT !.handle[c] = NoHandle]
    BY <1>4, <1>5, <1>7 DEF Rehandled
  <1>10. Contents(m) = Contents(w) /\ SlabElems(m, c) = <<>>
    BY <1>4, <1>8, EncodeSlabs
  <1>11. PICK r : r = storeSlab(m, c)
    OBVIOUS
  <1>12. /\ r \in States /\ r.slab = m.slab /\ r.handle = m.handle /\ r.stored[c] = Encode(m, c)
         /\ \A d \in Container : d # c => r.stored[d] = m.stored[d]
    <2>1. ChildrenExist(Contents(m)) /\ m.slab[c] # None
      BY <1>2, <1>4, <1>8, <1>10
    <2> QED  BY <1>8, <1>11, <2>1, StoreSlabIs
  <1>13. Encode(r, c) = Encode(m, c)
    BY <1>12, EncodeSlabs
  <1>14. \A p \in Container : c \notin Kids(Contents(st), p)
    <2>1. Contents(st)[c] = None
      BY <1>0, ContentsAre
    <2> QED  BY <1>0, <2>1, KidsAre DEF ChildrenExist
  <1>15. SlabsIn(st, c) = {}
    BY DEF SlabsIn, SlabElems
  <1>16. PICK gone \in SUBSET Container : gone = {}
    OBVIOUS
  <1>17. Emptied(st, r, c, gone)
    BY <1>0, <1>2, <1>4, <1>8, <1>12, <1>13, <1>14, <1>15, <1>16 DEF Emptied
  <1>18. Releases(st, r, c, gone)
    BY <1>0, <1>6, <1>8, <1>12, <1>16, <1>17, NoHandleIs DEF Releases
  <1>19. Whole(r)
    BY <1>18, ReleasesAll
  <1>20. Remains(st, r, c, gone)
    BY <1>17, EmptiedIs
  <1>21. Creates(Contents(st), Contents(r), c, kind, type)
    <2>1. Contents(st)[c] = None
      BY <1>0, ContentsAre
    <2>2. Contents(r)[c] = [kind |-> kind, type |-> type, elems |-> <<>>]
      BY <1>2, <1>4, <1>8, <1>12, <1>20 DEF Remains
    <2>3. \A d \in Container : d # c => Contents(r)[d] = Contents(st)[d]
      BY <1>16, <1>20 DEF Remains
    <2> QED  BY <2>1, <2>2, <2>3 DEF Creates
  <1> QED  BY <1>3, <1>9, <1>11, <1>19, <1>21

\* The program pops all of c, which is in no place, with no handle on its elements.
Popping(st, c) ==
    /\ Whole(st) /\ c \in Container /\ st.slab[c] # None /\ st.handle[c] # None
    /\ \A p \in Container : c \notin Kids(Contents(st), p)
    /\ \A d \in Under(Contents(st), c) : st.handle[d] = None

\* A container that was taken out of one that is gone forgets its parent.
Forgetting(h, gone) ==
    [d \in Container |->
       IF h[d] # None /\ h[d].updater # None /\ h[d].updater.parent \in gone
         THEN [h[d] EXCEPT !.updater = None] ELSE h[d]]

\* It keeps its index.
LEMMA ForgettingIs ==
    ASSUME NEW h \in Handles, NEW gone
    PROVE  LET h2 == Forgetting(h, gone)
           IN /\ h2 \in Handles
              /\ \A d \in Container : h2[d] = None <=> h[d] = None
              /\ \A d \in Container : h[d] # None =>
                    /\ h2[d].index = h[d].index
                    /\ h2[d].updater = IF h[d].updater # None /\ h[d].updater.parent \in gone
                                         THEN None ELSE h[d].updater
  <1>1. PICK h2 : h2 = Forgetting(h, gone)
    OBVIOUS
  <1>2. ASSUME NEW d \in Container
        PROVE  /\ h2[d] \in Handle \cup {None}
               /\ h2[d] = None <=> h[d] = None
               /\ h[d] # None =>
                    /\ h2[d].index = h[d].index
                    /\ h2[d].updater = IF h[d].updater # None /\ h[d].updater.parent \in gone
                                         THEN None ELSE h[d].updater
    <2>1. CASE h[d] # None /\ h[d].updater # None /\ h[d].updater.parent \in gone
      <3>1. PICK a \in Handle : a = h[d]
        BY <2>1 DEF Handles
      <3>2. h2[d] = [a EXCEPT !.updater = None]
        BY <1>1, <2>1, <3>1 DEF Forgetting
      <3>3. /\ a = [updater |-> a.updater, index |-> a.index]
            /\ DOMAIN a.index \in SUBSET Container /\ a.index \in [DOMAIN a.index -> Nat]
        BY HandleIs
      <3>4. h2[d] = [updater |-> None, index |-> a.index]
        BY <3>2, <3>3
      <3>5. h2[d] \in Handle
        <4>1. PICK updater, index, children : updater = None /\ index = a.index /\ children = DOMAIN a.index
          OBVIOUS
        <4>2. [updater |-> updater, index |-> index] \in Handle
          BY <3>3, <4>1, IsHandle
        <4> QED  BY <3>4, <4>1, <4>2
      <3>6. h2[d] # None
        BY <3>5, NoneIsNot
      <3> QED  BY <2>1, <3>1, <3>4, <3>5, <3>6
    <2>2. CASE ~ (h[d] # None /\ h[d].updater # None /\ h[d].updater.parent \in gone)
      BY <1>1, <2>2 DEF Forgetting, Handles
    <2> QED  BY <2>1, <2>2
  <1>3. h2 \in Handles
    <2>1. DOMAIN h2 = Container /\ h2 = [d \in Container |-> h2[d]]
      BY <1>1 DEF Forgetting
    <2> QED  BY <1>2, <2>1 DEF Handles
  <1> QED  BY <1>1, <1>2, <1>3

\* What is inlined in c is nowhere else.
LEMMA InlinedOnly ==
    ASSUME NEW st, NEW c, Popping(st, c), NEW gone, gone = InlinedIn(st, c)
    PROVE  /\ gone \in SUBSET Container /\ c \notin gone /\ gone \subseteq Under(Contents(st), c)
           /\ \A p \in Container : p \notin gone \cup {c} =>
                 \A d \in gone \cup {c} : d \notin Kids(Contents(st), p)
           /\ \A p \in gone \cup {c} : SlabsIn(st, p) \subseteq gone
           /\ \A d \in gone : st.stored[d] = None
           /\ ~ st.slab[c].inlined
  <1>0. /\ st \in States /\ Nest(Contents(st)) /\ Contents(st) \in Programs /\ c \in Container
        /\ TagsFit(st) /\ Saved(st, None) /\ InlinedHavePlace(st, {}) /\ st.slab[c] # None
        /\ \A p \in Container : c \notin Kids(Contents(st), p)
    BY WholeIs DEF Popping, Sound
  <1>1. PICK edges \in [Container -> SUBSET Container] : edges = Inner(st)
    BY <1>0, InnerIs
  <1>2. gone = Below(edges, c) /\ gone \subseteq Under(Contents(st), c) /\ gone \in SUBSET Container
    BY <1>0, <1>1, InlinedIs
  <1>3. c \notin gone
    BY <1>0, <1>2 DEF Nest, NoCycle
  <1>4. \A p \in Container : edges[p] = SlabsIn(st, p) /\ SlabsIn(st, p) \subseteq Kids(Contents(st), p)
    BY <1>0, <1>1, InnerIs
  <1>5. \A p \in gone \cup {c} : SlabsIn(st, p) \subseteq gone
    BY <1>0, <1>2, <1>4, BelowIs
  <1>6. \A d \in gone : \E x \in {c} \cup gone : d \in SlabsIn(st, x)
    BY <1>0, <1>2, <1>4, BelowFrom
  <1>7. ASSUME NEW p \in Container, p \notin gone \cup {c}, NEW d \in gone \cup {c},
               d \in Kids(Contents(st), p)
        PROVE  FALSE
    <2>1. d \in gone /\ d \in Container
      BY <1>0, <1>2, <1>7
    <2>2. PICK x \in {c} \cup gone : d \in SlabsIn(st, x)
      BY <1>6, <2>1
    <2>3. x \in Container /\ d \in Kids(Contents(st), x)
      BY <1>0, <1>2, <1>4, <2>2
    <2>4. PICK y \in DOMAIN Elems(Contents(st), x) : Place(Contents(st), x, y, d)
      BY <2>1, <2>3, KidsAre
    <2>5. PICK z \in DOMAIN Elems(Contents(st), p) : Place(Contents(st), p, z, d)
      BY <1>7, <2>1, KidsAre
    <2>6. p = x
      BY <1>0, <2>1, <2>3, <2>4, <2>5 DEF Nest, OnePlace
    <2> QED  BY <1>7, <2>2, <2>6
  <1>8. ASSUME NEW d \in gone PROVE st.stored[d] = None
    <2>1. PICK x \in {c} \cup gone : d \in SlabsIn(st, x)
      BY <1>6
    <2>2. x \in Container /\ d \in Container
      BY <1>0, <1>2
    <2>3. PICK y \in DOMAIN SlabElems(st, x) : SlabElems(st, x)[y].tag = "slab" /\ SlabElems(st, x)[y].id = d
      BY <2>1 DEF SlabsIn
    <2>4. st.slab[d].inlined
      BY <1>0, <2>2, <2>3 DEF TagsFit, IsChild
    <2> QED  BY <1>0, <2>2, <2>4 DEF Saved
  <1>9. ~ st.slab[c].inlined
    BY <1>0, <1>4 DEF InlinedHavePlace
  <1> QED  BY <1>2, <1>3, <1>5, <1>7, <1>8, <1>9

\* PopIterate, and the program lets go of what was inlined.
Popped(st, c, gone) ==
    [PopAll(st, c) EXCEPT
       !.slab   = [d \in Container |-> IF d \in gone THEN None ELSE @[d]],
       !.handle = [d \in Container |->
                     IF @[d] # None /\ @[d].updater # None /\ @[d].updater.parent \in gone
                       THEN [@[d] EXCEPT !.updater = None] ELSE @[d]]]

\* c is emptied, and those in gone are no more.
Pops(k, k2, c, gone) ==
    /\ k[c] # None /\ k2[c] = [kind |-> k[c].kind, type |-> k[c].type, elems |-> <<>>]
    /\ \A d \in Container : d # c => k2[d] = IF d \in gone THEN None ELSE k[d]

\* The slab of c is emptied.
LEMMA PopAllIs ==
    ASSUME NEW st \in States, ChildrenExist(Contents(st)), NEW c \in Container, st.slab[c] # None,
           ~ st.slab[c].inlined
    PROVE  LET w == PopAll(st, c)
           IN /\ w \in States /\ w.handle = st.handle
              /\ \A d \in Container : d # c => w.slab[d] = st.slab[d] /\ w.stored[d] = st.stored[d]
              /\ w.slab[c] \in Slab /\ w.slab[c].elems = <<>> /\ w.slab[c].cached = <<>>
              /\ ~ w.slab[c].inlined /\ w.slab[c].size = PrefixSize(w.slab[c])
              /\ w.slab[c].kind = st.slab[c].kind /\ w.slab[c].type = st.slab[c].type
              /\ w.stored[c] = Encode(w, c)
  <1>1. PICK s \in Slab : s = st.slab[c]
    BY StateIs
  <1>2. PICK none, size : none = <<>> /\ size = PrefixSize(s)
    OBVIOUS
  <1>3. PICK t : t = Recached(s, none, none, size)
    OBVIOUS
  <1>4. t = [kind |-> s.kind, type |-> s.type, inlined |-> s.inlined, size |-> size,
             elems |-> none, cached |-> none]
    BY <1>3, SlabExcept
  <1>5. /\ t \in Slab /\ t.elems = <<>> /\ t.cached = <<>> /\ ~ t.inlined /\ t.size = PrefixSize(t)
        /\ t.kind = s.kind /\ t.type = s.type
    <2>1. s.kind \in Kind /\ s.type \in Types /\ s.inlined \in BOOLEAN /\ size \in Nat
      BY <1>2, SlabIs, PrefixIs
    <2>2. PICK kind, type, inlined : kind = s.kind /\ type = s.type /\ inlined = s.inlined
      OBVIOUS
    <2>3. EmptySlab(kind, type, inlined, size) \in Slab
      BY <2>1, <2>2, EmptySlabIs
    <2>4. t = EmptySlab(kind, type, inlined, size)
      BY <1>2, <1>4, <2>2 DEF EmptySlab
    <2>5. t.elems = <<>> /\ t.cached = <<>> /\ t.inlined = s.inlined /\ t.size = PrefixSize(s)
          /\ t.kind = s.kind /\ t.type = s.type
      BY <1>2, <1>4
    <2> QED  BY <1>1, <2>3, <2>4, <2>5 DEF PrefixSize
  <1>6. PICK w : w = PutSlab(st, c, t)
    OBVIOUS
  <1>7. /\ w \in States /\ ChildrenExist(Contents(w)) /\ w.slab[c] = t /\ w.handle = st.handle
        /\ w.stored = st.stored /\ \A d \in Container : d # c => w.slab[d] = st.slab[d]
    BY <1>5, <1>6, EmptyPut, PutSlabIs
  <1>8. PICK r : r = storeSlab(w, c)
    OBVIOUS
  <1>9. t # None
    BY <1>5, NoneIsNot
  <1>10. /\ r \in States /\ r.slab = w.slab /\ r.handle = w.handle /\ r.stored[c] = Encode(w, c)
         /\ \A d \in Container : d # c => r.stored[d] = w.stored[d]
    BY <1>7, <1>8, <1>9, StoreSlabIs
  <1>11. Encode(r, c) = Encode(w, c)
    BY <1>10, EncodeSlabs
  <1>12. PopAll(st, c) = r
    <2>1. t = [s EXCEPT !.elems = <<>>, !.cached = <<>>, !.size = PrefixSize(s)]
      BY <1>2, <1>3 DEF Recached
    <2>2. PopAll(st, c) = storeIfNotInlined(w, c)
      BY <1>1, <1>6, <2>1 DEF PopAll
    <2> QED  BY <1>5, <1>7, <1>8, <2>2 DEF storeIfNotInlined
  <1> QED  BY <1>1, <1>5, <1>7, <1>10, <1>11, <1>12

\* PopIterate.
LEMMA PopCall ==
    ASSUME NEW st, NEW c, Popping(st, c), NEW gone, gone = InlinedIn(st, c)
    PROVE  Whole(Popped(st, c, gone)) /\ Pops(Contents(st), Contents(Popped(st, c, gone)), c, gone)
  <1>0. /\ st \in States /\ Nest(Contents(st)) /\ Contents(st) \in Programs /\ c \in Container
        /\ Sound(st, None, {}) /\ ChildrenExist(Contents(st)) /\ st.slab[c] # None
        /\ Handled(Contents(st), st.handle, {}, {}) /\ st.handle \in Handles /\ st.handle[c] # None
    BY WholeIs DEF Popping, Nest
  <1>1. /\ gone \in SUBSET Container /\ c \notin gone /\ gone \subseteq Under(Contents(st), c)
        /\ \A p \in Container : p \notin gone \cup {c} =>
              \A d \in gone \cup {c} : d \notin Kids(Contents(st), p)
        /\ \A p \in gone \cup {c} : SlabsIn(st, p) \subseteq gone
        /\ \A d \in gone : st.stored[d] = None
        /\ ~ st.slab[c].inlined
    BY InlinedOnly
  <1>2. PICK w : w = PopAll(st, c)
    OBVIOUS
  <1>3. /\ w \in States /\ w.handle = st.handle
        /\ \A d \in Container : d # c => w.slab[d] = st.slab[d] /\ w.stored[d] = st.stored[d]
        /\ w.slab[c] \in Slab /\ w.slab[c].elems = <<>> /\ w.slab[c].cached = <<>>
        /\ ~ w.slab[c].inlined /\ w.slab[c].size = PrefixSize(w.slab[c])
        /\ w.slab[c].kind = st.slab[c].kind /\ w.slab[c].type = st.slab[c].type
        /\ w.stored[c] = Encode(w, c)
    BY <1>0, <1>1, <1>2, PopAllIs
  <1>4. PICK r : r = Popped(st, c, gone)
    OBVIOUS
  <1>5. PICK slabs : slabs = [d \in Container |-> IF d \in gone THEN None ELSE w.slab[d]]
    OBVIOUS
  <1>6. slabs \in [Container -> Slab \cup {None}]
    BY <1>3, <1>5, StateIs
  <1>7. PICK h2 : h2 = Forgetting(st.handle, gone)
    OBVIOUS
  <1>8. /\ h2 \in Handles
        /\ \A d \in Container : h2[d] = None <=> st.handle[d] = None
        /\ \A d \in Container : st.handle[d] # None =>
              /\ h2[d].index = st.handle[d].index
              /\ h2[d].updater = IF st.handle[d].updater # None /\ st.handle[d].updater.parent \in gone
                                   THEN None ELSE st.handle[d].updater
    BY <1>0, <1>7, ForgettingIs
  <1>9. r = [w EXCEPT !.slab = slabs, !.handle = h2]
    <2>1. r = [w EXCEPT
                 !.slab   = [d \in Container |-> IF d \in gone THEN None ELSE @[d]],
                 !.handle = [d \in Container |->
                               IF @[d] # None /\ @[d].updater # None /\ @[d].updater.parent \in gone
                                 THEN [@[d] EXCEPT !.updater = None] ELSE @[d]]]
      BY <1>2, <1>4 DEF Popped
    <2>2. h2 = [d \in Container |->
                  IF w.handle[d] # None /\ w.handle[d].updater # None
                     /\ w.handle[d].updater.parent \in gone
                    THEN [w.handle[d] EXCEPT !.updater = None] ELSE w.handle[d]]
      BY <1>3, <1>7 DEF Forgetting
    <2> QED  BY <1>5, <2>1, <2>2
  <1>12. /\ r \in States /\ r.slab = slabs /\ r.handle = h2 /\ r.stored = w.stored
    BY <1>3, <1>6, <1>8, <1>9 DEF States
  <1>13. r.slab[c] = w.slab[c] /\ w.slab[c] # None
    BY <1>0, <1>1, <1>3, <1>5, <1>12, NoneIsNot
  <1>14. Encode(r, c) = Encode(w, c)
    <2>1. SlabElems(r, c) = <<>> /\ SlabElems(w, c) = <<>>
      BY <1>3, <1>13 DEF SlabElems
    <2>2. InlinedIn(r, c) = {} /\ InlinedIn(w, c) = {}
      BY <1>0, <1>3, <1>12, <2>1, NothingInlined
    <2> QED  BY <1>13, <2>2 DEF Encode
  <1>15. Emptied(st, r, c, gone)
    <2>1. \A d \in Container : d \notin gone \cup {c} => r.slab[d] = st.slab[d] /\ r.stored[d] = st.stored[d]
      BY <1>3, <1>5, <1>12
    <2>2. \A d \in gone : r.slab[d] = None /\ r.stored[d] = None
      BY <1>1, <1>3, <1>5, <1>12
    <2>3. /\ r.slab[c] # None /\ r.slab[c].elems = <<>> /\ r.slab[c].cached = <<>>
          /\ ~ r.slab[c].inlined /\ r.slab[c].size = PrefixSize(r.slab[c])
          /\ r.stored[c] = Encode(r, c)
      BY <1>3, <1>12, <1>13, <1>14
    <2> QED  BY <1>0, <1>1, <1>12, <2>1, <2>2, <2>3 DEF Emptied
  <1>16. Releases(st, r, c, gone)
    <2>1. \A d \in gone : r.handle[d] = None
      BY <1>1, <1>8, <1>12 DEF Popping
    <2>2. r.handle[c] # None
      BY <1>0, <1>8, <1>12
    <2>3. DOMAIN r.handle[c].index = {}
      <3>1. r.handle[c].index = st.handle[c].index
        BY <1>0, <1>8, <1>12
      <3>2. ASSUME NEW d \in DOMAIN st.handle[c].index PROVE FALSE
        <4>1. d \in Container /\ st.handle[d] # None
          BY <1>0 DEF Handled, Known
        <4>2. Place(Contents(st), c, st.handle[c].index[d], d)
          BY <1>0 DEF Handled, Indexed
        <4>3. d \in Kids(Contents(st), c)
          BY <1>0, <4>1, <4>2, KidsAre
        <4>4. d \in Under(Contents(st), c)
          BY <1>0, <4>3, UnderIs
        <4> QED  BY <4>1, <4>4 DEF Popping
      <3> QED  BY <3>1, <3>2
    <2>4. ASSUME r.handle[c].updater # None
          PROVE  r.handle[c].updater.parent \in Container /\ r.handle[c].updater.parent \notin gone
                 /\ r.slab[r.handle[c].updater.parent] # None
      <3>1. r.handle[c].updater = st.handle[c].updater /\ st.handle[c].updater.parent \notin gone
        BY <1>0, <1>8, <1>12, <2>4
      <3>2. st.handle[c] \in Handle
        BY <1>0 DEF Handles
      <3>3. st.handle[c].updater.parent \in Container
        BY <2>4, <3>1, <3>2, HandleIs, UpdaterIs
      <3>4. Contents(st)[st.handle[c].updater.parent] # None
        BY <1>0, <2>4, <3>1 DEF Handled, UpdatersLead
      <3>5. st.slab[st.handle[c].updater.parent] # None
        BY <1>0, <3>3, <3>4, ContentsAre
      <3>6. r.slab[st.handle[c].updater.parent] # None
        BY <1>15, <1>13, <3>1, <3>3, <3>5 DEF Emptied
      <3> QED  BY <3>1, <3>3, <3>6
    <2> QED  BY <1>0, <1>8, <1>12, <1>15, <2>1, <2>2, <2>3, <2>4 DEF Releases
  <1>17. Whole(r)
    BY <1>16, ReleasesAll
  <1>18. Remains(st, r, c, gone)
    BY <1>15, EmptiedIs
  <1>19. Pops(Contents(st), Contents(r), c, gone)
    <2>1. Contents(st)[c] # None /\ Contents(st)[c].kind = st.slab[c].kind
          /\ Contents(st)[c].type = st.slab[c].type
      BY <1>0, HeldIs
    <2>2. Contents(r)[c] = [kind |-> r.slab[c].kind, type |-> r.slab[c].type, elems |-> <<>>]
      BY <1>18 DEF Remains
    <2>3. r.slab[c].kind = st.slab[c].kind /\ r.slab[c].type = st.slab[c].type
      BY <1>3, <1>13
    <2>4. \A d \in Container : d # c => Contents(r)[d] = IF d \in gone THEN None ELSE Contents(st)[d]
      BY <1>18 DEF Remains
    <2> QED  BY <2>1, <2>2, <2>3, <2>4 DEF Pops
  <1> QED  BY <1>4, <1>17, <1>19

-----------------------------------------------------------------------------
(* Reading containers.                                                     *)

\* A new handle on c; those on what is under c are given up.
Renewed(k, h, c) ==
    [d \in Container |-> IF d = c THEN NoHandle ELSE IF d \in Under(k, c) THEN None ELSE h[d]]

\* It leads to no parent yet.
LEMMA RenewedIs ==
    ASSUME NEW k, Nest(k), NEW h, Handled(k, h, {}, {}), NEW c \in Container, k[c] # None,
           NEW h2, h2 = Renewed(k, h, c)
    PROVE  /\ Handled(k, h2, {c}, {}) /\ h2[c] = NoHandle
           /\ \A d \in Container : d # c /\ d \notin Under(k, c) => h2[d] = h[d]
  <1>0. /\ k \in Programs /\ h \in Handles /\ OnePlace(k)
        /\ Known(h) /\ Linked(k, h, {}) /\ Indexed(k, h, {}) /\ UpdatersLead(k, h)
    BY DEF Nest, Handled
  <1>1. /\ h2[c] = NoHandle /\ \A d \in Under(k, c) : d \in Container /\ d # c => h2[d] = None
        /\ \A d \in Container : d # c /\ d \notin Under(k, c) => h2[d] = h[d]
    BY DEF Renewed
  <1>2. h2 \in Handles
    BY <1>0, NoHandleIs DEF Renewed, Handles
  <1>3. Under(k, c) \in SUBSET Container /\ Kids(k, c) \subseteq Under(k, c)
        /\ \A x \in Under(k, c) : Kids(k, x) \subseteq Under(k, c)
    BY UnderIs
  <1>4. ASSUME NEW p \in Container, NEW d \in Container, NEW x, Place(k, p, x, d),
               p \in Under(k, c) \cup {c}
        PROVE  d \in Under(k, c)
    <2>1. d \in Kids(k, p)
      BY <1>4, KidsAre
    <2> QED  BY <1>3, <1>4, <2>1
  <1>5. ASSUME NEW p \in Container, NEW d \in Container, NEW x, Place(k, p, x, d),
               d \in Under(k, c)
        PROVE  p \in Under(k, c) \cup {c}
    <2>1. PICK edges \in [Container -> SUBSET Container] : edges = [q \in Container |-> Kids(k, q)]
      BY KidsAre
    <2>2. Under(k, c) = Below(edges, c)
      BY <2>1 DEF Under
    <2>3. PICK q \in {c} \cup Below(edges, c) : d \in edges[q]
      BY <1>5, <2>2, BelowFrom
    <2>4. q \in Container /\ d \in Kids(k, q)
      BY <1>3, <2>1, <2>2, <2>3
    <2>5. PICK y \in DOMAIN Elems(k, q) : Place(k, q, y, d)
      BY <2>4, KidsAre
    <2>6. x \in DOMAIN Elems(k, p)
      BY <1>5 DEF Place
    <2>7. p = q
      BY <1>0, <1>5, <2>4, <2>5, <2>6 DEF OnePlace
    <2> QED  BY <2>2, <2>3, <2>7
  <1>6. Linked(k, h2, {c})
    <2> SUFFICES ASSUME NEW q \in Container, NEW d \in Container, NEW y \in DOMAIN Elems(k, q),
                        Place(k, q, y, d), d # c, h2[d] # None
                 PROVE  /\ h2[q] # None
                        /\ h2[d].updater = [parent |-> q, wrap |-> Elems(k, q)[y].wrap,
                                            key |-> IF k[q].kind = "array" THEN None ELSE y]
                        /\ k[q].kind = "array" => d \in DOMAIN h2[q].index /\ h2[q].index[d] = y
      BY DEF Linked
    <2>1. d \notin Under(k, c)
      BY <1>1
    <2>2. q # c /\ q \notin Under(k, c)
      BY <1>4, <2>1
    <2>3. h2[d] = h[d] /\ h2[q] = h[q]
      BY <1>1, <2>1, <2>2
    <2> QED  BY <1>0, <2>3 DEF Linked
  <1>7. Indexed(k, h2, {}) /\ Known(h2)
    <2> SUFFICES ASSUME NEW p \in Container, h2[p] # None
                 PROVE  /\ k[p] # None
                        /\ \A d \in DOMAIN h2[p].index :
                              /\ k[p].kind = "array" /\ Place(k, p, h2[p].index[d], d)
                              /\ d \in Container /\ h2[d] # None
      BY DEF Indexed, Known
    <2>1. CASE p = c
      BY <1>1, <2>1, NoHandleIs
    <2>2. CASE p # c
      <3>1. p \notin Under(k, c) /\ h2[p] = h[p]
        BY <1>1, <2>2
      <3>2. k[p] # None
        BY <1>0, <3>1 DEF Indexed
      <3>3. ASSUME NEW d \in DOMAIN h[p].index
            PROVE  /\ k[p].kind = "array" /\ Place(k, p, h[p].index[d], d)
                   /\ d \in Container /\ h2[d] # None
        <4>1. k[p].kind = "array" /\ Place(k, p, h[p].index[d], d)
          BY <1>0, <3>1 DEF Indexed
        <4>2. d \in Container /\ h[d] # None
          BY <1>0, <3>1 DEF Known
        <4>3. d \notin Under(k, c)
          BY <1>5, <2>2, <3>1, <4>1, <4>2
        <4>4. h2[d] # None
          BY <1>1, <4>2, <4>3, NoHandleIs
        <4> QED  BY <4>1, <4>2, <4>4
      <3> QED  BY <3>1, <3>2, <3>3
    <2> QED  BY <2>1, <2>2
  <1>8. UpdatersLead(k, h2)
    <2> SUFFICES ASSUME NEW d \in Container, h2[d] # None, h2[d].updater # None
                 PROVE  k[h2[d].updater.parent] # None
      BY DEF UpdatersLead
    <2>1. d # c /\ d \notin Under(k, c)
      BY <1>1, NoHandleIs
    <2>2. h2[d] = h[d]
      BY <1>1, <2>1
    <2> QED  BY <1>0, <2>2 DEF UpdatersLead
  <1>9. Handled(k, h2, {c}, {})
    BY <1>2, <1>6, <1>7, <1>8 DEF Handled
  <1> QED  BY <1>1, <1>9

\* NewArrayWithRootID and NewMapWithRootID.
LEMMA LoadCall ==
    ASSUME NEW st, Whole(st), NEW c \in Container, st.slab[c] # None,
           \A p \in Container : c \notin Kids(Contents(st), p),
           NEW h2, h2 = Renewed(Contents(st), st.handle, c)
    PROVE  Whole(Rehandled(st, h2)) /\ Contents(Rehandled(st, h2)) = Contents(st)
  <1>0. /\ st \in States /\ Nest(Contents(st)) /\ Contents(st) \in Programs /\ Sound(st, None, {})
        /\ Handled(Contents(st), st.handle, {}, {}) /\ Contents(st)[c] # None
    BY WholeIs
  <1>1. PICK k, h : k = Contents(st) /\ h = st.handle
    OBVIOUS
  <1>2. Handled(k, h2, {c}, {})
    BY <1>0, <1>1, RenewedIs
  <1>3. Handled(k, h2, {}, {})
    <2>1. \A p \in Container : \A x : ~ Place(k, p, x, c)
      BY <1>1, KidsAre
    <2>2. Linked(k, h2, {c})
      BY <1>2 DEF Handled
    <2>3. Linked(k, h2, {})
      BY <2>1, <2>2 DEF Linked
    <2> QED  BY <1>2, <2>3 DEF Handled
  <1>4. PICK r : r = Rehandled(st, h2)
    OBVIOUS
  <1>5. r \in States /\ r.handle = h2 /\ r.slab = st.slab /\ r.stored = st.stored
    <2>1. h2 \in Handles
      BY <1>3 DEF Handled
    <2> QED  BY <1>0, <1>4, <2>1, RehandledIs
  <1>6. Sound(r, None, {}) /\ Contents(r) = Contents(st)
    BY <1>0, <1>5, SoundSlabs
  <1> QED  BY <1>1, <1>3, <1>4, <1>5, <1>6 DEF Whole

\* Array.Get and OrderedMap.Get of a child.
LEMMA GetCall ==
    ASSUME NEW st, Whole(st), NEW p \in Container, st.handle[p] # None,
           NEW c \in Container, NEW x, Place(Contents(st), p, x, c),
           NEW value, value = Elems(Contents(st), p)[x],
           NEW h2, h2 = Renewed(Contents(st), st.handle, c)
    PROVE  LET r == setCallbackWithChild(Rehandled(st, h2), p, x, value)
           IN Whole(r) /\ Contents(r) = Contents(st)
  <1>0. /\ st \in States /\ Nest(Contents(st)) /\ Contents(st) \in Programs /\ Sound(st, None, {})
        /\ Handled(Contents(st), st.handle, {}, {})
    BY WholeIs
  <1>1. PICK k, h : k = Contents(st) /\ h = st.handle
    OBVIOUS
  <1>2. k[c] # None
    <2>1. x \in DOMAIN Elems(k, p)
      BY <1>1 DEF Place
    <2> QED  BY <1>0, <1>1, <2>1 DEF Nest, ChildrenExist
  <1>3. /\ Handled(k, h2, {c}, {}) /\ h2[c] = NoHandle
        /\ \A d \in Container : d # c /\ d \notin Under(k, c) => h2[d] = h[d]
    BY <1>0, <1>1, <1>2, RenewedIs
  <1>4. c # p /\ p \notin Under(k, c)
    BY <1>0, <1>1, ClearOfKids
  <1>5. PICK m : m = Rehandled(st, h2)
    OBVIOUS
  <1>6. m \in States /\ m.handle = h2 /\ m.slab = st.slab /\ m.stored = st.stored
    <2>1. h2 \in Handles
      BY <1>3 DEF Handled
    <2> QED  BY <1>0, <1>5, <2>1, RehandledIs
  <1>7. Sound(m, None, {}) /\ Contents(m) = Contents(st)
    BY <1>0, <1>6, SoundSlabs
  <1>8. Linking(m, {}, {}, p, c, x, value)
    BY <1>1, <1>3, <1>4, <1>6, <1>7, NoHandleIs DEF Linking
  <1>9. PICK r : r = setCallbackWithChild(m, p, x, value)
    OBVIOUS
  <1>10. /\ Sound(r, None, {}) /\ Contents(r) = Contents(m)
         /\ Handled(Contents(r), r.handle, {}, {})
    BY <1>8, <1>9, LinkChild
  <1> QED  BY <1>5, <1>7, <1>9, <1>10 DEF Whole

-----------------------------------------------------------------------------
(* The specification.                                                      *)

\* The inductive invariant: containers are nested like trees, handles lead to
\* the places where containers are, elements, sizes and the status of every
\* container fit, and the storage has every slab as it is.
NestingInv == Whole(State)

\* A call made r of the state.
LEMMA Becomes ==
    ASSUME NEW r, Whole(r), Become(r)
    PROVE  State' = r /\ NestingInv'
  <1>1. r \in States
    BY WholeIs
  <1>2. r = [slab |-> r.slab, handle |-> r.handle, stored |-> r.stored, failed |-> FALSE]
        /\ r.failed = FALSE
    BY <1>1, StateIs
  <1>3. State' = r
    BY <1>2 DEF State, Become
  <1> QED  BY <1>3 DEF NestingInv

\* What the model says of a state.
LEMMA InvIs ==
    ASSUME NestingInv
    PROVE  /\ State \in States /\ Nest(Contents(State)) /\ Contents(State) \in Programs
           /\ Whole(State) /\ Sound(State, None, {}) /\ Handled(Contents(State), handle, {}, {})
           /\ State.slab = slab /\ State.handle = handle /\ State.stored = stored
           /\ State.failed = failed /\ failed = FALSE
           /\ \A c \in Container : slab[c] # None => slab[c] \in Slab
  <1>1. State.slab = slab /\ State.handle = handle /\ State.stored = stored /\ State.failed = failed
    BY DEF State
  <1>2. Whole(State)
    BY DEF NestingInv
  <1> QED  BY <1>1, <1>2, WholeIs, StateIs

\* Containers in containers, in the model.
LEMMA ModelIs ==
    ASSUME NestingInv, NEW c \in Container
    PROVE  /\ ChildrenOf(c) = Kids(Contents(State), c)
           /\ DescendantsOf(c) = Under(Contents(State), c)
           /\ Standalone(c) <=> /\ slab[c] # None
                                /\ \A p \in Container : c \notin Kids(Contents(State), p)
  <1>0. State \in States /\ State.slab = slab /\ Contents(State) \in Programs
    BY InvIs
  <1>1. \A x \in Container : Children(State, x) = Kids(Contents(State), x)
    BY <1>0, ChildrenAre
  <1>2. ChildrenOf(c) = Kids(Contents(State), c)
    BY <1>1 DEF ChildrenOf
  <1>3. DescendantsOf(c) = Under(Contents(State), c)
    <2>1. [x \in Container |-> Children(State, x)] = [x \in Container |-> Kids(Contents(State), x)]
      BY <1>1
    <2> QED  BY <2>1 DEF DescendantsOf, Under
  <1>4. \A p \in Container : slab[p] = None => c \notin Kids(Contents(State), p)
    <2> TAKE p \in Container
    <2> HAVE slab[p] = None
    <2>1. Contents(State)[p] = None
      BY <1>0, ContentsAre
    <2>2. DOMAIN Elems(Contents(State), p) = {}
      BY <1>0, <2>1, ElemsAre
    <2> QED  BY <2>2 DEF Kids
  <1>5. Standalone(c) <=> /\ slab[c] # None
                          /\ \A p \in Container : c \notin Kids(Contents(State), p)
    BY <1>1, <1>4 DEF Standalone, Exists, ChildrenOf
  <1> QED  BY <1>2, <1>3, <1>5

\* The invariant holds at the start.
LEMMA InitInv == Init => NestingInv
  <1> SUFFICES ASSUME Init PROVE NestingInv
    OBVIOUS
  <1>1. PICK st : st = State
    OBVIOUS
  <1>2. /\ st.slab = [c \in Container |-> None] /\ st.handle = [c \in Container |-> None]
        /\ st.stored = [c \in Container |-> None] /\ st.failed = FALSE
        /\ st = [slab |-> st.slab, handle |-> st.handle, stored |-> st.stored, failed |-> FALSE]
    BY <1>1 DEF Init, State
  <1>3. st \in States
    <2>1. st.slab \in [Container -> Slab \cup {None}] /\ st.handle \in Handles
          /\ st.stored \in [Container -> Encoding \cup {None}]
      BY <1>2 DEF Handles
    <2> QED  BY <1>2, <2>1 DEF States
  <1>4. PICK k : k = Contents(st)
    OBVIOUS
  <1>5. k \in Programs /\ \A c \in Container : k[c] = None
    BY <1>2, <1>3, <1>4, ContentsAre
  <1>6. \A p \in Container : SlabElems(st, p) = <<>> /\ SlabsIn(st, p) = {}
    BY <1>2 DEF SlabElems, SlabsIn
  <1>7. \A p \in Container : DOMAIN Elems(k, p) = {} /\ Kids(k, p) = {}
    BY <1>5, ElemsAre DEF Kids
  <1>8. Nest(k)
    <2>1. ChildrenExist(k) /\ OnePlace(k)
      BY <1>7 DEF ChildrenExist, OnePlace
    <2>2. ASSUME NEW c \in Container PROVE c \notin Under(k, c)
      <3>1. PICK edges \in [Container -> SUBSET Container] : edges = [p \in Container |-> Kids(k, p)]
        BY KidsAre
      <3>2. Under(k, c) = Below(edges, c) /\ \A x \in Container : edges[x] = {}
        BY <1>7, <3>1 DEF Under
      <3>3. ASSUME c \in Below(edges, c) PROVE FALSE
        <4>1. PICK x \in {c} \cup Below(edges, c) : c \in edges[x]
          BY <3>3, BelowFrom
        <4>2. x \in Container
          BY <4>1, BelowIs
        <4> QED  BY <3>2, <4>1, <4>2
      <3> QED  BY <3>2, <3>3
    <2> QED  BY <1>5, <2>1, <2>2 DEF Nest, NoCycle
  <1>9. Handled(k, st.handle, {}, {})
    <2>1. \A c \in Container : st.handle[c] = None
      BY <1>2
    <2>2. st.handle \in Handles
      BY <1>3, StateIs
    <2> QED  BY <1>7, <2>1, <2>2 DEF Handled, Known, Linked, Indexed, UpdatersLead
  <1>10. \A c \in Container : st.slab[c] = None /\ st.stored[c] = None
    BY <1>2
  <1>11. TagsFit(st) /\ SizesFit(st, None) /\ InlinedHavePlace(st, {}) /\ Saved(st, None)
    <2>1. TagsFit(st)
      BY <1>6 DEF TagsFit
    <2> QED  BY <1>10, <2>1 DEF SizesFit, InlinedHavePlace, Saved
  <1>12. Sound(st, None, {})
    BY <1>3, <1>4, <1>8, <1>11 DEF Sound
  <1> QED  BY <1>1, <1>4, <1>9, <1>12 DEF NestingInv, Whole

\* What a call does to containers.
Moves(k, k2) ==
    \/ k2 = k
    \/ \E c \in Container :
         \/ \E kind \in Kind, type \in Types : Creates(k, k2, c, kind, type)
         \/ \E gone \in SUBSET Container : Pops(k, k2, c, gone)
         \/ \E type \in Types : Retypes(k, k2, c, type)
         \/ \E at : \E value \in Value :
               k[c] # None /\ IsPlaceFor(k, c, at) /\ Alters(k, k2, c, With(k[c].elems, at, value))
         \/ /\ k[c] # None /\ k[c].kind = "array"
            /\ \E at \in 1..Len(k[c].elems) + 1, value \in Value :
                  Alters(k, k2, c, InsertAt(k[c].elems, at, value))
         \/ /\ k[c] # None
            /\ \E at \in DOMAIN k[c].elems :
                  Alters(k, k2, c, IF k[c].kind = "array" THEN RemoveAt(k[c].elems, at)
                                                          ELSE Without(k[c].elems, at))

\* A step of the specification.
Keeps == NestingInv' /\ Moves(Contents(State), Contents(State'))

\* A call made r of the state.
LEMMA KeepsIs ==
    ASSUME NEW r, Whole(r), Become(r), Moves(Contents(State), Contents(r))
    PROVE  Keeps
  BY Becomes DEF Keeps

\* NewArray and NewMap.
LEMMA NewKeeps ==
    ASSUME NestingInv, NEW c \in Container, NewContainer(c)
    PROVE  Keeps
  <1>0. Whole(State) /\ State.slab[c] = None
    BY InvIs DEF NewContainer, Exists
  <1>1. PICK kind \in Kind, type \in Types :
           LET s == [kind |-> kind, type |-> type, inlined |-> FALSE,
                     size |-> RootPrefixSize[kind], elems |-> <<>>, cached |-> <<>>]
           IN Become(storeSlab([PutSlab(State, c, s) EXCEPT !.handle[c] = NoHandle], c))
    BY DEF NewContainer
  <1>2. PICK s : s = EmptySlab(kind, type, FALSE, RootPrefixSize[kind])
    OBVIOUS
  <1>3. PICK r : r = storeSlab([PutSlab(State, c, s) EXCEPT !.handle[c] = NoHandle], c)
    OBVIOUS
  <1>4. Become(r)
    BY <1>1, <1>2, <1>3 DEF EmptySlab
  <1>5. PICK st : st = State
    OBVIOUS
  <1>6. Whole(r) /\ Creates(Contents(st), Contents(r), c, kind, type)
    BY <1>0, <1>2, <1>3, <1>5, NewCall
  <1>7. Moves(Contents(State), Contents(r))
    BY <1>5, <1>6 DEF Moves
  <1> QED  BY <1>4, <1>6, <1>7, KeepsIs

\* The handle in the model is the new one.
LEMMA FreshIs ==
    ASSUME NestingInv, NEW c \in Container
    PROVE  Fresh(State, c) = Rehandled(State, Renewed(Contents(State), State.handle, c))
  BY ModelIs, InvIs DEF Fresh, Rehandled, Renewed

\* NewArrayWithRootID and NewMapWithRootID.
LEMMA LoadKeeps ==
    ASSUME NestingInv, NEW c \in Container, LoadContainer(c)
    PROVE  Keeps
  <1>0. /\ Whole(State) /\ State.slab[c] # None
        /\ \A p \in Container : c \notin Kids(Contents(State), p)
    BY InvIs, ModelIs DEF LoadContainer
  <1>1. PICK st, h2 : st = State /\ h2 = Renewed(Contents(State), State.handle, c)
    OBVIOUS
  <1>2. PICK r : r = Rehandled(st, h2)
    OBVIOUS
  <1>3. Become(r)
    BY <1>1, <1>2, FreshIs DEF LoadContainer
  <1>4. Whole(r) /\ Contents(r) = Contents(st)
    BY <1>0, <1>1, <1>2, LoadCall
  <1>5. Moves(Contents(State), Contents(r))
    BY <1>1, <1>4 DEF Moves
  <1> QED  BY <1>3, <1>4, <1>5, KeepsIs

\* Array.Get and OrderedMap.Get find a child that is not inlined in the storage.
LEMMA GetKeeps ==
    ASSUME NestingInv, NEW p \in Container, GetChild(p)
    PROVE  Keeps
  <1>0. /\ Whole(State) /\ State \in States /\ Nest(Contents(State)) /\ Contents(State) \in Programs
        /\ Sound(State, None, {}) /\ State.slab = slab /\ State.handle = handle /\ State.stored = stored
        /\ slab[p] # None /\ handle[p] # None
    BY InvIs DEF GetChild, Calls, Exists
  <1>1. PICK at \in DOMAIN slab[p].elems :
          LET e == slab[p].elems[at] IN
            /\ IsChild(e)
            /\ Become(IF e.tag = "ref" /\ stored[e.id] = None THEN Fail(State)
                      ELSE setCallbackWithChild(Fresh(State, e.id), p, at,
                             [tag |-> "value", id |-> e.id, wrap |-> e.wrap]))
    BY DEF GetChild
  <1>2. PICK e : e = slab[p].elems[at]
    OBVIOUS
  <1>3. SlabElems(State, p) = slab[p].elems
    BY <1>0 DEF SlabElems
  <1>4. e \in Element /\ IsChild(e)
    BY <1>0, <1>1, <1>2, <1>3, SlabElemsAre
  <1>5. PICK c \in Container : c = e.id
    BY <1>4, ElementIs
  <1>6. Place(Contents(State), p, at, c)
    BY <1>0, <1>2, <1>3, <1>4, <1>5, PlaceInSlab
  <1>7. Contents(State)[c] # None
    <2>1. at \in DOMAIN Elems(Contents(State), p)
      BY <1>6 DEF Place
    <2> QED  BY <1>0, <1>6, <2>1 DEF Nest, ChildrenExist
  <1>8. ~ (e.tag = "ref" /\ stored[e.id] = None)
    <2> SUFFICES ASSUME e.tag = "ref" PROVE stored[c] # None
      BY <1>5
    <2>1. ~ slab[c].inlined
      <3>1. TagsFit(State)
        BY <1>0 DEF Sound
      <3> QED  BY <1>0, <1>2, <1>3, <1>4, <1>5, <3>1 DEF TagsFit
    <2>2. slab[c] # None
      BY <1>0, <1>7, ContentsAre
    <2>3. None \notin InlinedIn(State, c)
      BY <1>0, InlinedIs, NoneIsNot
    <2>4. stored[c] = Encode(State, c)
      <3>1. Saved(State, None)
        BY <1>0 DEF Sound
      <3> QED  BY <1>0, <2>1, <2>2, <2>3, <3>1 DEF Saved
    <2>5. Encode(State, c) # None
      BY <1>0, <2>2, EncodeIs DEF Nest
    <2> QED  BY <2>4, <2>5
  <1>9. PICK value : value = Elems(Contents(State), p)[at]
    OBVIOUS
  <1>10. value = [tag |-> "value", id |-> e.id, wrap |-> e.wrap]
    <2>1. value = AsValue(e)
      BY <1>0, <1>1, <1>2, <1>3, <1>9, ContentsAre
    <2> QED  BY <1>4, <2>1 DEF AsValue
  <1>11. PICK st, h2 : st = State /\ h2 = Renewed(Contents(State), State.handle, c)
    OBVIOUS
  <1>12. PICK r : r = setCallbackWithChild(Rehandled(st, h2), p, at, value)
    OBVIOUS
  <1>13. Fresh(State, e.id) = Rehandled(st, h2)
    BY <1>5, <1>11, FreshIs
  <1>14. Become(r)
    BY <1>1, <1>2, <1>8, <1>10, <1>12, <1>13
  <1>15. Whole(r) /\ Contents(r) = Contents(st)
    BY <1>0, <1>6, <1>9, <1>11, <1>12, GetCall
  <1>16. Moves(Contents(State), Contents(r))
    BY <1>11, <1>15 DEF Moves
  <1> QED  BY <1>14, <1>15, <1>16, KeepsIs

\* The values that the program may put into p.
LEMMA ValuesForIs ==
    ASSUME NestingInv, NEW p \in Container, slab[p] # None, NEW v \in ValuesFor(p)
    PROVE  /\ Puttable(Contents(State), State.handle, p, {}, v)
           /\ \A x : v.tag = "value" => ~ Place(Contents(State), p, x, v.id)
  <1>0. State \in States /\ State.slab = slab /\ State.handle = handle /\ Contents(State) \in Programs
    BY InvIs
  <1>1. CASE v \in Plain
    <2>1. v \in Value /\ v.tag = "plain"
      BY <1>1 DEF Value, Plain
    <2> QED  BY <2>1 DEF Puttable
  <1>2. CASE v \notin Plain
    <2>1. /\ v \in Child /\ Standalone(v.id) /\ handle[v.id] # None
          /\ p \notin {v.id} \cup DescendantsOf(v.id)
      BY <1>2 DEF ValuesFor, ChildOf
    <2>2. v \in Value /\ v.id \in Container /\ v.tag = "value"
      BY <2>1 DEF Value, Child
    <2>3. PICK c \in Container : c = v.id
      BY <2>2
    <2>4. /\ slab[c] # None /\ \A q \in Container : c \notin Kids(Contents(State), q)
          /\ DescendantsOf(c) = Under(Contents(State), c)
      BY <2>1, <2>3, ModelIs
    <2>5. Contents(State)[c] # None
      BY <1>0, <2>4, ContentsAre
    <2>6. \A q \in Container : \A x : ~ Place(Contents(State), q, x, c)
      BY <2>4, KidsAre
    <2> QED  BY <1>0, <2>1, <2>2, <2>3, <2>4, <2>5, <2>6 DEF Puttable
  <1> QED  BY <1>1, <1>2

\* A child that is set again in its place.
LEMMA AgainIs ==
    ASSUME NestingInv, NEW p \in Container, slab[p] # None, NEW v \in Child,
           NEW at \in DOMAIN slab[p].elems, IsChild(slab[p].elems[at]),
           v.id = slab[p].elems[at].id, handle[v.id] # None
    PROVE  Puttable(Contents(State), State.handle, p, {at}, v)
  <1>0. /\ State \in States /\ State.slab = slab /\ State.handle = handle
        /\ Contents(State) \in Programs /\ Nest(Contents(State))
    BY InvIs
  <1>1. v \in Value /\ v.id \in Container /\ v.tag = "value"
    BY DEF Value, Child
  <1>2. PICK c \in Container : c = v.id
    BY <1>1
  <1>3. SlabElems(State, p) = slab[p].elems
    BY <1>0 DEF SlabElems
  <1>4. Place(Contents(State), p, at, c)
    BY <1>0, <1>2, <1>3, PlaceInSlab
  <1>5. at \in DOMAIN Elems(Contents(State), p)
    BY <1>4 DEF Place
  <1>6. Contents(State)[c] # None
    BY <1>0, <1>4, <1>5 DEF Nest, ChildrenExist
  <1>7. c # p /\ p \notin Under(Contents(State), c)
    BY <1>0, <1>4, ClearOfKids
  <1>8. \A q \in Container : \A x \in DOMAIN Elems(Contents(State), q) :
           Place(Contents(State), q, x, c) => q = p /\ x = at
    BY <1>0, <1>4, <1>5 DEF Nest, OnePlace
  <1> QED  BY <1>0, <1>1, <1>2, <1>6, <1>7, <1>8 DEF Puttable

\* Array.Set and OrderedMap.Set.
LEMMA SetKeeps ==
    ASSUME NestingInv, "Set" \notin Unguarded, NEW p \in Container, SetElement(p)
    PROVE  Keeps
  <1>0. /\ Whole(State) /\ State \in States /\ Contents(State) \in Programs /\ Nest(Contents(State))
        /\ State.slab = slab /\ State.handle = handle /\ slab[p] # None /\ handle[p] # None
    BY InvIs DEF SetElement, Calls, Exists
  <1>1. PICK at \in DOMAIN slab[p].elems \cup (IF slab[p].kind = "map" THEN Key ELSE {}) :
          LET again == {v \in ChildOf(slab[p].kind) :
                          /\ at \in DOMAIN slab[p].elems /\ IsChild(slab[p].elems[at])
                          /\ v.id = slab[p].elems[at].id /\ handle[v.id] # None
                          /\ ~ slab[v.id].inlined \/ "Set" \in Unguarded}
          IN \E v \in ValuesFor(p) \cup again :
                Become(IF slab[p].kind = "array" THEN ArraySet(State, p, at, v)
                                                 ELSE MapSet(State, p, at, v))
    BY DEF SetElement
  <1>2. PICK v : /\ \/ v \in ValuesFor(p)
                    \/ /\ v \in ChildOf(slab[p].kind)
                       /\ at \in DOMAIN slab[p].elems /\ IsChild(slab[p].elems[at])
                       /\ v.id = slab[p].elems[at].id /\ handle[v.id] # None
                       /\ ~ slab[v.id].inlined
                 /\ Become(IF slab[p].kind = "array" THEN ArraySet(State, p, at, v)
                                                     ELSE MapSet(State, p, at, v))
    BY <1>1
  <1>3. /\ Contents(State)[p] # None /\ Contents(State)[p].kind = slab[p].kind
        /\ DOMAIN Contents(State)[p].elems = DOMAIN slab[p].elems /\ slab[p].kind \in Kind
    BY <1>0, HeldIs
  <1>4. IsPlaceFor(Contents(State), p, at)
    BY <1>3 DEF IsPlaceFor
  <1>5. /\ Puttable(Contents(State), State.handle, p, {at}, v)
        /\ v.tag = "value" /\ Place(Contents(State), p, at, v.id) => ~ slab[v.id].inlined
    <2>1. CASE v \in ValuesFor(p)
      <3>1. /\ Puttable(Contents(State), State.handle, p, {}, v)
            /\ \A x : v.tag = "value" => ~ Place(Contents(State), p, x, v.id)
        BY <1>0, <2>1, ValuesForIs
      <3>2. Puttable(Contents(State), State.handle, p, {at}, v)
        BY <3>1 DEF Puttable
      <3> QED  BY <3>1, <3>2
    <2>2. CASE v \notin ValuesFor(p)
      <3>1. v \in Child
        BY <1>2, <2>2 DEF ChildOf
      <3> QED  BY <1>0, <1>2, <2>2, <3>1, AgainIs
    <2> QED  BY <2>1, <2>2
  <1>6. PICK st, k : st = State /\ k = Contents(State)
    OBVIOUS
  <1>7. Settles(st, p, at, v)
    BY <1>0, <1>4, <1>5, <1>6 DEF Settles, Setting
  <1>8. v \in Value
    BY <1>5 DEF Puttable
  <1>9. ASSUME NEW r, Become(r), Whole(r), Alters(Contents(st), Contents(r), p, With(Contents(st)[p].elems, at, v))
        PROVE  Keeps
    <2>1. Moves(k, Contents(r))
      BY <1>3, <1>4, <1>6, <1>8, <1>9 DEF Moves
    <2> QED  BY <1>6, <1>9, <2>1, KeepsIs
  <1>10. CASE slab[p].kind = "array"
    <2>1. PICK r : r = ArraySet(st, p, at, v)
      OBVIOUS
    <2>2. Become(r)
      BY <1>2, <1>6, <1>10, <2>1
    <2>3. Whole(r) /\ Alters(Contents(st), Contents(r), p, With(Contents(st)[p].elems, at, v))
      BY <1>0, <1>6, <1>7, <1>10, <2>1, ArraySetCall
    <2> QED  BY <1>9, <2>2, <2>3
  <1>11. CASE slab[p].kind # "array"
    <2>1. PICK r : r = MapSet(st, p, at, v)
      OBVIOUS
    <2>2. Become(r)
      BY <1>2, <1>6, <1>11, <2>1
    <2>3. Whole(r) /\ Alters(Contents(st), Contents(r), p, With(Contents(st)[p].elems, at, v))
      <3>1. st.slab[p].kind = "map"
        BY <1>0, <1>3, <1>6, <1>11 DEF Kind
      <3> QED  BY <1>7, <2>1, <3>1, MapSetCall
    <2> QED  BY <1>9, <2>2, <2>3
  <1> QED  BY <1>10, <1>11

\* Array.Insert.
LEMMA InsertKeeps ==
    ASSUME NestingInv, NEW p \in Container, InsertElement(p)
    PROVE  Keeps
  <1>0. /\ Whole(State) /\ State \in States /\ Contents(State) \in Programs
        /\ State.slab = slab /\ State.handle = handle /\ slab[p] # None /\ handle[p] # None
        /\ slab[p].kind = "array"
    BY InvIs DEF InsertElement, Calls, Exists
  <1>1. PICK at \in 1..Len(slab[p].elems) + 1, v \in ValuesFor(p) : Become(Insert(State, p, at, v))
    BY DEF InsertElement
  <1>2. Puttable(Contents(State), State.handle, p, {}, v) /\ v \in Value
    BY <1>0, ValuesForIs DEF Puttable
  <1>3. PICK st, k : st = State /\ k = Contents(State)
    OBVIOUS
  <1>4. Inserting(st, p, at, v)
    BY <1>0, <1>2, <1>3 DEF Inserting
  <1>5. PICK r : r = Insert(st, p, at, v)
    OBVIOUS
  <1>6. Whole(r) /\ Alters(Contents(st), Contents(r), p, InsertAt(Contents(st)[p].elems, at, v))
    BY <1>4, <1>5, InsertCall
  <1>7. k[p] # None /\ k[p].kind = "array" /\ at \in 1..Len(k[p].elems) + 1
    BY <1>0, <1>3, HeldIs, ValuesAre
  <1>8. Moves(k, Contents(r))
    BY <1>2, <1>3, <1>6, <1>7 DEF Moves
  <1>9. Become(r)
    BY <1>1, <1>3, <1>5
  <1> QED  BY <1>3, <1>6, <1>8, <1>9, KeepsIs

\* Array.Remove and OrderedMap.Remove.
LEMMA RemoveKeeps ==
    ASSUME NestingInv, NEW p \in Container, RemoveAny(p)
    PROVE  Keeps
  <1>0. /\ Whole(State) /\ State \in States
        /\ State.slab = slab /\ State.handle = handle /\ slab[p] # None /\ handle[p] # None
    BY InvIs DEF RemoveAny, Calls, Exists
  <1>1. PICK at \in DOMAIN slab[p].elems :
          Become(IF slab[p].kind = "array" THEN ArrayRemove(State, p, at)
                                           ELSE MapRemove(State, p, at))
    BY DEF RemoveAny
  <1>2. PICK st, k : st = State /\ k = Contents(State)
    OBVIOUS
  <1>3. /\ k[p] # None /\ k[p].kind = slab[p].kind
        /\ at \in DOMAIN k[p].elems /\ slab[p].kind \in Kind
    BY <1>0, <1>2, HeldIs
  <1>4. Removing(st, p, at)
    BY <1>0, <1>2 DEF Removing
  <1>5. CASE slab[p].kind = "array"
    <2>1. PICK r : r = ArrayRemove(st, p, at)
      OBVIOUS
    <2>2. Become(r)
      BY <1>1, <1>2, <1>5, <2>1
    <2>3. Whole(r) /\ Alters(Contents(st), Contents(r), p, RemoveAt(Contents(st)[p].elems, at))
      BY <1>0, <1>2, <1>4, <1>5, <2>1, ArrayRemoveCall
    <2>4. Alters(k, Contents(r), p, IF k[p].kind = "array" THEN RemoveAt(k[p].elems, at)
                                                          ELSE Without(k[p].elems, at))
      BY <1>2, <1>3, <1>5, <2>3
    <2>5. Moves(k, Contents(r))
      BY <1>3, <2>4 DEF Moves
    <2> QED  BY <1>2, <2>2, <2>3, <2>5, KeepsIs
  <1>6. CASE slab[p].kind # "array"
    <2>1. PICK r : r = MapRemove(st, p, at)
      OBVIOUS
    <2>2. Become(r)
      BY <1>1, <1>2, <1>6, <2>1
    <2>3. st.slab[p].kind = "map"
      BY <1>0, <1>2, <1>3, <1>6 DEF Kind
    <2>4. Whole(r) /\ Alters(Contents(st), Contents(r), p, Without(Contents(st)[p].elems, at))
      BY <1>4, <2>1, <2>3, MapRemoveCall
    <2>5. Alters(k, Contents(r), p, IF k[p].kind = "array" THEN RemoveAt(k[p].elems, at)
                                                          ELSE Without(k[p].elems, at))
      BY <1>2, <1>3, <1>6, <2>4
    <2>6. Moves(k, Contents(r))
      BY <1>3, <2>5 DEF Moves
    <2> QED  BY <1>2, <2>2, <2>4, <2>6, KeepsIs
  <1> QED  BY <1>5, <1>6

\* Array.SetType and OrderedMap.SetType.
LEMMA SetTypeKeeps ==
    ASSUME NestingInv, NEW c \in Container, SetType(c)
    PROVE  Keeps
  <1>0. /\ Whole(State) /\ State.slab = slab /\ State.handle = handle
        /\ slab[c] # None /\ handle[c] # None
    BY InvIs DEF SetType, Calls, Exists
  <1>1. PICK type \in Types : Become(SetTypeInfo(State, c, type))
    BY DEF SetType
  <1>2. PICK st, k : st = State /\ k = Contents(State)
    OBVIOUS
  <1>3. PICK r : r = SetTypeInfo(st, c, type)
    OBVIOUS
  <1>4. Whole(r) /\ Retypes(Contents(st), Contents(r), c, type)
    BY <1>0, <1>2, <1>3, SetTypeCall
  <1>5. Moves(k, Contents(r))
    BY <1>2, <1>4 DEF Moves
  <1>6. Become(r)
    BY <1>1, <1>2, <1>3
  <1> QED  BY <1>2, <1>4, <1>5, <1>6, KeepsIs

\* PopIterate.
LEMMA PopKeeps ==
    ASSUME NestingInv, NEW c \in Container, PopIterate(c)
    PROVE  Keeps
  <1>0. /\ Whole(State) /\ State.slab = slab /\ State.handle = handle
        /\ slab[c] # None /\ handle[c] # None
        /\ Standalone(c) /\ \A d \in DescendantsOf(c) : handle[d] = None
    BY InvIs DEF PopIterate, Calls, Exists
  <1>1. PICK st, k, gone : st = State /\ k = Contents(State) /\ gone = InlinedIn(State, c)
    OBVIOUS
  <1>2. Become(Popped(State, c, InlinedIn(State, c)))
    BY DEF PopIterate, Popped
  <1>3. Popping(st, c)
    BY <1>0, <1>1, ModelIs DEF Popping
  <1>4. PICK r : r = Popped(st, c, gone)
    OBVIOUS
  <1>5. Whole(r) /\ Pops(Contents(st), Contents(r), c, gone)
    BY <1>1, <1>3, <1>4, PopCall
  <1>6. gone \in SUBSET Container
    BY <1>1 DEF InlinedIn, Below
  <1>7. Moves(k, Contents(r))
    BY <1>1, <1>5, <1>6 DEF Moves
  <1>8. Become(r)
    BY <1>1, <1>2, <1>4
  <1> QED  BY <1>1, <1>5, <1>7, <1>8, KeepsIs

\* Every call keeps the invariant and does what Nesting says.
LEMMA NextKeeps ==
    ASSUME "Set" \notin Unguarded, NestingInv, [Next]_vars
    PROVE  Keeps
  <1>1. CASE UNCHANGED vars
    <2>1. State' = State
      BY <1>1 DEF vars, State
    <2>2. NestingInv'
      BY <2>1 DEF NestingInv
    <2>3. Moves(Contents(State), Contents(State'))
      BY <2>1 DEF Moves
    <2> QED  BY <2>2, <2>3 DEF Keeps
  <1>2. CASE Next
    <2>1. PICK c \in Container :
             \/ NewContainer(c) \/ LoadContainer(c) \/ GetChild(c)
             \/ SetElement(c) \/ InsertElement(c) \/ RemoveAny(c)
             \/ SetType(c) \/ PopIterate(c)
      BY <1>2 DEF Next
    <2>2. CASE NewContainer(c)
      BY <2>2, NewKeeps
    <2>3. CASE LoadContainer(c)
      BY <2>3, LoadKeeps
    <2>4. CASE GetChild(c)
      BY <2>4, GetKeeps
    <2>5. CASE SetElement(c)
      BY <2>5, SetKeeps
    <2>6. CASE InsertElement(c)
      BY <2>6, InsertKeeps
    <2>7. CASE RemoveAny(c)
      BY <2>7, RemoveKeeps
    <2>8. CASE SetType(c)
      BY <2>8, SetTypeKeeps
    <2>9. CASE PopIterate(c)
      BY <2>9, PopKeeps
    <2> QED  BY <2>1, <2>2, <2>3, <2>4, <2>5, <2>6, <2>7, <2>8, <2>9
  <1> QED  BY <1>1, <1>2

-----------------------------------------------------------------------------
(* What the invariant says to the program.                                 *)

\* Containers are as VerifyArray and VerifyMap want them.
LEMMA InvValid == NestingInv => NestingIsValid
  <1> SUFFICES ASSUME NestingInv PROVE NestingIsValid
    OBVIOUS
  <1>0. PICK st : st = State
    OBVIOUS
  <1>1. /\ st \in States /\ st.slab = slab /\ Sound(st, None, {})
        /\ \A c \in Container : slab[c] # None => slab[c] \in Slab
    BY <1>0, InvIs
  <1>2. TagsFit(st) /\ SizesFit(st, None) /\ InlinedHavePlace(st, {})
    BY <1>1 DEF Sound
  <1>3. ASSUME NEW p \in Container, slab[p] # None, slab[p].inlined
        PROVE  ~ Standalone(p)
    <2>1. PICK q \in Container : p \in SlabsIn(st, q)
      BY <1>1, <1>2, <1>3 DEF InlinedHavePlace
    <2>2. PICK x \in DOMAIN SlabElems(st, q) :
             SlabElems(st, q)[x].tag = "slab" /\ SlabElems(st, q)[x].id = p
      BY <2>1 DEF SlabsIn
    <2>3. Place(Contents(st), q, x, p)
      BY <1>1, <2>2, PlaceInSlab DEF IsChild
    <2>4. p \in Kids(Contents(st), q)
      BY <2>3, KidsAre
    <2> QED  BY <1>0, <2>4, ModelIs
  <1>4. ASSUME NEW p \in Container, slab[p] # None
        PROVE  slab[p].size = PrefixSize(slab[p])
                 + (IF slab[p].kind = "array" THEN SumSizes(State, slab[p].elems)
                                              ELSE SumCached(slab[p].cached))
    <2>1. None \notin SlabsIn(st, p)
      BY NoneIsNot DEF SlabsIn
    <2>2. SizeIs(st, p)
      BY <1>1, <1>2, <1>4, <2>1 DEF SizesFit
    <2> QED  BY <1>0, <1>1, <2>2 DEF SizeIs
  <1>5. ASSUME NEW p \in Container, slab[p] # None, NEW x \in DOMAIN slab[p].elems
        PROVE  /\ slab[p].kind = "map" =>
                    slab[p].cached[x] = ElementOverhead + ByteSize(State, slab[p].elems[x])
               /\ IsChild(slab[p].elems[x]) =>
                    LET e   == slab[p].elems[x]
                        fit == Inlinable(slab[e.id], MaxInlineSize[slab[p].kind] - e.wrap)
                    IN slab[e.id].inlined = fit /\ e.tag = (IF fit THEN "slab" ELSE "ref")
    <2>0. PICK e : e = slab[p].elems[x]
      OBVIOUS
    <2>1. SlabElems(st, p) = slab[p].elems
      BY <1>1, <1>5 DEF SlabElems
    <2>2. e \in Element
      BY <1>1, <2>0, <2>1, SlabElemsAre
    <2>3. IsChild(e) => e.id \in Container /\ e.tag \in {"slab", "ref"}
      BY <2>2 DEF Element, Plain, Link, IsChild
    <2>4. ~ (e.tag = "slab" /\ e.id = None)
      BY <2>3, NoneIsNot DEF IsChild
    <2>5. slab[p].kind = "map" => slab[p].cached[x] = ElementOverhead + ByteSize(st, e)
      BY <1>1, <1>2, <1>5, <2>0, <2>4 DEF SizesFit
    <2>6. ASSUME IsChild(e)
          PROVE  /\ slab[e.id].inlined = Inlinable(slab[e.id], MaxInlineSize[slab[p].kind] - e.wrap)
                 /\ e.tag = (IF Inlinable(slab[e.id], MaxInlineSize[slab[p].kind] - e.wrap)
                               THEN "slab" ELSE "ref")
      <3>1. PICK c \in Container : c = e.id
        BY <2>3, <2>6
      <3>2. slab[c] # None
        <4>1. Place(Contents(st), p, x, c)
          BY <1>1, <1>5, <2>0, <2>1, <2>6, <3>1, PlaceInSlab
        <4>2. x \in DOMAIN Elems(Contents(st), p)
          BY <4>1 DEF Place
        <4>3. Contents(st)[c] # None
          BY <1>1, <4>1, <4>2 DEF Sound, Nest, ChildrenExist
        <4> QED  BY <1>1, <4>3, ContentsAre
      <3>3. slab[c].inlined \in BOOLEAN
        BY <1>1, <3>2 DEF Slab
      <3>4. c # None
        BY NoneIsNot
      <3>5. slab[c].inlined <=> Inlinable(slab[c], MaxInlineSize[slab[p].kind] - e.wrap)
        BY <1>1, <1>2, <1>5, <2>0, <2>6, <3>1, <3>4 DEF SizesFit
      <3>6. e.tag = "slab" <=> slab[c].inlined
        BY <1>1, <1>2, <1>5, <2>0, <2>1, <2>6, <3>1 DEF TagsFit
      <3>7. Inlinable(slab[c], MaxInlineSize[slab[p].kind] - e.wrap) \in BOOLEAN
        BY DEF Inlinable
      <3>8. slab[c].inlined = Inlinable(slab[c], MaxInlineSize[slab[p].kind] - e.wrap)
        BY <3>3, <3>5, <3>7
      <3>9. e.tag = (IF Inlinable(slab[c], MaxInlineSize[slab[p].kind] - e.wrap)
                       THEN "slab" ELSE "ref")
        BY <2>3, <2>6, <3>5, <3>6
      <3> QED  BY <3>1, <3>8, <3>9
    <2> QED  BY <1>0, <2>0, <2>5, <2>6
  <1> QED  BY <1>3, <1>4, <1>5 DEF NestingIsValid, Exists

\* No change is lost.
LEMMA InvSaved == NestingInv => ChangesReachStorage
  <1> SUFFICES ASSUME NestingInv PROVE ChangesReachStorage
    OBVIOUS
  <1>1. /\ State.slab = slab /\ State.stored = stored /\ Saved(State, None)
    BY InvIs DEF Sound
  <1>2. \A c \in Container : None \notin InlinedIn(State, c)
    BY NoneIsNot DEF InlinedIn, Below
  <1> QED  BY <1>1, <1>2 DEF Saved, ChangesReachStorage, Exists

\* Handles lead to where children are.
LEMMA InvReach == NestingInv => HandlesReachParents
  <1> SUFFICES ASSUME NestingInv PROVE HandlesReachParents
    OBVIOUS
  <1>0. PICK st, k : st = State /\ k = Contents(State)
    OBVIOUS
  <1>1. /\ st \in States /\ st.slab = slab /\ st.handle = handle /\ ~ failed
        /\ Handled(k, handle, {}, {}) /\ handle \in Handles /\ k = Contents(st)
        /\ \A c \in Container : slab[c] # None => slab[c] \in Slab
    BY <1>0, InvIs DEF Handled
  <1>2. ASSUME NEW p \in Container, slab[p] # None, NEW x \in DOMAIN slab[p].elems,
               IsChild(slab[p].elems[x]), handle[slab[p].elems[x].id] # None
        PROVE  LET e == slab[p].elems[x]
               IN /\ handle[e.id].updater # None /\ handle[e.id].updater.parent = p
                  /\ handle[e.id].updater.wrap = e.wrap
                  /\ UpdaterPosition(State, e.id) = x
    <2>0. PICK e : e = slab[p].elems[x]
      OBVIOUS
    <2>1. SlabElems(st, p) = slab[p].elems
      BY <1>1, <1>2 DEF SlabElems
    <2>2. e \in Element
      BY <1>1, <2>0, <2>1, SlabElemsAre
    <2>3. e.id \in Container /\ e.wrap \in Wraps
      BY <1>2, <2>0, <2>2 DEF Element, Plain, Link, IsChild
    <2>4. PICK c \in Container : c = e.id
      BY <2>3
    <2>5. Place(k, p, x, c) /\ x \in DOMAIN Elems(k, p)
      <3>1. Place(k, p, x, c)
        BY <1>1, <1>2, <2>0, <2>1, <2>4, PlaceInSlab
      <3> QED  BY <3>1 DEF Place
    <2>6. /\ k[p].kind = slab[p].kind /\ slab[p].kind \in Kind /\ Elems(k, p)[x] = AsValue(e)
      BY <1>1, <1>2, <2>0, HeldIs
    <2>7. Elems(k, p)[x].wrap = e.wrap
      BY <1>2, <2>0, <2>6 DEF AsValue
    <2>8. /\ handle[p] # None
          /\ handle[c].updater = [parent |-> p, wrap |-> e.wrap,
                                  key |-> IF k[p].kind = "array" THEN None ELSE x]
          /\ k[p].kind = "array" => c \in DOMAIN handle[p].index /\ handle[p].index[c] = x
      BY <1>1, <1>2, <2>0, <2>4, <2>5, <2>7 DEF Handled, Linked
    <2>9. handle[c].updater # None
      <3>1. handle[c] \in Handle /\ p # None
        BY <1>1, <1>2, <2>0, <2>4, NoneIsNot DEF Handles
      <3>2. handle[c].updater \in Updater
        <4>1. x \in Key \/ k[p].kind = "array"
          <5>1. slab[p] \in Slab
            BY <1>1, <1>2
          <5> QED  BY <1>2, <2>6, <5>1 DEF Slab, Kind
        <4> QED  BY <2>3, <2>8, <4>1 DEF Updater
      <3> QED  BY <3>2, NoneIsNot
    <2>10. UpdaterPosition(st, c) = x
      <3>1. st.handle[c].updater.parent = p /\ st.handle[c].updater.key = IF k[p].kind = "array" THEN None ELSE x
        BY <1>1, <2>8
      <3>2. CASE slab[p].kind = "array"
        <4>1. PositionInArray(st, p, c) = x
          BY <1>1, <2>6, <2>8, <3>2 DEF PositionInArray
        <4> QED  BY <1>1, <3>1, <3>2, <4>1 DEF UpdaterPosition
      <3>3. CASE slab[p].kind # "array"
        <4>1. st.handle[c].updater.key = x
          BY <2>6, <3>1, <3>3
        <4>2. PositionInMap(st, p, x) = x
          BY <1>1, <1>2 DEF PositionInMap
        <4> QED  BY <1>1, <3>1, <3>3, <4>1, <4>2 DEF UpdaterPosition
      <3> QED  BY <3>2, <3>3
    <2> QED  BY <1>0, <2>0, <2>4, <2>8, <2>9, <2>10
  <1>3. ASSUME NEW p \in Container, handle[p] # None, NEW c \in DOMAIN handle[p].index
        PROVE  c \in ChildrenOf(p)
    <2>1. handle[p] \in Handle
      BY <1>1, <1>3 DEF Handles
    <2>2. c \in Container
      BY <1>3, <2>1, HandleIs
    <2>3. Place(k, p, handle[p].index[c], c)
      BY <1>1, <1>3 DEF Handled, Indexed
    <2>4. c \in Kids(k, p)
      BY <2>2, <2>3, KidsAre
    <2> QED  BY <1>0, <2>4, ModelIs
  <1> QED  BY <1>1, <1>2, <1>3 DEF HandlesReachParents, Exists

\* The invariant of arrays and maps in one another: the containers nest, each
\* slab has the size of what is in it, is inlined exactly when it fits and is
\* stored as it is, and every handle leads to its parent.  It holds after every
\* call of Array and OrderedMap (array.go, map.go), as long as an inlined child
\* is not set again in its own place.
THEOREM NestingInvariant ==
    ASSUME "Set" \notin Unguarded
    PROVE  Spec => []NestingInv
  <1>1. NestingInv /\ [Next]_vars => NestingInv'
    BY NextKeeps DEF Keeps
  <1> QED  BY <1>1, InitInv, PTL DEF Spec

\* NestingIsValid: sizes add up and children are inlined exactly when they fit.
THEOREM NestingStaysValid ==
    ASSUME "Set" \notin Unguarded
    PROVE  Spec => []NestingIsValid
  BY NestingInvariant, InvValid, PTL

\* ChangesReachStorage: notifyParentIfNeeded (array.go:364) leaves no slab that
\* the storage has an old version of.
THEOREM NestedChangesAreSaved ==
    ASSUME "Set" \notin Unguarded
    PROVE  Spec => []ChangesReachStorage
  BY NestingInvariant, InvSaved, PTL

\* HandlesReachParents: parentUpdater and mutableElementIndex (array.go:46) lead
\* to the child, and no call fails.
THEOREM HandlesStayLinked ==
    ASSUME "Set" \notin Unguarded
    PROVE  Spec => []HandlesReachParents
  BY NestingInvariant, InvReach, PTL

-----------------------------------------------------------------------------
(* What Nesting promises.                                                  *)

\* A content is its three parts.
LEMMA ContentParts ==
    ASSUME NEW k \in Programs, NEW c \in Container, k[c] # None
    PROVE  /\ k[c] \in Content
           /\ \A elems : [k[c] EXCEPT !.elems = elems]
                = [kind |-> k[c].kind, type |-> k[c].type, elems |-> elems]
           /\ \A type : [k[c] EXCEPT !.type = type]
                = [kind |-> k[c].kind, type |-> type, elems |-> k[c].elems]
  <1>1. k[c] \in Content
    BY DEF Programs
  <1>2. k[c] = [kind |-> k[c].kind, type |-> k[c].type, elems |-> k[c].elems]
    <2>1. k[c] \in Holding(Value)
      BY <1>1 DEF Content
    <2> QED  BY <2>1, ContentIs
  <1> QED  BY <1>1, <1>2

\* A call that puts a value in a place is a Set of Nesting.
LEMMA WithIsSet ==
    ASSUME NEW k \in Programs, NEW k2, NEW c \in Container, k[c] # None, NEW at, NEW value \in Value,
           IsPlaceFor(k, c, at), Alters(k, k2, c, With(k[c].elems, at, value))
    PROVE  Promise!Set(k[c], k2[c]) /\ k2[c] # None
  <1>1. k2[c] = [kind |-> k[c].kind, type |-> k[c].type, elems |-> With(k[c].elems, at, value)]
    BY DEF Alters
  <1>2. PICK elems : elems = With(k[c].elems, at, value)
    OBVIOUS
  <1>3. /\ DOMAIN elems = DOMAIN k[c].elems \cup {at} /\ elems[at] = value
        /\ elems = [x \in DOMAIN k[c].elems \cup {at} |-> IF x = at THEN elems[at] ELSE k[c].elems[x]]
    BY <1>2 DEF With
  <1>4. k2[c].elems = elems /\ k2[c] = [k[c] EXCEPT !.elems = elems]
    BY <1>1, <1>2, ContentParts
  <1>5. at \in IF k[c].kind = "array" THEN DOMAIN k[c].elems ELSE Key
    <2>1. k[c].kind \in Kind /\ (k[c].kind = "map" => DOMAIN k[c].elems \in SUBSET Key)
      BY ContentParts, ContentIs DEF Content
    <2> QED  BY <2>1 DEF IsPlaceFor, Kind
  <1>6. Promise!Elements(k[c], k2[c], [x \in DOMAIN k[c].elems \cup {at} |->
                                        IF x = at THEN k2[c].elems[at] ELSE k[c].elems[x]])
    BY <1>3, <1>4 DEF Promise!Elements
  <1>7. at \in DOMAIN k2[c].elems /\ k2[c].elems[at] \in Plain \cup Child
    BY <1>3, <1>4 DEF Value
  <1>8. k2[c] # None
    <2>1. /\ k2[c] # None /\ k2[c].kind = k[c].kind
          /\ DOMAIN Elems(k2, c) = DOMAIN Elems(k, c) \cup {at}
          /\ Elems(k2, c)[at] = value
          /\ \A x \in DOMAIN Elems(k2, c) : x # at => x \in DOMAIN Elems(k, c)
                                                      /\ Elems(k2, c)[x] = Elems(k, c)[x]
          /\ \A d \in Container : d # c => k2[d] = k[d] /\ Elems(k2, d) = Elems(k, d)
          /\ k2 \in Programs
      BY WithValue, Zenon
    <2> QED  BY <2>1
  <1> QED  BY <1>5, <1>6, <1>7, <1>8 DEF Promise!Set

\* A call that inserts a value is an Insert of Nesting.
LEMMA InsertIsInsert ==
    ASSUME NEW k \in Programs, NEW k2, NEW c \in Container, k[c] # None, k[c].kind = "array",
           NEW at \in 1..Len(k[c].elems) + 1, NEW value \in Value,
           Alters(k, k2, c, InsertAt(k[c].elems, at, value))
    PROVE  Promise!Insert(k[c], k2[c]) /\ k2[c] # None
  <1>1. k2[c] = [kind |-> k[c].kind, type |-> k[c].type, elems |-> InsertAt(k[c].elems, at, value)]
    BY DEF Alters
  <1>2. PICK old, elems : old = k[c].elems /\ elems = InsertAt(k[c].elems, at, value)
    OBVIOUS
  <1>3. old \in Seq(Value)
    BY <1>2, ContentParts, ContentIs DEF Content
  <1>4. at \in 1..Len(old) + 1 /\ elems = InsertAt(old, at, value)
    BY <1>2
  <1>5. at \in DOMAIN elems /\ elems[at] = value
    <2>1. elems \in Seq(Value) /\ Inserted(elems, old, at, value)
      BY <1>3, <1>4, InsertedAt
    <2>2. Len(elems) = Len(old) + 1 /\ elems[at] = value
      BY <1>3, <1>4, <2>1 DEF Inserted
    <2> QED  BY <1>3, <1>4, <2>1, <2>2
  <1>6. k2[c].elems = elems /\ k2[c] = [k[c] EXCEPT !.elems = elems]
    BY <1>1, <1>2, ContentParts
  <1>7. Promise!Elements(k[c], k2[c], InsertAt(k[c].elems, at, k2[c].elems[at]))
    BY <1>2, <1>5, <1>6 DEF Promise!Elements
  <1>8. /\ at \in DOMAIN k2[c].elems /\ k2[c].elems[at] \in Plain \cup Child
        /\ at <= Len(k[c].elems) + 1
    BY <1>2, <1>3, <1>4, <1>5, <1>6 DEF Value
  <1>9. k2[c] # None
    BY InsertedValue DEF Arrays
  <1> QED  BY <1>7, <1>8, <1>9 DEF Promise!Insert, Promise!InsertAt, InsertAt

\* A call that takes a value out is a RemoveOne of Nesting.
LEMMA WithoutIsRemove ==
    ASSUME NEW k \in Programs, NEW k2, NEW c \in Container, k[c] # None,
           NEW at \in DOMAIN k[c].elems,
           Alters(k, k2, c, IF k[c].kind = "array" THEN RemoveAt(k[c].elems, at)
                                                   ELSE Without(k[c].elems, at))
    PROVE  Promise!RemoveOne(k[c], k2[c]) /\ k2[c] # None
  <1>1. PICK elems : elems = IF k[c].kind = "array" THEN RemoveAt(k[c].elems, at)
                             ELSE [x \in DOMAIN k[c].elems \ {at} |-> k[c].elems[x]]
    OBVIOUS
  <1>2. Alters(k, k2, c, elems)
    BY <1>1 DEF Without
  <1>3. k2[c] = [k[c] EXCEPT !.elems = elems]
    BY <1>2, ContentParts DEF Alters
  <1>4. Promise!Elements(k[c], k2[c], elems)
    BY <1>3 DEF Promise!Elements
  <1>5. \/ (k[c].kind = "array" /\ elems \in Seq(Value))
        \/ (k[c].kind = "map" /\ \E keys \in SUBSET Key : elems \in [keys -> Value])
    <2>1. /\ k[c].kind \in Kind
          /\ k[c].kind = "array" => k[c].elems \in Seq(Value)
          /\ k[c].kind = "map" => /\ DOMAIN k[c].elems \in SUBSET Key
                                 /\ k[c].elems \in [DOMAIN k[c].elems -> Value]
      BY ContentParts, ContentIs DEF Content
    <2>2. CASE k[c].kind = "array"
      <3>1. at \in 1..Len(k[c].elems)
        BY <2>1, <2>2
      <3> QED  BY <1>1, <2>1, <2>2, <3>1, RemovedAt
    <2>3. CASE k[c].kind = "map"
      <3>1. elems \in [DOMAIN k[c].elems \ {at} -> Value]
        BY <1>1, <2>1, <2>3
      <3> QED  BY <2>1, <2>3, <3>1
    <2> QED  BY <2>1, <2>2, <2>3 DEF Kind
  <1>6. k[c].type \in Types
    BY ContentParts, ContentIs DEF Content
  <1>7. [kind |-> k[c].kind, type |-> k[c].type, elems |-> elems] \in Content
    BY <1>5, <1>6, IsContent DEF Content
  <1>8. k2[c] # None
    BY <1>2, <1>7, NoneIsNot DEF Alters
  <1> QED  BY <1>1, <1>4, <1>8 DEF Promise!RemoveOne, Promise!RemoveAt, RemoveAt

\* A container with a new type is a container.
LEMMA RetypedIsContent ==
    ASSUME NEW k \in Programs, NEW k2, NEW c \in Container, k[c] # None, NEW type \in Types,
           Retypes(k, k2, c, type)
    PROVE  k2[c] # None
  <1>1. /\ k[c].kind \in Kind
        /\ k[c].kind = "array" => k[c].elems \in Seq(Value)
        /\ k[c].kind = "map" => /\ DOMAIN k[c].elems \in SUBSET Key
                               /\ k[c].elems \in [DOMAIN k[c].elems -> Value]
    BY ContentParts, ContentIs DEF Content
  <1>2. [kind |-> k[c].kind, type |-> type, elems |-> k[c].elems] \in Content
    BY <1>1, IsContent DEF Content, Kind
  <1> QED  BY <1>2, NoneIsNot DEF Retypes

\* A step of a program's containers is a step of Nesting.
LEMMA MovesIsNext ==
    ASSUME NestingInv, Contents(State') \in Programs, Moves(Contents(State), Contents(State'))
    PROVE  Promise!Next \/ UNCHANGED [c \in Container |-> ContentsIn(State, c)]
  <1>0. PICK k : k = [c \in Container |-> ContentsIn(State, c)]
    OBVIOUS
  <1>1. PICK k2 : k2 = [c \in Container |-> ContentsIn(State', c)]
    OBVIOUS
  <1>2. k = Contents(State) /\ k2 = Contents(State')
    BY <1>0, <1>1 DEF Contents
  <1>3. k \in Programs /\ k2 \in Programs
    BY <1>2, InvIs
  <1>4. k2 = [c \in Container |-> ContentsIn(State, c)]'
    BY <1>1
  <1>5. CASE k2 = k
    BY <1>0, <1>4, <1>5
  <1>6. ASSUME NEW c \in Container, k[c] # None, k2[c] # None,
               \A d \in Container : d # c => k2[d] = k[d],
               \/ Promise!Set(k[c], k2[c]) \/ Promise!Insert(k[c], k2[c])
               \/ Promise!RemoveOne(k[c], k2[c]) \/ Promise!SetType(k[c], k2[c])
        PROVE  Promise!Next
    <2>1. Promise!Change(c)
      BY <1>0, <1>4, <1>6 DEF Promise!Change
    <2> QED  BY <2>1 DEF Promise!Next
  <1>7. ASSUME NEW c \in Container, NEW elems, Alters(k, k2, c, elems)
        PROVE  \A d \in Container : d # c => k2[d] = k[d]
    BY <1>7 DEF Alters
  <1>8. ASSUME NEW c \in Container,
               \E kind \in Kind, type \in Types : Creates(k, k2, c, kind, type)
        PROVE  Promise!Next
    <2>1. PICK kind \in Kind, type \in Types : Creates(k, k2, c, kind, type)
      BY <1>8
    <2>2. k2[c] \in [kind : {"array", "map"}, type : Types, elems : {<<>>}]
      BY <2>1 DEF Creates, Kind
    <2>3. Promise!New(k[c], k2[c])
      BY <2>1, <2>2 DEF Promise!New, Creates
    <2>4. \A d \in Container \ {c} : k2[d] = k[d]
      BY <2>1 DEF Creates
    <2>5. Promise!Change(c)
      BY <1>0, <1>4, <2>3, <2>4 DEF Promise!Change
    <2> QED  BY <2>5 DEF Promise!Next
  <1>9. ASSUME NEW c \in Container, \E gone \in SUBSET Container : Pops(k, k2, c, gone)
        PROVE  Promise!Next
    <2>1. PICK gone \in SUBSET Container : Pops(k, k2, c, gone)
      BY <1>9
    <2>2. k[c] # None /\ k2[c] = [k[c] EXCEPT !.elems = <<>>]
      BY <1>3, <2>1, ContentParts DEF Pops
    <2>3. \A d \in Container \ {c} : k2[d] \in {None, k[d]}
      BY <2>1 DEF Pops
    <2>4. Promise!PopIterate(c)
      BY <1>0, <1>4, <2>2, <2>3 DEF Promise!PopIterate
    <2> QED  BY <2>4 DEF Promise!Next
  <1>10. ASSUME NEW c \in Container, \E type \in Types : Retypes(k, k2, c, type)
         PROVE  Promise!Next
    <2>1. PICK type \in Types : Retypes(k, k2, c, type)
      BY <1>10
    <2>2. k[c] # None /\ k2[c] = [k[c] EXCEPT !.type = type]
      BY <1>3, <2>1, ContentParts DEF Retypes
    <2>3. Promise!SetType(k[c], k2[c])
      BY <2>2 DEF Promise!SetType
    <2>4. \A d \in Container : d # c => k2[d] = k[d]
      BY <2>1 DEF Retypes
    <2>5. k2[c] # None
      BY <1>3, <2>1, <2>2, RetypedIsContent
    <2> QED  BY <1>6, <2>2, <2>3, <2>4, <2>5
  <1>11. ASSUME NEW c \in Container, NEW at, NEW value \in Value, k[c] # None,
                IsPlaceFor(k, c, at), Alters(k, k2, c, With(k[c].elems, at, value))
         PROVE  Promise!Next
    BY <1>3, <1>6, <1>7, <1>11, WithIsSet
  <1>12. ASSUME NEW c \in Container, k[c] # None, k[c].kind = "array",
                \E at \in 1..Len(k[c].elems) + 1, value \in Value :
                   Alters(k, k2, c, InsertAt(k[c].elems, at, value))
         PROVE  Promise!Next
    BY <1>3, <1>6, <1>7, <1>12, InsertIsInsert
  <1>13. ASSUME NEW c \in Container, k[c] # None,
                \E at \in DOMAIN k[c].elems :
                   Alters(k, k2, c, IF k[c].kind = "array" THEN RemoveAt(k[c].elems, at)
                                                           ELSE Without(k[c].elems, at))
         PROVE  Promise!Next
    BY <1>3, <1>6, <1>7, <1>13, WithoutIsRemove
  <1>14. Moves(k, k2)
    BY <1>2
  <1> QED  BY <1>0, <1>4, <1>5, <1>8, <1>9, <1>10, <1>11, <1>12, <1>13, <1>14 DEF Moves

\* Containers in containers do what Nesting promises: a call changes what the
\* program sees of the container it is made on, and of no other, wherever the
\* container is stored (array.go, map.go).
THEOREM NestingIsImplemented ==
    ASSUME "Set" \notin Unguarded
    PROVE  Spec => ImplementsNesting
  <1>1. Init => Promise!Init
    <2> SUFFICES ASSUME Init PROVE Promise!Init
      OBVIOUS
    <2>1. \A c \in Container : ContentsIn(State, c) = None
      BY DEF ContentsIn, State, Init
    <2> QED  BY <2>1 DEF Promise!Init
  <1>2. NestingInv /\ [Next]_vars => [Promise!Next]_([c \in Container |-> ContentsIn(State, c)])
    <2> SUFFICES ASSUME NestingInv, [Next]_vars
                 PROVE  Promise!Next \/ UNCHANGED [c \in Container |-> ContentsIn(State, c)]
      OBVIOUS
    <2>1. NestingInv' /\ Moves(Contents(State), Contents(State'))
      BY NextKeeps DEF Keeps
    <2>2. Contents(State') \in Programs
      BY <2>1, WholeIs DEF NestingInv
    <2> QED  BY <2>1, <2>2, MovesIsNext
  <1> QED  BY <1>1, <1>2, NestingInvariant, PTL DEF Spec, ImplementsNesting, Promise!Spec
=============================================================================
