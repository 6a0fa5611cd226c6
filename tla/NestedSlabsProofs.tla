------------------------- MODULE NestedSlabsProofs --------------------------
(***************************************************************************)
(* Lemmas about NestedContainers, for any number of containers, any sizes  *)
(* and any depth of nesting: containers and handles, slabs and their sums  *)
(* of sizes, inlining, what a call does to a slab, and the walk that tells *)
(* the parents.                                                            *)
(***************************************************************************)
EXTENDS NestedContainers, TLAPS, FiniteSetTheorems, WellFoundedInduction, SequenceTheorems

-----------------------------------------------------------------------------
(* Containers as the program sees them, k, and its handles on them, h.     *)

Value == Plain \cup Child

Content == Holding(Value)

Programs == [Container -> Content \cup {None}]

Contents(st) == [c \in Container |-> ContentsIn(st, c)]

Elems(k, p) == IF k[p] = None THEN <<>> ELSE k[p].elems

\* The container c is at x in p.
Place(k, p, x, c) ==
    /\ x \in DOMAIN Elems(k, p)
    /\ Elems(k, p)[x].tag = "value" /\ Elems(k, p)[x].id = c

Kids(k, p) == {c \in Container : \E x \in DOMAIN Elems(k, p) : Place(k, p, x, c)}

Under(k, c) == Below([p \in Container |-> Kids(k, p)], c)

ChildrenExist(k) ==
    \A p, c \in Container : \A x \in DOMAIN Elems(k, p) : Place(k, p, x, c) => k[c] # None

OnePlace(k) ==
    \A p, q, c \in Container : \A x \in DOMAIN Elems(k, p), y \in DOMAIN Elems(k, q) :
        Place(k, p, x, c) /\ Place(k, q, y, c) => p = q /\ x = y

NoCycle(k) == \A c \in Container : c \notin Under(k, c)

Nest(k) == /\ k \in Programs
           /\ ChildrenExist(k) /\ OnePlace(k) /\ NoCycle(k)

\* A child's handle leads to its place, but for the containers in L that a call
\* is about to link to theirs.
Linked(k, h, L) ==
    \A p, c \in Container : \A x \in DOMAIN Elems(k, p) :
        Place(k, p, x, c) /\ c \notin L /\ h[c] # None =>
            /\ h[p] # None
            /\ h[c].updater = [parent |-> p, wrap |-> Elems(k, p)[x].wrap,
                               key |-> IF k[p].kind = "array" THEN None ELSE x]
            /\ k[p].kind = "array" => c \in DOMAIN h[p].index /\ h[p].index[c] = x

\* An array's index has children in their places, but for the pairs in I of an
\* array and a container that a call has taken out of it.
Indexed(k, h, I) ==
    \A p \in Container : h[p] # None =>
        /\ k[p] # None
        /\ \A c \in DOMAIN h[p].index : <<p, c>> \notin I =>
              k[p].kind = "array" /\ Place(k, p, h[p].index[c], c)

UpdatersLead(k, h) ==
    \A c \in Container : h[c] # None /\ h[c].updater # None => k[h[c].updater.parent] # None

\* The program has a handle on what is in an index.
Known(h) ==
    \A p \in Container : h[p] # None => \A c \in DOMAIN h[p].index : c \in Container /\ h[c] # None

Handles == [Container -> Handle \cup {None}]

Handled(k, h, L, I) ==
    /\ h \in Handles /\ Known(h)
    /\ Linked(k, h, L) /\ Indexed(k, h, I) /\ UpdatersLead(k, h)

-----------------------------------------------------------------------------
(* Slabs.  The child "dirty" was changed and its parent was not yet told.  *)

Encoding == UNION {Encodings(containers) : containers \in SUBSET Container}

States == [slab : [Container -> Slab \cup {None}], handle : Handles,
           stored : [Container -> Encoding \cup {None}], failed : {FALSE}]

SlabElems(st, p) == IF st.slab[p] = None THEN <<>> ELSE st.slab[p].elems

SlabsIn(st, p) == {c \in Container : \E x \in DOMAIN SlabElems(st, p) :
                      SlabElems(st, p)[x].tag = "slab" /\ SlabElems(st, p)[x].id = c}

TagsFit(st) ==
    \A p \in Container : \A x \in DOMAIN SlabElems(st, p) :
        LET e == SlabElems(st, p)[x] IN
          IsChild(e) => (e.tag = "slab" <=> st.slab[e.id].inlined)

SizeIs(st, p) ==
    LET s == st.slab[p]
    IN s.size = PrefixSize(s) + (IF s.kind = "array" THEN SumSizes(st, s.elems)
                                                     ELSE SumCached(s.cached))

SizesFit(st, dirty) ==
    \A p \in Container : st.slab[p] # None =>
        LET s == st.slab[p] IN
          /\ s.size >= PrefixSize(s)
          /\ s.kind = "map" \/ dirty \notin SlabsIn(st, p) => SizeIs(st, p)
          /\ s.kind = "map" => DOMAIN s.cached = DOMAIN s.elems
          /\ \A x \in DOMAIN s.elems :
                LET e == s.elems[x] IN
                  /\ s.kind = "map" /\ ~ (e.tag = "slab" /\ e.id = dirty) =>
                        s.cached[x] = ElementOverhead + ByteSize(st, e)
                  /\ IsChild(e) /\ e.id # dirty =>
                        (st.slab[e.id].inlined
                           <=> Inlinable(st.slab[e.id], MaxInlineSize[s.kind] - e.wrap))

\* What is inlined is in a place, but for the containers in X.
InlinedHavePlace(st, X) ==
    \A c \in Container \ X : st.slab[c] # None /\ st.slab[c].inlined =>
        \E p \in Container : c \in SlabsIn(st, p)

Saved(st, dirty) ==
    \A c \in Container :
        IF st.slab[c] # None /\ ~ st.slab[c].inlined
          THEN dirty \in InlinedIn(st, c) \/ st.stored[c] = Encode(st, c)
          ELSE st.stored[c] = None

-----------------------------------------------------------------------------
(* Constants, and what is below a container.                               *)

\* None is nothing else.
LEMMA NoneIsNot ==
    /\ None \notin Container /\ None \notin Key /\ None \notin Nat
    /\ None \notin Slab /\ None \notin Handle /\ None \notin Updater
    /\ None \notin Encoding /\ None \notin Content
  BY NestingAssumption DEF Encoding, Content, Value

\* Sizes are numbers.
LEMMA SizesAre ==
    /\ \A kind \in Kind : /\ RootPrefixSize[kind] \in Nat /\ InlinedPrefixSize[kind] \in Nat
                          /\ MaxInlineSize[kind] \in Nat
    /\ PlainSizes \subseteq Nat /\ Wraps \subseteq Nat
    /\ SlabIDSize \in Nat /\ ElementOverhead \in Nat
  <1>1. \A kind \in Kind : /\ RootPrefixSize[kind] \in Nat /\ InlinedPrefixSize[kind] \in Nat
                           /\ MaxInlineSize[kind] \in Nat
                           /\ PlainSizes \subseteq 1..MaxInlineSize[kind]
                           /\ WrapperSizes[kind] \subseteq Nat
    BY NestingAssumption
  <1>2. PlainSizes \subseteq Nat
    BY <1>1 DEF Kind
  <1>3. Wraps \subseteq Nat
    BY <1>1 DEF Wraps
  <1> QED  BY <1>1, <1>2, <1>3, NestingAssumption

\* What is below c has what edges lead to, and is the smallest such set.
LEMMA BelowIs ==
    ASSUME NEW edges \in [Container -> SUBSET Container], NEW c \in Container
    PROVE  /\ Below(edges, c) \in SUBSET Container
           /\ edges[c] \subseteq Below(edges, c)
           /\ \A x \in Below(edges, c) : edges[x] \subseteq Below(edges, c)
           /\ \A S \in SUBSET Container :
                 edges[c] \subseteq S /\ (\A x \in S : edges[x] \subseteq S)
                    => Below(edges, c) \subseteq S
  <1>1. Below(edges, c) \in SUBSET Container
    BY DEF Below
  <1>2. \A S \in SUBSET Container :
           edges[c] \subseteq S /\ (\A x \in S : edges[x] \subseteq S)
              => Below(edges, c) \subseteq S
    BY DEF Below
  <1>3. edges[c] \subseteq Below(edges, c)
    BY DEF Below
  <1>4. ASSUME NEW x \in Below(edges, c), NEW y \in edges[x]
        PROVE  y \in Below(edges, c)
    <2>1. x \in Container /\ y \in Container
      BY <1>1, <1>4
    <2>2. ASSUME NEW S \in SUBSET Container,
                 edges[c] \subseteq S, \A z \in S : edges[z] \subseteq S
          PROVE  y \in S
      <3>1. x \in S
        BY <1>2, <1>4, <2>2
      <3> QED  BY <1>4, <2>2, <3>1
    <2> QED  BY <2>1, <2>2 DEF Below
  <1> QED  BY <1>1, <1>2, <1>3, <1>4

\* What is below what is below c is below c.
LEMMA BelowBelow ==
    ASSUME NEW edges \in [Container -> SUBSET Container], NEW c \in Container,
           NEW d \in Below(edges, c)
    PROVE  Below(edges, d) \subseteq Below(edges, c)
  <1>1. d \in Container /\ edges[d] \subseteq Below(edges, c)
    BY BelowIs
  <1> QED  BY <1>1, BelowIs

\* Something leads to what is below c.
LEMMA BelowFrom ==
    ASSUME NEW edges \in [Container -> SUBSET Container], NEW c \in Container,
           NEW d \in Below(edges, c)
    PROVE  \E x \in {c} \cup Below(edges, c) : d \in edges[x]
  <1> DEFINE S == {e \in Below(edges, c) : \E x \in {c} \cup Below(edges, c) : e \in edges[x]}
  <1>1. S \in SUBSET Container
    BY BelowIs
  <1>2. edges[c] \subseteq S
    BY BelowIs
  <1>3. \A x \in S : edges[x] \subseteq S
    BY BelowIs
  <1>4. Below(edges, c) \subseteq S
    <2> HIDE DEF S
    <2> QED  BY <1>1, <1>2, <1>3, BelowIs
  <1> QED  BY <1>4

\* With fewer edges there is less below.
LEMMA BelowLess ==
    ASSUME NEW edges \in [Container -> SUBSET Container],
           NEW less \in [Container -> SUBSET Container],
           \A x \in Container : less[x] \subseteq edges[x], NEW c \in Container
    PROVE  Below(less, c) \subseteq Below(edges, c)
  <1>1. /\ Below(edges, c) \in SUBSET Container /\ less[c] \subseteq Below(edges, c)
        /\ \A x \in Below(edges, c) : less[x] \subseteq Below(edges, c)
    <2>1. \A x \in Below(edges, c) : x \in Container
      BY BelowIs
    <2> QED  BY <2>1, BelowIs
  <1> QED  BY <1>1, BelowIs

\* Edges of a container that is not below c do not matter.
LEMMA BelowSame ==
    ASSUME NEW edges \in [Container -> SUBSET Container],
           NEW other \in [Container -> SUBSET Container],
           NEW p, \A x \in Container : x # p => other[x] = edges[x],
           NEW c \in Container, p \notin {c} \cup Below(other, c)
    PROVE  Below(edges, c) = Below(other, c)
  <1>1. Below(edges, c) \subseteq Below(other, c)
    <2>1. edges[c] \subseteq Below(other, c)
      BY BelowIs
    <2>2. ASSUME NEW x \in Below(other, c) PROVE edges[x] \subseteq Below(other, c)
      <3>1. x \in Container /\ x # p
        BY <2>2, BelowIs
      <3> QED  BY <2>2, <3>1, BelowIs
    <2>3. Below(other, c) \in SUBSET Container
      BY BelowIs
    <2> QED  BY <2>1, <2>2, <2>3, BelowIs
  <1>2. p \notin Below(edges, c)
    BY <1>1
  <1>3. other[c] \subseteq Below(edges, c)
    BY BelowIs
  <1>4. ASSUME NEW x \in Below(edges, c) PROVE other[x] \subseteq Below(edges, c)
    <2>1. x \in Container /\ x # p
      BY <1>2, <1>4, BelowIs
    <2> QED  BY <1>4, <2>1, BelowIs
  <1>5. Below(other, c) \subseteq Below(edges, c)
    <2>1. Below(edges, c) \in SUBSET Container
      BY BelowIs
    <2> QED  BY <1>3, <1>4, <2>1, BelowIs
  <1> QED  BY <1>1, <1>5

\* A new edge from p to v makes no cycle if v does not lead to p.
LEMMA NoNewCycle ==
    ASSUME NEW edges \in [Container -> SUBSET Container],
           NEW more \in [Container -> SUBSET Container],
           NEW p \in Container, NEW v \in Container,
           \A x \in Container : x # p => more[x] \subseteq edges[x],
           more[p] \subseteq edges[p] \cup {v},
           p # v, p \notin Below(edges, v),
           \A c \in Container : c \notin Below(edges, c),
           NEW c \in Container
    PROVE  c \notin Below(more, c)
  <1> DEFINE D == {v} \cup Below(edges, v)
             B == Below(edges, c)
  <1>1. D \in SUBSET Container /\ B \in SUBSET Container /\ p \notin D
    BY BelowIs
  <1>2. CASE c \in D
    <2>1. B \subseteq D
      BY <1>2, BelowBelow, BelowIs
    <2>2. c # p /\ p \notin B
      BY <1>1, <1>2, <2>1
    <2>3. more[c] \subseteq B
      BY <2>2, BelowIs
    <2>4. \A x \in B : more[x] \subseteq B
      <3> TAKE x \in B
      <3>1. x \in Container /\ x # p
        BY <1>1, <2>2
      <3> QED  BY <3>1, BelowIs
    <2>5. Below(more, c) \subseteq B
      BY <1>1, <2>3, <2>4, BelowIs
    <2> QED  BY <2>5
  <1>3. CASE c \notin D
    <2>1. more[c] \subseteq B \cup D
      BY BelowIs
    <2>2. ASSUME NEW x \in B \cup D PROVE more[x] \subseteq B \cup D
      <3>1. x \in Container /\ more[x] \subseteq edges[x] \cup {v}
        BY <1>1
      <3>2. x \in B => edges[x] \subseteq B
        BY BelowIs
      <3>3. x \in D => edges[x] \subseteq D
        BY BelowIs
      <3> QED  BY <3>1, <3>2, <3>3
    <2>3. Below(more, c) \subseteq B \cup D
      <3> DEFINE S == B \cup D
      <3>1. S \in SUBSET Container /\ more[c] \subseteq S /\ \A x \in S : more[x] \subseteq S
        BY <1>1, <2>1, <2>2
      <3> HIDE DEF S
      <3>2. Below(more, c) \subseteq S
        BY <3>1, BelowIs
      <3> QED  BY <3>2 DEF S
    <2> QED  BY <1>3, <2>3
  <1> QED  BY <1>2, <1>3

-----------------------------------------------------------------------------
(* Containers in containers.                                               *)

\* A value is plain or a container.
LEMMA ValueIs ==
    ASSUME NEW v \in Value
    PROVE  /\ v.tag = "value" => v \in Child /\ v.id \in Container /\ v.wrap \in Wraps
           /\ v.tag # "value" => v \in Plain /\ v.tag = "plain"
           /\ v.tag = "plain" => v \in Plain
           /\ v \in Plain <=> v.tag = "plain"
  BY DEF Value, Plain, Child

\* What a container holds.
LEMMA ContentIs ==
    ASSUME NEW values, NEW s \in Holding(values)
    PROVE  /\ s.kind \in Kind /\ s.type \in Types
           /\ s = [kind |-> s.kind, type |-> s.type, elems |-> s.elems]
           /\ s.kind = "array" => s.elems \in Seq(values)
           /\ s.kind = "map" => /\ DOMAIN s.elems \in SUBSET Key
                                /\ s.elems \in [DOMAIN s.elems -> values]
           /\ \A x \in DOMAIN s.elems : s.elems[x] \in values
           /\ s.elems = [x \in DOMAIN s.elems |-> s.elems[x]]
  <1>1. CASE s \in [kind : {"array"}, type : Types, elems : Seq(values)]
    BY <1>1 DEF Kind
  <1>2. CASE s \in [kind : {"map"}, type : Types,
                    elems : UNION {[keys -> values] : keys \in SUBSET Key}]
    <2>1. s.kind = "map" /\ s.type \in Types /\ s = [kind |-> s.kind, type |-> s.type, elems |-> s.elems]
      BY <1>2
    <2>2. PICK keys \in SUBSET Key : s.elems \in [keys -> values]
      BY <1>2
    <2> QED  BY <2>1, <2>2 DEF Kind
  <1> QED  BY <1>1, <1>2 DEF Holding

\* A sequence or a map of values makes a content.
LEMMA IsContent ==
    ASSUME NEW values, NEW kind, NEW type \in Types, NEW elems,
           \/ kind = "array" /\ elems \in Seq(values)
           \/ kind = "map" /\ \E keys \in SUBSET Key : elems \in [keys -> values]
    PROVE  [kind |-> kind, type |-> type, elems |-> elems] \in Holding(values)
  <1>1. CASE kind = "array" /\ elems \in Seq(values)
    BY <1>1 DEF Holding
  <1>2. CASE kind = "map" /\ \E keys \in SUBSET Key : elems \in [keys -> values]
    <2>1. elems \in UNION {[keys -> values] : keys \in SUBSET Key}
      BY <1>2
    <2> QED  BY <1>2, <2>1 DEF Holding
  <1> QED  BY <1>1, <1>2

\* The elements of a container.
LEMMA ElemsAre ==
    ASSUME NEW k \in Programs, NEW p \in Container
    PROVE  /\ k[p] # None => /\ k[p] \in Content /\ Elems(k, p) = k[p].elems
                             /\ k[p].kind \in Kind
           /\ k[p] = None => Elems(k, p) = << >> /\ DOMAIN Elems(k, p) = {}
           /\ \A x \in DOMAIN Elems(k, p) : Elems(k, p)[x] \in Value /\ k[p] # None
  <1>1. CASE k[p] = None
    BY <1>1 DEF Elems
  <1>2. CASE k[p] # None
    <2>1. k[p] \in Holding(Value)
      BY <1>2 DEF Programs, Content
    <2> QED  BY <1>2, <2>1, ContentIs DEF Elems, Content
  <1> QED  BY <1>1, <1>2

\* Children are those that are in a place.
LEMMA KidsAre ==
    ASSUME NEW k
    PROVE  /\ [p \in Container |-> Kids(k, p)] \in [Container -> SUBSET Container]
           /\ \A p \in Container : Kids(k, p) \in SUBSET Container
           /\ \A p \in Container, c \in Container :
                 c \in Kids(k, p) <=> \E x \in DOMAIN Elems(k, p) : Place(k, p, x, c)
           /\ \A p \in Container, c \in Container :
                 c \in Kids(k, p) <=> \E x : Place(k, p, x, c)
  BY DEF Kids, Place

\* What is under a container.
LEMMA UnderIs ==
    ASSUME NEW k, NEW c \in Container
    PROVE  /\ Under(k, c) \in SUBSET Container
           /\ Kids(k, c) \subseteq Under(k, c)
           /\ \A x \in Under(k, c) : Kids(k, x) \subseteq Under(k, c)
           /\ \A x \in Under(k, c) : Under(k, x) \subseteq Under(k, c)
  <1> DEFINE edges == [p \in Container |-> Kids(k, p)]
  <1>1. edges \in [Container -> SUBSET Container] /\ \A p \in Container : edges[p] = Kids(k, p)
    BY KidsAre
  <1>2. \A p \in Container : Under(k, p) = Below(edges, p)
    BY DEF Under
  <1> HIDE DEF edges
  <1>3. \A x \in Under(k, c) : x \in Container
    BY <1>1, <1>2, BelowIs
  <1> QED  BY <1>1, <1>2, <1>3, BelowIs, BelowBelow

\* One container's elements change: those in V are new in it, and F[y] is
\* where another one that is now at y was before.
LEMMA NestChanged ==
    ASSUME NEW k, Nest(k), NEW k2 \in Programs, NEW p \in Container, k[p] # None, k2[p] # None,
           \A d \in Container : d # p => k2[d] = k[d],
           NEW V \in SUBSET Container, \A v, w \in V : v = w,
           NEW F, \A y, z \in DOMAIN Elems(k2, p) : F[y] = F[z] => y = z,
           \A c \in Container : \A y \in DOMAIN Elems(k2, p) :
              Place(k2, p, y, c) /\ c \notin V => Place(k, p, F[y], c),
           \A v \in V : /\ k[v] # None /\ v # p /\ p \notin Under(k, v)
                        /\ \A q \in Container : q # p => v \notin Kids(k, q)
                        /\ \A y, z \in DOMAIN Elems(k2, p) :
                              Place(k2, p, y, v) /\ Place(k2, p, z, v) => y = z
    PROVE  Nest(k2)
  <1>1. /\ k \in Programs /\ ChildrenExist(k) /\ OnePlace(k)
        /\ \A c \in Container : c \notin Under(k, c)
    BY DEF Nest, NoCycle, Programs
  <1>2. \A d \in Container : d # p => Elems(k2, d) = Elems(k, d)
    BY DEF Elems
  <1>3. \A x : \A d, c \in Container : d # p => (Place(k2, d, x, c) <=> Place(k, d, x, c))
    BY <1>2 DEF Place
  <1>4. \A d \in Container : k2[d] = None <=> k[d] = None
    OBVIOUS
  <1>5. \A c \in Container : \A y \in DOMAIN Elems(k2, p) :
           Place(k2, p, y, c) => c \in V \/ Place(k, p, F[y], c)
    OBVIOUS
  <1>6. ChildrenExist(k2)
    <2> SUFFICES ASSUME NEW q \in Container, NEW c \in Container,
                        NEW x \in DOMAIN Elems(k2, q), Place(k2, q, x, c)
                 PROVE  k2[c] # None
      BY DEF ChildrenExist
    <2>1. CASE q # p
      BY <1>1, <1>2, <1>3, <1>4, <2>1 DEF ChildrenExist
    <2>2. CASE q = p
      <3>1. c \in V \/ (F[x] \in DOMAIN Elems(k, p) /\ Place(k, p, F[x], c))
        BY <1>5, <2>2 DEF Place
      <3> QED  BY <1>1, <1>4, <3>1 DEF ChildrenExist
    <2> QED  BY <2>1, <2>2
  <1>7. OnePlace(k2)
    <2> SUFFICES ASSUME NEW q \in Container, NEW r \in Container, NEW c \in Container,
                        NEW x \in DOMAIN Elems(k2, q), NEW y \in DOMAIN Elems(k2, r),
                        Place(k2, q, x, c), Place(k2, r, y, c)
                 PROVE  q = r /\ x = y
      BY DEF OnePlace
    <2>1. CASE q # p /\ r # p
      BY <1>1, <1>2, <1>3, <2>1 DEF OnePlace
    <2>2. ASSUME NEW s \in Container, NEW z \in DOMAIN Elems(k2, s), Place(k2, s, z, c), s # p,
                 NEW w \in DOMAIN Elems(k2, p), Place(k2, p, w, c)
          PROVE  FALSE
      <3>1. Place(k, s, z, c) /\ z \in DOMAIN Elems(k, s)
        BY <1>2, <1>3, <2>2
      <3>2. c \notin V
        BY <2>2, <3>1, KidsAre
      <3>3. Place(k, p, F[w], c) /\ F[w] \in DOMAIN Elems(k, p)
        BY <1>5, <2>2, <3>2 DEF Place
      <3> QED  BY <1>1, <2>2, <3>1, <3>3 DEF OnePlace
    <2>3. CASE q = p /\ r = p
      <3>1. CASE c \in V
        BY <2>3, <3>1
      <3>2. CASE c \notin V
        <4>1. /\ Place(k, p, F[x], c) /\ F[x] \in DOMAIN Elems(k, p)
              /\ Place(k, p, F[y], c) /\ F[y] \in DOMAIN Elems(k, p)
          BY <1>5, <2>3, <3>2 DEF Place
        <4>2. F[x] = F[y]
          BY <1>1, <4>1 DEF OnePlace
        <4> QED  BY <2>3, <4>2
      <3> QED  BY <3>1, <3>2
    <2> QED  BY <2>1, <2>2, <2>3
  <1>8. NoCycle(k2)
    <2> DEFINE edges == [d \in Container |-> Kids(k, d)]
               more  == [d \in Container |-> Kids(k2, d)]
    <2>1. /\ edges \in [Container -> SUBSET Container] /\ more \in [Container -> SUBSET Container]
          /\ \A d \in Container : edges[d] = Kids(k, d) /\ more[d] = Kids(k2, d)
      BY KidsAre
    <2>2. \A d \in Container : Under(k, d) = Below(edges, d) /\ Under(k2, d) = Below(more, d)
      BY DEF Under
    <2>3. \A d \in Container : d # p => Kids(k2, d) \subseteq Kids(k, d)
      BY <1>3, KidsAre
    <2>4. Kids(k2, p) \subseteq Kids(k, p) \cup V
      BY <1>5, KidsAre
    <2> HIDE DEF edges, more
    <2>5. CASE V = {}
      <3>1. \A d \in Container : more[d] \subseteq edges[d]
        BY <2>1, <2>3, <2>4, <2>5
      <3>2. \A d \in Container : Below(more, d) \subseteq Below(edges, d)
        BY <2>1, <3>1, BelowLess
      <3> QED  BY <1>1, <2>2, <3>2 DEF NoCycle
    <2>6. CASE V # {}
      <3>1. PICK v \in V : V = {v}
        BY <2>6
      <3>2. /\ v \in Container /\ p # v /\ p \notin Below(edges, v)
            /\ more[p] \subseteq edges[p] \cup {v}
            /\ \A d \in Container : d # p => more[d] \subseteq edges[d]
            /\ \A d \in Container : d \notin Below(edges, d)
        BY <1>1, <2>1, <2>2, <2>3, <2>4, <3>1
      <3>3. \A d \in Container : d \notin Below(more, d)
        BY <2>1, <3>2, NoNewCycle
      <3> QED  BY <2>2, <3>3 DEF NoCycle
    <2> QED  BY <2>5, <2>6
  <1> QED  BY <1>6, <1>7, <1>8 DEF Nest, Programs

-----------------------------------------------------------------------------
(* Handles.                                                                *)

\* A handle has an updater and an index.
LEMMA HandleIs ==
    ASSUME NEW a \in Handle
    PROVE  /\ a = [updater |-> a.updater, index |-> a.index]
           /\ a.updater \in Updater \cup {None}
           /\ DOMAIN a.index \in SUBSET Container
           /\ a.index \in [DOMAIN a.index -> Nat]
           /\ a # None
  <1>1. /\ a = [updater |-> a.updater, index |-> a.index] /\ a.updater \in Updater \cup {None}
        /\ a.index \in UNION {[children -> Nat] : children \in SUBSET Container}
    BY DEF Handle
  <1>2. PICK children \in SUBSET Container : a.index \in [children -> Nat]
    BY <1>1
  <1> QED  BY <1>1, <1>2, NoneIsNot

\* An updater and an index make a handle.
LEMMA IsHandle ==
    ASSUME NEW updater \in Updater \cup {None}, NEW children \in SUBSET Container,
           NEW index \in [children -> Nat]
    PROVE  [updater |-> updater, index |-> index] \in Handle
  <1>1. index \in UNION {[s -> Nat] : s \in SUBSET Container}
    OBVIOUS
  <1> QED  BY <1>1 DEF Handle

\* An updater has a parent, a key and a wrapper.
LEMMA UpdaterIs ==
    ASSUME NEW u \in Updater
    PROVE  /\ u.parent \in Container /\ u.key \in Key \cup {None} /\ u.wrap \in Wraps
           /\ u = [parent |-> u.parent, key |-> u.key, wrap |-> u.wrap] /\ u # None
  BY NoneIsNot DEF Updater

\* An element of an array is at a number, one of a map at a key.
LEMMA PlaceIs ==
    ASSUME NEW k \in Programs, NEW p \in Container, NEW c \in Container, NEW x, Place(k, p, x, c)
    PROVE  /\ k[p] # None /\ x \in DOMAIN Elems(k, p) /\ Elems(k, p) = k[p].elems
           /\ k[p].kind = "array" => x \in Nat /\ x \in 1..Len(k[p].elems)
           /\ k[p].kind = "map" => x \in Key
           /\ k[p].kind \in Kind
           /\ Elems(k, p)[x] \in Child /\ Elems(k, p)[x].wrap \in Wraps
           /\ Elems(k, p)[x] = [tag |-> "value", id |-> c, wrap |-> Elems(k, p)[x].wrap]
  <1>1. x \in DOMAIN Elems(k, p) /\ Elems(k, p)[x].tag = "value" /\ Elems(k, p)[x].id = c
    BY DEF Place
  <1>2. k[p] # None /\ k[p] \in Holding(Value) /\ Elems(k, p) = k[p].elems
    BY <1>1, ElemsAre DEF Content
  <1>3. Elems(k, p)[x] \in Child /\ Elems(k, p)[x].wrap \in Wraps
    BY <1>1, ElemsAre, ValueIs
  <1>4. Elems(k, p)[x] = [tag |-> "value", id |-> c, wrap |-> Elems(k, p)[x].wrap]
    BY <1>1, <1>3 DEF Child
  <1>5. ASSUME k[p].kind = "array" PROVE x \in Nat /\ x \in 1..Len(k[p].elems)
    <2>1. k[p].elems \in Seq(Value) /\ x \in DOMAIN k[p].elems
      BY <1>1, <1>2, <1>5, ContentIs
    <2>2. Len(k[p].elems) \in Nat /\ DOMAIN k[p].elems = 1..Len(k[p].elems)
      BY <2>1
    <2> QED  BY <2>1, <2>2
  <1>6. k[p].kind = "map" => x \in Key
    BY <1>1, <1>2, ContentIs
  <1> QED  BY <1>1, <1>2, <1>3, <1>4, <1>5, <1>6, ContentIs

\* The handles h2 are h with the callback of the child c, at x in p.
CallbackSet(k, h, h2, p, c, x) ==
    /\ h2 \in Handles /\ h[p] # None /\ h[c] # None
    /\ \A d \in Container : d \notin {p, c} => h2[d] = h[d]
    /\ h2[c] = [updater |-> [parent |-> p, wrap |-> Elems(k, p)[x].wrap,
                             key |-> IF k[p].kind = "array" THEN None ELSE x],
                index |-> h[c].index]
    /\ h2[p] = [updater |-> h[p].updater,
                index |-> IF k[p].kind = "array" THEN With(h[p].index, c, x) ELSE h[p].index]

\* A child is linked to its place.
LEMMA LinkSet ==
    ASSUME NEW k, Nest(k), NEW h, NEW L, NEW I, Handled(k, h, L, I),
           NEW p \in Container, NEW c \in Container, NEW x, Place(k, p, x, c),
           NEW h2, CallbackSet(k, h, h2, p, c, x)
    PROVE  Handled(k, h2, L \ {c}, I)
  <1>0. /\ h2 \in Handles /\ h[p] # None /\ h[c] # None
        /\ \A d \in Container : d \notin {p, c} => h2[d] = h[d]
        /\ h2[c] = [updater |-> [parent |-> p, wrap |-> Elems(k, p)[x].wrap,
                                 key |-> IF k[p].kind = "array" THEN None ELSE x],
                    index |-> h[c].index]
        /\ h2[p] = [updater |-> h[p].updater,
                    index |-> IF k[p].kind = "array" THEN With(h[p].index, c, x) ELSE h[p].index]
    BY DEF CallbackSet
  <1> USE <1>0
  <1>1. k \in Programs /\ OnePlace(k) /\ h \in Handles
    BY DEF Nest, Handled
  <1>2. c # p
    <2>1. c \in Under(k, p)
      BY KidsAre, UnderIs
    <2> QED  BY <2>1 DEF Nest, NoCycle
  <1>3. x \in DOMAIN Elems(k, p) /\ k[p] # None
    BY <1>1, PlaceIs
  <1>4. \A d \in Container : h2[d] = None <=> h[d] = None
    <2> TAKE d \in Container
    <2>1. h2[p] # None /\ h2[c] # None
      <3>1. h2[p].updater = h[p].updater /\ h2[c].index = h[c].index
        OBVIOUS
      <3>2. h2[p] \in Handle /\ h2[c] \in Handle
        <4>1. h[c] \in Handle /\ h[p] \in Handle
          BY <1>1 DEF Handles
        <4>2. h[p].updater \in Updater \cup {None} /\ DOMAIN h[p].index \in SUBSET Container
              /\ h[p].index \in [DOMAIN h[p].index -> Nat]
              /\ DOMAIN h[c].index \in SUBSET Container /\ h[c].index \in [DOMAIN h[c].index -> Nat]
          BY <4>1, HandleIs
        <4>3. [parent |-> p, wrap |-> Elems(k, p)[x].wrap,
               key |-> IF k[p].kind = "array" THEN None ELSE x] \in Updater
          <5>1. Elems(k, p)[x].wrap \in Wraps /\ (k[p].kind # "array" => x \in Key)
            BY <1>1, PlaceIs DEF Kind
          <5> QED  BY <5>1 DEF Updater
        <4>4. h2[c] \in Handle
          <5>1. PICK updater, children, index :
                   /\ updater = [parent |-> p, wrap |-> Elems(k, p)[x].wrap,
                                 key |-> IF k[p].kind = "array" THEN None ELSE x]
                   /\ children = DOMAIN h[c].index /\ index = h[c].index
            OBVIOUS
          <5>2. [updater |-> updater, index |-> index] \in Handle
            BY <4>2, <4>3, <5>1, IsHandle
          <5> QED  BY <5>1, <5>2
        <4>5. k[p].kind = "array" => With(h[p].index, c, x) \in [DOMAIN h[p].index \cup {c} -> Nat]
          <5>1. k[p].kind = "array" => x \in Nat
            BY <1>1, PlaceIs
          <5> QED  BY <4>2, <5>1 DEF With
        <4>6. h2[p] \in Handle
          <5>1. PICK updater, index :
                   /\ updater = h[p].updater
                   /\ index = IF k[p].kind = "array" THEN With(h[p].index, c, x) ELSE h[p].index
            OBVIOUS
          <5>2. \E children \in SUBSET Container : index \in [children -> Nat]
            BY <4>2, <4>5, <5>1
          <5>3. [updater |-> updater, index |-> index] \in Handle
            BY <4>2, <5>1, <5>2, IsHandle
          <5> QED  BY <5>1, <5>3
        <4> QED  BY <4>4, <4>6
      <3> QED  BY <3>2, NoneIsNot
    <2> QED  BY <2>1
  <1>5. Linked(k, h2, L \ {c})
    <2> SUFFICES ASSUME NEW q \in Container, NEW d \in Container, NEW y \in DOMAIN Elems(k, q),
                        Place(k, q, y, d), d \notin L \ {c}, h2[d] # None
                 PROVE  /\ h2[q] # None
                        /\ h2[d].updater = [parent |-> q, wrap |-> Elems(k, q)[y].wrap,
                                            key |-> IF k[q].kind = "array" THEN None ELSE y]
                        /\ k[q].kind = "array" => d \in DOMAIN h2[q].index /\ h2[q].index[d] = y
      BY DEF Linked
    <2>1. CASE d = c
      <3>1. q = p /\ y = x
        BY <1>1, <1>3, <2>1 DEF OnePlace
      <3> QED  BY <1>4, <2>1, <3>1 DEF With
    <2>2. CASE d # c
      <3>1. /\ h[q] # None
            /\ h[d].updater = [parent |-> q, wrap |-> Elems(k, q)[y].wrap,
                               key |-> IF k[q].kind = "array" THEN None ELSE y]
            /\ k[q].kind = "array" => d \in DOMAIN h[q].index /\ h[q].index[d] = y
        BY <1>4, <2>2 DEF Handled, Linked
      <3>2. h2[d].updater = h[d].updater
        BY <2>2
      <3>3. k[q].kind = "array" => d \in DOMAIN h2[q].index /\ h2[q].index[d] = h[q].index[d]
        <4>1. CASE q = p
          BY <2>2, <3>1, <4>1 DEF With
        <4>2. CASE q # p
          BY <3>1, <4>2
        <4> QED  BY <4>1, <4>2
      <3> QED  BY <1>4, <3>1, <3>2, <3>3
    <2> QED  BY <2>1, <2>2
  <1>6. Indexed(k, h2, I)
    <2> SUFFICES ASSUME NEW q \in Container, h2[q] # None
                 PROVE  /\ k[q] # None
                        /\ \A d \in DOMAIN h2[q].index : <<q, d>> \notin I =>
                              k[q].kind = "array" /\ Place(k, q, h2[q].index[d], d)
      BY DEF Indexed
    <2>1. /\ k[q] # None
          /\ \A d \in DOMAIN h[q].index : <<q, d>> \notin I =>
                k[q].kind = "array" /\ Place(k, q, h[q].index[d], d)
      BY <1>4 DEF Handled, Indexed
    <2>2. CASE q = p /\ k[p].kind = "array"
      BY <2>1, <2>2 DEF With
    <2>3. CASE ~ (q = p /\ k[p].kind = "array")
      <3>1. h2[q].index = h[q].index
        BY <2>3
      <3> QED  BY <2>1, <3>1
    <2> QED  BY <2>2, <2>3
  <1>7. UpdatersLead(k, h2)
    <2> SUFFICES ASSUME NEW d \in Container, h2[d] # None, h2[d].updater # None
                 PROVE  k[h2[d].updater.parent] # None
      BY DEF UpdatersLead
    <2>1. CASE d = c
      BY <1>3, <2>1
    <2>2. CASE d # c
      <3>1. h2[d].updater = h[d].updater
        BY <2>2
      <3> QED  BY <1>4, <3>1 DEF Handled, UpdatersLead
    <2> QED  BY <2>1, <2>2
  <1>8. Known(h2)
    <2> SUFFICES ASSUME NEW q \in Container, h2[q] # None, NEW d \in DOMAIN h2[q].index
                 PROVE  d \in Container /\ h2[d] # None
      BY DEF Known
    <2>1. d \in DOMAIN h[q].index \cup {c}
      <3>1. CASE q = p
        BY <3>1 DEF With
      <3>2. CASE q # p
        BY <3>2
      <3> QED  BY <3>1, <3>2
    <2> QED  BY <1>4, <2>1 DEF Handled, Known
  <1> QED  BY <1>5, <1>6, <1>7, <1>8 DEF Handled

\* A container that is in no place forgets its parent.
LEMMA Unlink ==
    ASSUME NEW k \in Programs, NEW h, NEW L, NEW I, Handled(k, h, L, I), NEW c \in Container,
           h[c] # None, \A p \in Container : c \notin Kids(k, p),
           NEW h2 \in Handles, \A d \in Container : d # c => h2[d] = h[d],
           h2[c] = [updater |-> None, index |-> h[c].index]
    PROVE  Handled(k, h2, L, I)
  <1>1. h2[c] # None /\ \A d \in Container : h2[d] = None <=> h[d] = None
    <2>1. h[c] \in Handle
      BY DEF Handled, Handles
    <2>2. h2[c] \in Handle
      BY <2>1, HandleIs, IsHandle
    <2> QED  BY <2>2, NoneIsNot
  <1>2. \A d \in Container : h[d] # None => h2[d].index = h[d].index
    OBVIOUS
  <1>3. Linked(k, h2, L)
    <2> SUFFICES ASSUME NEW q \in Container, NEW d \in Container, NEW y \in DOMAIN Elems(k, q),
                        Place(k, q, y, d), d \notin L, h2[d] # None
                 PROVE  /\ h2[q] # None
                        /\ h2[d].updater = [parent |-> q, wrap |-> Elems(k, q)[y].wrap,
                                            key |-> IF k[q].kind = "array" THEN None ELSE y]
                        /\ k[q].kind = "array" => d \in DOMAIN h2[q].index /\ h2[q].index[d] = y
      BY DEF Linked
    <2>1. d # c
      BY KidsAre
    <2>2. /\ h[q] # None
          /\ h[d].updater = [parent |-> q, wrap |-> Elems(k, q)[y].wrap,
                             key |-> IF k[q].kind = "array" THEN None ELSE y]
          /\ k[q].kind = "array" => d \in DOMAIN h[q].index /\ h[q].index[d] = y
      BY <1>1, <2>1 DEF Handled, Linked
    <2> QED  BY <1>1, <1>2, <2>1, <2>2
  <1>4. Indexed(k, h2, I)
    BY <1>1, <1>2 DEF Handled, Indexed
  <1>5. UpdatersLead(k, h2)
    BY <1>1 DEF Handled, UpdatersLead
  <1>6. Known(h2)
    BY <1>1, <1>2 DEF Handled, Known
  <1> QED  BY <1>3, <1>4, <1>5, <1>6 DEF Handled

-----------------------------------------------------------------------------
(* Slabs and states.                                                       *)

\* A slab has its elements, and a map's slab their sizes.
LEMMA SlabIs ==
    ASSUME NEW s \in Slab
    PROVE  /\ s.kind \in Kind /\ s.type \in Types /\ s.inlined \in BOOLEAN /\ s.size \in Nat
           /\ s = [kind |-> s.kind, type |-> s.type, inlined |-> s.inlined, size |-> s.size,
                   elems |-> s.elems, cached |-> s.cached]
           /\ s.kind = "array" => s.elems \in Seq(Element) /\ s.cached = <<>>
           /\ s.kind = "map" => /\ DOMAIN s.elems \in SUBSET Key
                                /\ s.elems \in [DOMAIN s.elems -> Element]
                                /\ DOMAIN s.cached \in SUBSET Key
                                /\ s.cached \in [DOMAIN s.cached -> Nat]
           /\ \A x \in DOMAIN s.elems : s.elems[x] \in Element
           /\ s # None
  <1>1. CASE s \in [kind : {"array"}, type : Types, inlined : BOOLEAN, size : Nat,
                    elems : Seq(Element), cached : {<<>>}]
    BY <1>1, NoneIsNot DEF Kind
  <1>2. CASE s \in [kind : {"map"}, type : Types, inlined : BOOLEAN, size : Nat,
                    elems : UNION {[keys -> Element] : keys \in SUBSET Key},
                    cached : UNION {[keys -> Nat] : keys \in SUBSET Key}]
    <2>1. /\ s.kind = "map" /\ s.type \in Types /\ s.inlined \in BOOLEAN /\ s.size \in Nat
          /\ s = [kind |-> s.kind, type |-> s.type, inlined |-> s.inlined, size |-> s.size,
                  elems |-> s.elems, cached |-> s.cached]
      BY <1>2
    <2>2. PICK keys \in SUBSET Key : s.elems \in [keys -> Element]
      BY <1>2
    <2>3. PICK keys2 \in SUBSET Key : s.cached \in [keys2 -> Nat]
      BY <1>2
    <2> QED  BY <2>1, <2>2, <2>3, NoneIsNot DEF Kind
  <1> QED  BY <1>1, <1>2 DEF Slab

\* Elements and their sizes make a slab.
LEMMA IsSlab ==
    ASSUME NEW kind, NEW type \in Types, NEW inlined \in BOOLEAN, NEW size \in Nat,
           NEW elems, NEW cached,
           \/ kind = "array" /\ elems \in Seq(Element) /\ cached = <<>>
           \/ /\ kind = "map"
              /\ \E keys \in SUBSET Key : elems \in [keys -> Element]
              /\ \E keys \in SUBSET Key : cached \in [keys -> Nat]
    PROVE  [kind |-> kind, type |-> type, inlined |-> inlined, size |-> size,
            elems |-> elems, cached |-> cached] \in Slab
  <1>1. CASE kind = "array" /\ elems \in Seq(Element) /\ cached = <<>>
    BY <1>1 DEF Slab
  <1>2. CASE /\ kind = "map"
             /\ \E keys \in SUBSET Key : elems \in [keys -> Element]
             /\ \E keys \in SUBSET Key : cached \in [keys -> Nat]
    <2>1. elems \in UNION {[keys -> Element] : keys \in SUBSET Key}
      BY <1>2
    <2>2. cached \in UNION {[keys -> Nat] : keys \in SUBSET Key}
      BY <1>2
    <2> QED  BY <1>2, <2>1, <2>2 DEF Slab
  <1> QED  BY <1>1, <1>2

\* Fields of a slab change.
Resized(s, size, inlined) == [s EXCEPT !.size = size, !.inlined = inlined]

Refilled(s, elems, size) == [s EXCEPT !.elems = elems, !.size = size]

Recached(s, elems, cached, size) ==
    [s EXCEPT !.elems = elems, !.cached = cached, !.size = size]

Retyped(s, type) == [s EXCEPT !.type = type]

\* The others stay.
LEMMA SlabExcept ==
    ASSUME NEW s \in Slab, NEW type, NEW inlined, NEW size, NEW elems, NEW cached
    PROVE  /\ Resized(s, size, inlined)
                = [kind |-> s.kind, type |-> s.type, inlined |-> inlined, size |-> size,
                   elems |-> s.elems, cached |-> s.cached]
           /\ Refilled(s, elems, size)
                = [kind |-> s.kind, type |-> s.type, inlined |-> s.inlined, size |-> size,
                   elems |-> elems, cached |-> s.cached]
           /\ Recached(s, elems, cached, size)
                = [kind |-> s.kind, type |-> s.type, inlined |-> s.inlined, size |-> size,
                   elems |-> elems, cached |-> cached]
           /\ Retyped(s, type)
                = [kind |-> s.kind, type |-> type, inlined |-> s.inlined, size |-> s.size,
                   elems |-> s.elems, cached |-> s.cached]
  <1> DEFINE R(K, T, I, Z, E, C) == [kind : K, type : T, inlined : I, size : Z, elems : E, cached : C]
  <1>1. PICK E, C : s \in R({"array", "map"}, Types, BOOLEAN, Nat, E, C)
    BY DEF Slab
  <1>2. s.kind \in {"array", "map"} /\ s.type \in Types /\ s.inlined \in BOOLEAN /\ s.size \in Nat
    BY <1>1
  <1>3. s \in R({s.kind}, {s.type}, {s.inlined}, {s.size}, {s.elems}, {s.cached})
    BY <1>1
  <1>4. [s EXCEPT !.size = size, !.inlined = inlined]
                = [kind |-> s.kind, type |-> s.type, inlined |-> inlined, size |-> size,
                   elems |-> s.elems, cached |-> s.cached]
    <2> DEFINE t == [s EXCEPT !.size = size]
    <2>1. t \in R({s.kind}, {s.type}, {s.inlined}, {size}, {s.elems}, {s.cached})
      BY <1>3
    <2>2. [s EXCEPT !.size = size, !.inlined = inlined] = [t EXCEPT !.inlined = inlined]
      OBVIOUS
    <2> HIDE DEF t
    <2>3. [t EXCEPT !.inlined = inlined]
                = [kind |-> s.kind, type |-> s.type, inlined |-> inlined, size |-> size,
                   elems |-> s.elems, cached |-> s.cached]
      BY <2>1
    <2> QED  BY <2>2, <2>3
  <1>5. [s EXCEPT !.elems = elems, !.size = size]
                = [kind |-> s.kind, type |-> s.type, inlined |-> s.inlined, size |-> size,
                   elems |-> elems, cached |-> s.cached]
    <2> DEFINE t == [s EXCEPT !.elems = elems]
    <2>1. t \in R({s.kind}, {s.type}, {s.inlined}, {s.size}, {elems}, {s.cached})
      BY <1>3
    <2>2. [s EXCEPT !.elems = elems, !.size = size] = [t EXCEPT !.size = size]
      OBVIOUS
    <2> HIDE DEF t
    <2>3. [t EXCEPT !.size = size]
                = [kind |-> s.kind, type |-> s.type, inlined |-> s.inlined, size |-> size,
                   elems |-> elems, cached |-> s.cached]
      BY <2>1
    <2> QED  BY <2>2, <2>3
  <1>6. [s EXCEPT !.elems = elems, !.cached = cached, !.size = size]
                = [kind |-> s.kind, type |-> s.type, inlined |-> s.inlined, size |-> size,
                   elems |-> elems, cached |-> cached]
    <2> DEFINE t == [s EXCEPT !.elems = elems]
               u == [t EXCEPT !.cached = cached]
    <2>1. t \in R({s.kind}, {s.type}, {s.inlined}, {s.size}, {elems}, {s.cached})
      BY <1>3
    <2>2. [s EXCEPT !.elems = elems, !.cached = cached, !.size = size] = [u EXCEPT !.size = size]
      OBVIOUS
    <2> HIDE DEF t
    <2>3. u \in R({s.kind}, {s.type}, {s.inlined}, {s.size}, {elems}, {cached})
      BY <2>1
    <2> HIDE DEF u
    <2>4. [u EXCEPT !.size = size]
                = [kind |-> s.kind, type |-> s.type, inlined |-> s.inlined, size |-> size,
                   elems |-> elems, cached |-> cached]
      BY <2>3
    <2> QED  BY <2>2, <2>4
  <1>7. [s EXCEPT !.type = type]
                = [kind |-> s.kind, type |-> type, inlined |-> s.inlined, size |-> s.size,
                   elems |-> s.elems, cached |-> s.cached]
    BY <1>3
  <1> QED  BY <1>4, <1>5, <1>6, <1>7, Zenon DEF Resized, Refilled, Recached, Retyped

\* An element is plain or a container.
LEMMA ElementIs ==
    ASSUME NEW e \in Element
    PROVE  /\ IsChild(e) => /\ e \in Link /\ e.id \in Container /\ e.wrap \in Wraps
                            /\ e.tag \in {"slab", "ref"}
                            /\ e = [tag |-> e.tag, id |-> e.id, wrap |-> e.wrap]
           /\ ~ IsChild(e) => e \in Plain /\ e.tag = "plain" /\ e.size \in PlainSizes
           /\ e \in Plain => ~ IsChild(e)
           /\ e \in Link => IsChild(e)
  BY DEF Element, Plain, Link, IsChild

\* A state has slabs, handles and what is stored.
LEMMA StateIs ==
    ASSUME NEW st \in States
    PROVE  /\ st = [slab |-> st.slab, handle |-> st.handle, stored |-> st.stored, failed |-> FALSE]
           /\ st.failed = FALSE /\ st.handle \in Handles
           /\ st.slab \in [Container -> Slab \cup {None}]
           /\ st.stored \in [Container -> Encoding \cup {None}]
           /\ \A c \in Container : st.slab[c] # None => st.slab[c] \in Slab
           /\ \A c \in Container : st.handle[c] # None => st.handle[c] \in Handle
  BY DEF States, Handles

\* The elements of a slab.
LEMMA SlabElemsAre ==
    ASSUME NEW st \in States, NEW p \in Container
    PROVE  /\ st.slab[p] # None => SlabElems(st, p) = st.slab[p].elems
           /\ \A x \in DOMAIN SlabElems(st, p) : SlabElems(st, p)[x] \in Element /\ st.slab[p] # None
  <1>1. CASE st.slab[p] = None
    BY <1>1 DEF SlabElems
  <1>2. CASE st.slab[p] # None
    BY <1>2, StateIs, SlabIs DEF SlabElems
  <1> QED  BY <1>1, <1>2

\* An element as the program sees it.
AsValue(e) == IF IsChild(e) THEN [tag |-> "value", id |-> e.id, wrap |-> e.wrap] ELSE e

\* It is a value.
LEMMA AsValueIs ==
    ASSUME NEW e \in Element
    PROVE  /\ AsValue(e) \in Value
           /\ AsValue(e).tag = "value" <=> IsChild(e)
           /\ IsChild(e) => AsValue(e).id = e.id /\ AsValue(e).wrap = e.wrap
           /\ AsValue(e) = IF IsChild(e) THEN [e EXCEPT !.tag = "value"] ELSE e
  <1>1. CASE IsChild(e)
    <2>1. e \in Link /\ e.id \in Container /\ e.wrap \in Wraps
      BY <1>1, ElementIs
    <2>2. [e EXCEPT !.tag = "value"] = [tag |-> "value", id |-> e.id, wrap |-> e.wrap]
      BY <2>1 DEF Link
    <2>3. AsValue(e) \in Child
      BY <1>1, <2>1 DEF AsValue, Child
    <2> QED  BY <1>1, <2>2, <2>3 DEF AsValue, Value
  <1>2. CASE ~ IsChild(e)
    BY <1>2, ElementIs DEF AsValue, Value
  <1> QED  BY <1>1, <1>2

\* The containers of a state.
LEMMA ContentsAre ==
    ASSUME NEW st \in States
    PROVE  /\ Contents(st) \in Programs
           /\ \A c \in Container : Contents(st)[c] = None <=> st.slab[c] = None
           /\ \A c \in Container : st.slab[c] # None =>
                 Contents(st)[c] = [kind |-> st.slab[c].kind, type |-> st.slab[c].type,
                                    elems |-> [x \in DOMAIN st.slab[c].elems |->
                                                 AsValue(st.slab[c].elems[x])]]
           /\ \A c \in Container : /\ DOMAIN Elems(Contents(st), c) = DOMAIN SlabElems(st, c)
                                   /\ \A x \in DOMAIN SlabElems(st, c) :
                                         Elems(Contents(st), c)[x] = AsValue(SlabElems(st, c)[x])
  <1> DEFINE K(c) == [kind |-> st.slab[c].kind, type |-> st.slab[c].type,
                      elems |-> [x \in DOMAIN st.slab[c].elems |-> AsValue(st.slab[c].elems[x])]]
  <1>1. ASSUME NEW c \in Container, st.slab[c] # None
        PROVE  ContentsIn(st, c) = K(c) /\ K(c) \in Content
    <2>1. st.slab[c] \in Slab
      BY <1>1, StateIs
    <2>2. \A x \in DOMAIN st.slab[c].elems :
             /\ AsValue(st.slab[c].elems[x]) \in Value
             /\ AsValue(st.slab[c].elems[x]) = IF IsChild(st.slab[c].elems[x])
                                                 THEN [st.slab[c].elems[x] EXCEPT !.tag = "value"]
                                                 ELSE st.slab[c].elems[x]
      BY <2>1, SlabIs, AsValueIs
    <2>3. ContentsIn(st, c) = K(c)
      BY <1>1, <2>2, Zenon DEF ContentsIn
    <2>4. K(c) \in Content
      <3> DEFINE v == [x \in DOMAIN st.slab[c].elems |-> AsValue(st.slab[c].elems[x])]
      <3>1. v \in [DOMAIN st.slab[c].elems -> Value]
        BY <2>2
      <3>2. st.slab[c].kind = "array" => v \in Seq(Value)
        <4> SUFFICES ASSUME st.slab[c].kind = "array" PROVE v \in Seq(Value)
          OBVIOUS
        <4>1. st.slab[c].elems \in Seq(Element)
          BY <2>1, SlabIs
        <4>2. Len(st.slab[c].elems) \in Nat /\ DOMAIN st.slab[c].elems = 1..Len(st.slab[c].elems)
          BY <4>1
        <4> HIDE DEF v
        <4> QED  BY <3>1, <4>2
      <3>3. st.slab[c].type \in Types /\ st.slab[c].kind \in Kind
            /\ (st.slab[c].kind = "map" => DOMAIN st.slab[c].elems \in SUBSET Key)
        BY <2>1, SlabIs
      <3> HIDE DEF v
      <3>4. [kind |-> st.slab[c].kind, type |-> st.slab[c].type, elems |-> v] \in Holding(Value)
        BY <3>1, <3>2, <3>3, IsContent DEF Kind
      <3> QED  BY <3>4 DEF Content, v
    <2> QED  BY <2>3, <2>4
  <1>2. \A c \in Container : Contents(st)[c] = ContentsIn(st, c)
    BY DEF Contents
  <1>3. \A c \in Container : st.slab[c] = None => ContentsIn(st, c) = None
    BY DEF ContentsIn
  <1>4. Contents(st) \in Programs
    BY <1>1, <1>3 DEF Contents, Programs
  <1>5. \A c \in Container : Contents(st)[c] = None <=> st.slab[c] = None
    BY <1>1, <1>2, <1>3, NoneIsNot
  <1>6. ASSUME NEW c \in Container
        PROVE  /\ DOMAIN Elems(Contents(st), c) = DOMAIN SlabElems(st, c)
               /\ \A x \in DOMAIN SlabElems(st, c) :
                     Elems(Contents(st), c)[x] = AsValue(SlabElems(st, c)[x])
    <2>1. CASE st.slab[c] = None
      BY <1>5, <2>1 DEF Elems, SlabElems
    <2>2. CASE st.slab[c] # None
      <3>1. Contents(st)[c].elems = [x \in DOMAIN st.slab[c].elems |-> AsValue(st.slab[c].elems[x])]
        <4>1. K(c).elems = [x \in DOMAIN st.slab[c].elems |-> AsValue(st.slab[c].elems[x])]
          OBVIOUS
        <4> HIDE DEF K
        <4>2. Contents(st)[c] = K(c)
          BY <1>1, <1>2, <2>2
        <4> QED  BY <4>1, <4>2
      <3>2. Elems(Contents(st), c) = Contents(st)[c].elems /\ SlabElems(st, c) = st.slab[c].elems
        BY <1>5, <2>2 DEF Elems, SlabElems
      <3> QED  BY <3>1, <3>2
    <2> QED  BY <2>1, <2>2
  <1> QED  BY <1>1, <1>2, <1>4, <1>5, <1>6

\* A place is an element that is a container.
LEMMA PlaceInSlab ==
    ASSUME NEW st \in States, NEW p \in Container, NEW c, NEW x
    PROVE  Place(Contents(st), p, x, c)
             <=> /\ x \in DOMAIN SlabElems(st, p)
                 /\ IsChild(SlabElems(st, p)[x]) /\ SlabElems(st, p)[x].id = c
  BY ContentsAre, SlabElemsAre, AsValueIs DEF Place

\* The edges to inlined children.
Inner(st) == [p \in Container |-> SlabsIn(st, p)]

\* Inlined children are children.
LEMMA InnerIs ==
    ASSUME NEW st \in States
    PROVE  /\ Inner(st) \in [Container -> SUBSET Container]
           /\ \A p \in Container : Inner(st)[p] = SlabsIn(st, p)
           /\ \A p \in Container : SlabsIn(st, p) \subseteq Kids(Contents(st), p)
           /\ \A p, c \in Container : \A x \in DOMAIN SlabElems(st, p) :
                 SlabElems(st, p)[x].tag = "slab" /\ SlabElems(st, p)[x].id = c => c \in SlabsIn(st, p)
  <1>1. Inner(st) \in [Container -> SUBSET Container] /\ \A p \in Container : Inner(st)[p] = SlabsIn(st, p)
    BY DEF Inner, SlabsIn
  <1>2. ASSUME NEW p \in Container, NEW c \in SlabsIn(st, p) PROVE c \in Kids(Contents(st), p)
    <2>1. PICK x \in DOMAIN SlabElems(st, p) :
             SlabElems(st, p)[x].tag = "slab" /\ SlabElems(st, p)[x].id = c
      BY DEF SlabsIn
    <2>2. c \in Container /\ IsChild(SlabElems(st, p)[x])
      BY <2>1 DEF SlabsIn, IsChild
    <2> QED  BY <2>1, <2>2, PlaceInSlab, KidsAre
  <1> QED  BY <1>1, <1>2 DEF SlabsIn

\* What is inlined in a slab is below it.
LEMMA InlinedIs ==
    ASSUME NEW st \in States, NEW c \in Container
    PROVE  /\ InlinedIn(st, c) = Below(Inner(st), c)
           /\ InlinedIn(st, c) \subseteq Under(Contents(st), c)
           /\ InlinedIn(st, c) \in SUBSET Container
  <1> DEFINE E == [x \in Container |->
                     IF st.slab[x] = None THEN {}
                     ELSE {e.id : e \in {f \in Range(st.slab[x].elems) : f.tag = "slab"}}]
             U == [p \in Container |-> Kids(Contents(st), p)]
  <1>1. ASSUME NEW x \in Container PROVE E[x] = SlabsIn(st, x)
    <2>1. CASE st.slab[x] = None
      BY <2>1 DEF SlabsIn, SlabElems
    <2>2. CASE st.slab[x] # None
      <3>1. SlabElems(st, x) = st.slab[x].elems
        BY <2>2, SlabElemsAre
      <3>2. E[x] = {e.id : e \in {f \in Range(st.slab[x].elems) : f.tag = "slab"}}
        BY <2>2
      <3>3. Range(st.slab[x].elems) = {SlabElems(st, x)[y] : y \in DOMAIN SlabElems(st, x)}
        BY <3>1 DEF Range
      <3>4. ASSUME NEW c2 \in SlabsIn(st, x) PROVE c2 \in E[x]
        BY <3>2, <3>3 DEF SlabsIn
      <3>5. ASSUME NEW c2 \in E[x] PROVE c2 \in SlabsIn(st, x)
        <4>1. PICK y \in DOMAIN SlabElems(st, x) :
                 SlabElems(st, x)[y].tag = "slab" /\ SlabElems(st, x)[y].id = c2
          BY <3>2, <3>3
        <4>2. c2 \in Container
          BY <4>1, SlabElemsAre, ElementIs DEF IsChild
        <4> QED  BY <4>1, <4>2 DEF SlabsIn
      <3> QED  BY <3>4, <3>5
    <2> QED  BY <2>1, <2>2
  <1>2. E = Inner(st)
    BY <1>1 DEF Inner
  <1>3. InlinedIn(st, c) = Below(Inner(st), c)
    BY <1>2 DEF InlinedIn
  <1>4. U \in [Container -> SUBSET Container] /\ \A x \in Container : Inner(st)[x] \subseteq U[x]
    BY KidsAre, InnerIs
  <1>5. Under(Contents(st), c) = Below(U, c)
    BY DEF Under
  <1> HIDE DEF E, U
  <1> QED  BY <1>3, <1>4, <1>5, InnerIs, BelowLess, BelowIs

\* The children in the model are those in places.
LEMMA ChildrenAre ==
    ASSUME NEW st \in States, NEW c \in Container
    PROVE  Children(st, c) = Kids(Contents(st), c)
  <1>1. CASE st.slab[c] = None
    BY <1>1, PlaceInSlab, KidsAre DEF Children, SlabElems
  <1>2. CASE st.slab[c] # None
    <2>1. SlabElems(st, c) = st.slab[c].elems
      BY <1>2, SlabElemsAre
    <2>2. Children(st, c) = {e.id : e \in {f \in Range(SlabElems(st, c)) : IsChild(f)}}
      BY <1>2, <2>1 DEF Children
    <2>3. Range(SlabElems(st, c)) = {SlabElems(st, c)[y] : y \in DOMAIN SlabElems(st, c)}
      BY DEF Range
    <2>4. ASSUME NEW d \in Kids(Contents(st), c) PROVE d \in Children(st, c)
      <3>1. PICK y : Place(Contents(st), c, y, d)
        BY KidsAre
      <3> QED  BY <2>2, <2>3, <3>1, PlaceInSlab
    <2>5. ASSUME NEW d \in Children(st, c) PROVE d \in Kids(Contents(st), c)
      <3>1. PICK y \in DOMAIN SlabElems(st, c) :
               IsChild(SlabElems(st, c)[y]) /\ SlabElems(st, c)[y].id = d
        BY <2>2, <2>3
      <3>2. d \in Container
        BY <3>1, SlabElemsAre, ElementIs
      <3> QED  BY <3>1, <3>2, PlaceInSlab, KidsAre
    <2> QED  BY <2>4, <2>5
  <1> QED  BY <1>1, <1>2

\* A slab's encoding.
LEMMA EncodeIs ==
    ASSUME NEW st \in States, ChildrenExist(Contents(st)), NEW c \in Container, st.slab[c] # None
    PROVE  /\ \A d \in {c} \cup InlinedIn(st, c) : st.slab[d] # None
           /\ Encode(st, c) \in Encoding /\ Encode(st, c) # None
  <1>1. ASSUME NEW d \in InlinedIn(st, c) PROVE st.slab[d] # None
    <2>1. PICK x \in {c} \cup InlinedIn(st, c) : d \in Inner(st)[x]
      BY InlinedIs, InnerIs, BelowFrom
    <2>2. x \in Container /\ d \in Container
      BY <2>1, InlinedIs
    <2>3. d \in Kids(Contents(st), x)
      BY <2>1, <2>2, InnerIs
    <2>4. Contents(st)[d] # None
      BY <2>2, <2>3, KidsAre DEF ChildrenExist
    <2> QED  BY <2>2, <2>4, ContentsAre
  <1> DEFINE S == {c} \cup InlinedIn(st, c)
             s(d) == [kind |-> st.slab[d].kind, type |-> st.slab[d].type, elems |-> st.slab[d].elems]
  <1>2. ASSUME NEW d \in S PROVE s(d) \in Holding(Element)
    <2>1. st.slab[d] \in Slab
      BY <1>1, StateIs, InlinedIs
    <2>2. \/ st.slab[d].kind = "array" /\ st.slab[d].elems \in Seq(Element)
          \/ st.slab[d].kind = "map" /\ \E keys \in SUBSET Key : st.slab[d].elems \in [keys -> Element]
      BY <2>1, SlabIs DEF Kind
    <2> QED  BY <2>1, <2>2, SlabIs, IsContent
  <1>3. S \in SUBSET Container
    BY InlinedIs
  <1>4. Encode(st, c) \in Encodings(S)
    <2>1. Encode(st, c) = [d \in S |-> s(d)]
      BY DEF Encode
    <2> HIDE DEF S, s
    <2> QED  BY <1>2, <2>1 DEF Encodings
  <1> HIDE DEF S
  <1>5. Encode(st, c) \in Encoding
    BY <1>3, <1>4 DEF Encoding
  <1> QED  BY <1>1, <1>5, NoneIsNot

\* Two states in which a container holds the same.
SameHeld(st, r, d) ==
    \/ r.slab[d] = st.slab[d]
    \/ /\ r.slab[d] # None /\ st.slab[d] # None
       /\ r.slab[d].kind = st.slab[d].kind /\ r.slab[d].type = st.slab[d].type
       /\ r.slab[d].elems = st.slab[d].elems

\* It then has the same elements.
LEMMA SameElems ==
    ASSUME NEW st \in States, NEW r \in States, NEW d \in Container, SameHeld(st, r, d)
    PROVE  /\ SlabElems(r, d) = SlabElems(st, d) /\ SlabsIn(r, d) = SlabsIn(st, d)
           /\ Contents(r)[d] = Contents(st)[d]
           /\ r.slab[d] = None <=> st.slab[d] = None
  <1>1. SlabElems(r, d) = SlabElems(st, d)
    BY DEF SameHeld, SlabElems
  <1>2. ContentsIn(r, d) = ContentsIn(st, d)
    BY DEF SameHeld, ContentsIn
  <1> QED  BY <1>1, <1>2 DEF SlabsIn, Contents, SameHeld

\* A slab's encoding depends on what is inlined in it only.
LEMMA EncodeSame ==
    ASSUME NEW st \in States, NEW r \in States, NEW p,
           \A d \in Container : d # p => SameHeld(st, r, d),
           NEW c \in Container, p # c, p \notin InlinedIn(r, c)
    PROVE  InlinedIn(r, c) = InlinedIn(st, c) /\ Encode(r, c) = Encode(st, c)
  <1>1. \A x \in Container : x # p => Inner(r)[x] = Inner(st)[x]
    BY SameElems, InnerIs
  <1>2. p \notin {c} \cup Below(Inner(r), c)
    BY InlinedIs
  <1>3. InlinedIn(r, c) = InlinedIn(st, c)
    BY <1>1, <1>2, InlinedIs, InnerIs, BelowSame
  <1>4. \A d \in {c} \cup InlinedIn(r, c) :
           [kind |-> r.slab[d].kind, type |-> r.slab[d].type, elems |-> r.slab[d].elems]
             = [kind |-> st.slab[d].kind, type |-> st.slab[d].type, elems |-> st.slab[d].elems]
    <2> TAKE d \in {c} \cup InlinedIn(r, c)
    <2>1. SameHeld(st, r, d)
      BY InlinedIs
    <2> QED  BY <2>1 DEF SameHeld
  <1> QED  BY <1>3, <1>4, Zenon DEF Encode

\* A slab is put into a state.
LEMMA PutSlabIs ==
    ASSUME NEW st \in States, NEW c \in Container, NEW s \in Slab
    PROVE  /\ PutSlab(st, c, s) \in States
           /\ PutSlab(st, c, s).slab[c] = s
           /\ \A d \in Container : d # c => PutSlab(st, c, s).slab[d] = st.slab[d]
           /\ PutSlab(st, c, s).handle = st.handle
           /\ PutSlab(st, c, s).stored = st.stored
  BY DEF PutSlab, States

\* A slab is handed to the storage.
LEMMA StoreSlabIs ==
    ASSUME NEW st \in States, ChildrenExist(Contents(st)), NEW c \in Container, st.slab[c] # None
    PROVE  /\ storeSlab(st, c) \in States
           /\ storeSlab(st, c).slab = st.slab /\ storeSlab(st, c).handle = st.handle
           /\ storeSlab(st, c).stored[c] = Encode(st, c)
           /\ \A d \in Container : d # c => storeSlab(st, c).stored[d] = st.stored[d]
           /\ Contents(storeSlab(st, c)) = Contents(st)
  <1>1. Encode(st, c) \in Encoding
    BY EncodeIs
  <1>2. storeSlab(st, c) \in States /\ storeSlab(st, c).slab = st.slab
        /\ storeSlab(st, c).handle = st.handle
        /\ storeSlab(st, c).stored = [st.stored EXCEPT ![c] = Encode(st, c)]
    BY <1>1 DEF storeSlab, States
  <1>3. Contents(storeSlab(st, c)) = Contents(st)
    BY <1>2 DEF Contents, ContentsIn
  <1> QED  BY <1>2, <1>3, StateIs

-----------------------------------------------------------------------------
(* Sums of sizes.  Induction is by smallest counterexample.                *)

\* What holds at 0 and goes on from each number to the next holds up to n.
LEMMA UpTo ==
    ASSUME NEW n \in Nat, NEW S, 0 \in S, \A i \in 0..n : i < n /\ i \in S => i + 1 \in S
    PROVE  \A i \in 0..n : i \in S
  <1> DEFINE Bad == {i \in 0..n : i \notin S}
  <1> SUFFICES ASSUME Bad # {} PROVE FALSE
    OBVIOUS
  <1>1. PICK m \in Bad : \A i \in Bad : ~ (i < m)
    <2>1. Bad \in SUBSET Nat
      OBVIOUS
    <2> HIDE DEF Bad
    <2>2. PICK m \in Bad : \A i \in Bad : ~ (<<i, m>> \in OpToRel(<, Nat))
      BY <2>1, NatLessThanWellFounded, WFMin
    <2>3. \A i \in Bad : ~ (i < m)
      BY <2>1, <2>2 DEF OpToRel
    <2> QED  BY <2>3
  <1>2. m \in 0..n /\ m \notin S /\ m # 0
    OBVIOUS
  <1>3. m - 1 \in 0..n /\ m - 1 < n /\ m - 1 < m /\ (m - 1) + 1 = m
    BY <1>2
  <1>4. m - 1 \notin Bad
    BY <1>1, <1>3
  <1> QED  BY <1>2, <1>3, <1>4

\* A function adds up the sequence s.
AddsUp(f, s) == f = [i \in 0..Len(s) |-> IF i = 0 THEN 0 ELSE f[i-1] + s[i]]

\* Every sequence has a function that adds it up.
LEMMA SumsExist ==
    ASSUME NEW s \in Seq(Nat)
    PROVE  \E f : AddsUp(f, s)
  <1> DEFINE Up(n) == \E f \in [0..n -> Nat] :
                        f[0] = 0 /\ \A i \in 1..n : f[i] = f[i-1] + s[i]
             S == {n \in 0..Len(s) : Up(n)}
  <1>0. Len(s) \in Nat /\ \A i \in 1..Len(s) : s[i] \in Nat
    OBVIOUS
  <1>1. 0 \in S
    <2> DEFINE z == [i \in 0..0 |-> 0]
    <2>1. z \in [0..0 -> Nat] /\ z[0] = 0 /\ 1..0 = {}
      OBVIOUS
    <2> HIDE DEF z
    <2>2. Up(0)
      BY <2>1
    <2> QED  BY <1>0, <2>2
  <1>2. ASSUME NEW n \in 0..Len(s), n < Len(s), n \in S PROVE n + 1 \in S
    <2>1. PICK f \in [0..n -> Nat] : f[0] = 0 /\ \A i \in 1..n : f[i] = f[i-1] + s[i]
      BY <1>2
    <2> DEFINE m == n + 1
               g == [i \in 0..m |-> IF i = m THEN f[n] + s[m] ELSE f[i]]
    <2>2. n \in Nat /\ m \in 1..Len(s) /\ n \in 0..n /\ 0 \in 0..m /\ m - 1 = n
      BY <1>0, <1>2
    <2>3. g \in [0..m -> Nat]
      BY <1>0, <2>1, <2>2
    <2>4. \A i \in 0..m : g[i] = IF i = m THEN f[n] + s[m] ELSE f[i]
      OBVIOUS
    <2> HIDE DEF g
    <2>5. ASSUME NEW i \in 1..m PROVE g[i] = g[i-1] + s[i]
      <3>1. i \in 0..m /\ i - 1 \in 0..m /\ i - 1 # m /\ (i # m => i \in 1..n)
        BY <2>2
      <3> QED  BY <2>1, <2>2, <2>4, <3>1
    <2>6. g[0] = 0
      BY <2>1, <2>2, <2>4
    <2> HIDE DEF m
    <2>7. Up(m)
      BY <2>3, <2>5, <2>6
    <2> HIDE DEF Up
    <2>8. m \in S
      BY <1>0, <2>2, <2>7
    <2> QED  BY <2>8 DEF m
  <1>3. Len(s) \in S
    <2> HIDE DEF S
    <2>1. \A i \in 0..Len(s) : i \in S
      BY <1>0, <1>1, <1>2, UpTo
    <2> QED  BY <1>0, <2>1
  <1>4. PICK f \in [0..Len(s) -> Nat] :
           f[0] = 0 /\ \A i \in 1..Len(s) : f[i] = f[i-1] + s[i]
    BY <1>3
  <1>5. f = [i \in 0..Len(s) |-> f[i]]
    OBVIOUS
  <1>6. \A i \in 0..Len(s) : f[i] = IF i = 0 THEN 0 ELSE f[i-1] + s[i]
    BY <1>0, <1>4
  <1>7. f = [i \in 0..Len(s) |-> IF i = 0 THEN 0 ELSE f[i-1] + s[i]]
    BY <1>5, <1>6, Zenon
  <1> QED  BY <1>7 DEF AddsUp

\* Each sum is the one before and one more number.
LEMMA SumsDef ==
    ASSUME NEW s \in Seq(Nat)
    PROVE  /\ Sums(s) \in [0..Len(s) -> Nat]
           /\ Sums(s)[0] = 0
           /\ \A i \in 1..Len(s) : Sums(s)[i] = Sums(s)[i-1] + s[i]
           /\ Total(s) \in Nat
  <1> DEFINE f == Sums(s)
             S == {i \in 0..Len(s) : f[i] \in Nat}
  <1>0. Len(s) \in Nat /\ \A i \in 1..Len(s) : s[i] \in Nat
    OBVIOUS
  <1>1. AddsUp(f, s)
    BY SumsExist, Zenon DEF Sums, AddsUp
  <1>2. f = [i \in 0..Len(s) |-> IF i = 0 THEN 0 ELSE f[i-1] + s[i]]
    BY <1>1 DEF AddsUp
  <1> HIDE DEF f
  <1>3. \A i \in 0..Len(s) : f[i] = IF i = 0 THEN 0 ELSE f[i-1] + s[i]
    BY <1>2
  <1>4. f[0] = 0 /\ \A i \in 1..Len(s) : f[i] = f[i-1] + s[i]
    BY <1>0, <1>3
  <1>5. ASSUME NEW i \in 0..Len(s), i < Len(s), i \in S PROVE i + 1 \in S
    <2>1. i + 1 \in 1..Len(s) /\ i + 1 \in 0..Len(s) /\ (i + 1) - 1 = i /\ f[i] \in Nat
      BY <1>0, <1>5
    <2>2. f[i + 1] = f[i] + s[i + 1] /\ s[i + 1] \in Nat
      BY <1>0, <1>4, <2>1
    <2> QED  BY <2>1, <2>2
  <1>6. 0 \in S
    BY <1>0, <1>4
  <1>7. \A i \in 0..Len(s) : f[i] \in Nat
    <2>1. \A i \in 0..Len(s) : i \in S
      <3> HIDE DEF S
      <3> QED  BY <1>0, <1>5, <1>6, UpTo
    <2> QED  BY <2>1
  <1>8. f \in [0..Len(s) -> Nat]
    BY <1>2, <1>7
  <1>9. Total(s) = f[Len(s)]
    BY DEF Total, f
  <1> QED  BY <1>0, <1>4, <1>8, <1>9 DEF f

\* With one more number, the total is more by that number.
LEMMA TotalOfMore ==
    ASSUME NEW s \in Seq(Nat), NEW t \in Seq(Nat), Len(t) = Len(s) + 1, NEW i \in 1..Len(t),
           \A j \in 1..Len(t) : j < i => t[j] = s[j],
           \A j \in 1..Len(t) : j > i => t[j] = s[j-1]
    PROVE  Total(t) = Total(s) + t[i]
  <1> DEFINE f == Sums(s)
             g == Sums(t)
             S == {j \in 0..Len(t) : g[j] = IF j < i THEN f[j] ELSE f[j-1] + t[i]}
  <1>1. /\ Len(s) \in Nat /\ Len(t) \in Nat /\ i \in Nat /\ i > 0
        /\ \A j \in 1..Len(s) : s[j] \in Nat
        /\ \A j \in 1..Len(t) : t[j] \in Nat
    OBVIOUS
  <1>2. /\ f \in [0..Len(s) -> Nat] /\ f[0] = 0 /\ \A j \in 1..Len(s) : f[j] = f[j-1] + s[j]
        /\ g \in [0..Len(t) -> Nat] /\ g[0] = 0 /\ \A j \in 1..Len(t) : g[j] = g[j-1] + t[j]
    BY SumsDef
  <1> HIDE DEF f, g
  <1>3. 0 \in S
    BY <1>1, <1>2
  <1>4. ASSUME NEW j \in 0..Len(t), j < Len(t), j \in S PROVE j + 1 \in S
    <2>1. j \in Nat /\ j + 1 \in 1..Len(t) /\ j + 1 \in 0..Len(t) /\ (j + 1) - 1 = j
      BY <1>1, <1>4
    <2>2. g[j + 1] = g[j] + t[j + 1] /\ t[j + 1] \in Nat /\ t[i] \in Nat
      BY <1>1, <1>2, <2>1
    <2>3. CASE j + 1 < i
      <3>1. g[j] = f[j] /\ t[j + 1] = s[j + 1] /\ j + 1 \in 1..Len(s)
        <4>1. j < i /\ j \in S
          BY <1>1, <1>4, <2>1, <2>3
        <4>2. g[j] = f[j]
          BY <4>1
        <4>3. t[j + 1] = s[j + 1]
          BY <2>1, <2>3
        <4>4. j + 1 \in 1..Len(s)
          BY <1>1, <2>1, <2>3
        <4> QED  BY <4>2, <4>3, <4>4
      <3>2. f[j + 1] = f[j] + s[j + 1]
        BY <1>2, <2>1, <3>1
      <3> QED  BY <2>1, <2>2, <2>3, <3>1, <3>2
    <2>4. CASE j + 1 = i
      <3>1. g[j] = f[j]
        BY <1>1, <1>4, <2>1, <2>4
      <3> QED  BY <1>1, <2>1, <2>2, <2>4, <3>1
    <2>5. CASE j + 1 > i
      <3>1. g[j] = f[j - 1] + t[i] /\ t[j + 1] = s[j] /\ j \in 1..Len(s)
        <4>1. j \in S /\ j >= i /\ j \in 1..Len(s)
          BY <1>1, <1>4, <2>1, <2>5
        <4>2. g[j] = f[j - 1] + t[i]
          BY <1>1, <4>1
        <4> QED  BY <2>1, <2>5, <4>1, <4>2
      <3>2. f[j] = f[j - 1] + s[j] /\ f[j - 1] \in Nat /\ s[j] \in Nat
        <4>1. j - 1 \in 0..Len(s)
          BY <1>1, <3>1
        <4> QED  BY <1>1, <1>2, <3>1, <4>1
      <3>3. g[j + 1] = f[j] + t[i]
        <4> DEFINE a == f[j - 1]
                   u == s[j]
                   x == t[i]
        <4>1. a \in Nat /\ u \in Nat /\ x \in Nat /\ f[j] = a + u /\ g[j + 1] = (a + x) + u
          BY <2>2, <3>1, <3>2
        <4> HIDE DEF a, u, x
        <4>2. (a + x) + u = (a + u) + x
          BY <4>1
        <4> QED  BY <4>1, <4>2 DEF x
      <3> QED  BY <1>1, <2>1, <2>5, <3>3
    <2> QED  BY <1>1, <2>1, <2>3, <2>4, <2>5
  <1>5. Len(t) \in S
    <2> HIDE DEF S
    <2>1. \A j \in 0..Len(t) : j \in S
      BY <1>1, <1>3, <1>4, UpTo
    <2> QED  BY <1>1, <2>1
  <1>6. g[Len(t)] = f[Len(s)] + t[i]
    BY <1>1, <1>5
  <1> QED  BY <1>6 DEF Total, f, g

\* The total changes as one of the numbers does.
LEMMA TotalOfChange ==
    ASSUME NEW s \in Seq(Nat), NEW t \in Seq(Nat), Len(t) = Len(s), NEW i \in 1..Len(s),
           \A j \in 1..Len(s) : j # i => t[j] = s[j]
    PROVE  Total(t) + s[i] = Total(s) + t[i]
  <1> DEFINE f == Sums(s)
             g == Sums(t)
             S == {j \in 0..Len(s) : IF j < i THEN g[j] = f[j] ELSE g[j] + s[i] = f[j] + t[i]}
  <1>1. /\ Len(s) \in Nat /\ i \in Nat /\ i > 0
        /\ \A j \in 1..Len(s) : s[j] \in Nat /\ t[j] \in Nat
    OBVIOUS
  <1>2. /\ f \in [0..Len(s) -> Nat] /\ f[0] = 0 /\ \A j \in 1..Len(s) : f[j] = f[j-1] + s[j]
        /\ g \in [0..Len(s) -> Nat] /\ g[0] = 0 /\ \A j \in 1..Len(s) : g[j] = g[j-1] + t[j]
    BY SumsDef
  <1> HIDE DEF f, g
  <1>3. 0 \in S
    BY <1>1, <1>2
  <1>4. ASSUME NEW j \in 0..Len(s), j < Len(s), j \in S PROVE j + 1 \in S
    <2>1. j \in Nat /\ j + 1 \in 1..Len(s) /\ j + 1 \in 0..Len(s) /\ (j + 1) - 1 = j
      BY <1>1, <1>4
    <2>2. /\ g[j + 1] = g[j] + t[j + 1] /\ f[j + 1] = f[j] + s[j + 1]
          /\ g[j] \in Nat /\ f[j] \in Nat
          /\ t[j + 1] \in Nat /\ s[j + 1] \in Nat /\ t[i] \in Nat /\ s[i] \in Nat
      BY <1>1, <1>2, <2>1
    <2>3. CASE j + 1 < i
      BY <1>1, <1>4, <2>1, <2>2, <2>3
    <2>4. CASE j + 1 = i
      <3>1. g[j] = f[j]
        BY <1>1, <1>4, <2>1, <2>4
      <3>2. g[j + 1] + s[i] = f[j + 1] + t[i]
        <4> DEFINE a == f[j]
                   x == s[i]
                   y == t[i]
        <4>1. a \in Nat /\ x \in Nat /\ y \in Nat /\ g[j + 1] = a + y /\ f[j + 1] = a + x
          BY <2>2, <2>4, <3>1
        <4> HIDE DEF a, x, y
        <4>2. (a + y) + x = (a + x) + y
          BY <4>1
        <4> QED  BY <4>1, <4>2 DEF x, y
      <3> QED  BY <1>1, <2>1, <2>4, <3>2
    <2>5. CASE j + 1 > i
      <3>1. g[j] + s[i] = f[j] + t[i] /\ t[j + 1] = s[j + 1]
        BY <1>1, <1>4, <2>1, <2>5
      <3>2. g[j + 1] + s[i] = f[j + 1] + t[i]
        <4> DEFINE a == g[j]
                   b == f[j]
                   u == s[j + 1]
                   x == s[i]
                   y == t[i]
        <4>1. a \in Nat /\ b \in Nat /\ u \in Nat /\ x \in Nat /\ y \in Nat /\ a + x = b + y
          BY <2>2, <3>1
        <4>2. g[j + 1] = a + u /\ f[j + 1] = b + u
          BY <2>2, <3>1
        <4> HIDE DEF a, b, u, x, y
        <4>3. (a + u) + x = (b + u) + y
          BY <4>1
        <4> QED  BY <4>2, <4>3 DEF x, y
      <3> QED  BY <1>1, <2>1, <2>5, <3>2
    <2> QED  BY <1>1, <2>1, <2>3, <2>4, <2>5
  <1>5. Len(s) \in S
    <2> HIDE DEF S
    <2>1. \A j \in 0..Len(s) : j \in S
      BY <1>1, <1>3, <1>4, UpTo
    <2> QED  BY <1>1, <2>1
  <1>6. g[Len(s)] + s[i] = f[Len(s)] + t[i]
    BY <1>1, <1>5
  <1> QED  BY <1>6 DEF Total, f, g

\* Every key has one place in the order of keys.
LEMMA KeyOrderIs ==
    /\ Len(KeyOrder) \in Nat /\ KeyOrder \in [1..Len(KeyOrder) -> Key]
    /\ \A i, j \in 1..Len(KeyOrder) : KeyOrder[i] = KeyOrder[j] => i = j
    /\ \A key \in Key : \E i \in 1..Len(KeyOrder) : KeyOrder[i] = key
  <1> DEFINE n == Cardinality(Key)
  <1>1. n \in Nat /\ IsFiniteSet(Key)
    BY NestingAssumption, FS_CardinalityType
  <1>2. ExistsBijection(1..n, Key)
    BY <1>1, FS_CardinalityType
  <1>3. PICK f \in [1..n -> Key] : \A i, j \in 1..n : f[i] = f[j] => i = j
    BY <1>2 DEF ExistsBijection, Bijection, Injection, IsInjective
  <1>4. IsInjective(f)
    BY <1>3 DEF IsInjective
  <1>5. KeyOrder \in [1..n -> Key] /\ IsInjective(KeyOrder)
    BY <1>3, <1>4 DEF KeyOrder, SetToSeq
  <1>6. \A i, j \in 1..n : KeyOrder[i] = KeyOrder[j] => i = j
    BY <1>5 DEF IsInjective
  <1> HIDE DEF n
  <1>7. KeyOrder \in Seq(Key) /\ Len(KeyOrder) = n
    BY <1>1, <1>5
  <1>8. \A key \in Key : \E i \in 1..n : KeyOrder[i] = key
    <2>1. IsFiniteSet(1..n) /\ Cardinality(1..n) = n
      BY <1>1, FS_Interval
    <2>2. KeyOrder \in Injection(1..n, Key)
      BY <1>5, <1>6 DEF Injection
    <2>3. KeyOrder \in Surjection(1..n, Key)
      BY <1>1, <2>1, <2>2, FS_Injection DEF n
    <2> QED  BY <2>3 DEF Surjection
  <1> QED  BY <1>1, <1>5, <1>6, <1>7, <1>8

\* The sizes of a map's elements add up to a number.
LEMMA CachedIs ==
    ASSUME NEW keys \in SUBSET Key, NEW cached \in [keys -> Nat]
    PROVE  /\ SumCached(cached) \in Nat
           /\ [i \in 1..Len(KeyOrder) |->
                 IF KeyOrder[i] \in DOMAIN cached THEN cached[KeyOrder[i]] ELSE 0] \in Seq(Nat)
  <1> DEFINE s == [i \in 1..Len(KeyOrder) |->
                     IF KeyOrder[i] \in DOMAIN cached THEN cached[KeyOrder[i]] ELSE 0]
  <1>1. s \in [1..Len(KeyOrder) -> Nat]
    BY KeyOrderIs
  <1>2. s \in Seq(Nat)
    <2> HIDE DEF s
    <2> QED  BY <1>1, KeyOrderIs
  <1>3. SumCached(cached) = Total(s)
    BY DEF SumCached
  <1> HIDE DEF s
  <1> QED  BY <1>2, <1>3, SumsDef DEF s

\* With the size of one more element they add up to more.
LEMMA CachedOfMore ==
    ASSUME NEW keys \in SUBSET Key, NEW cached \in [keys -> Nat], NEW key \in keys,
           NEW less \in [keys \ {key} -> Nat], \A x \in keys \ {key} : less[x] = cached[x]
    PROVE  SumCached(cached) = SumCached(less) + cached[key]
  <1> DEFINE t == [i \in 1..Len(KeyOrder) |->
                     IF KeyOrder[i] \in DOMAIN cached THEN cached[KeyOrder[i]] ELSE 0]
             s == [i \in 1..Len(KeyOrder) |->
                     IF KeyOrder[i] \in DOMAIN less THEN less[KeyOrder[i]] ELSE 0]
  <1>1. SumCached(cached) = Total(t) /\ SumCached(less) = Total(s)
    BY DEF SumCached
  <1>2. t \in Seq(Nat) /\ s \in Seq(Nat)
    BY CachedIs
  <1>3. PICK i \in 1..Len(KeyOrder) : KeyOrder[i] = key
    BY KeyOrderIs
  <1>4. t[i] = cached[key] /\ s[i] = 0
    BY <1>3
  <1>5. \A j \in 1..Len(KeyOrder) : j # i => t[j] = s[j]
    <2> TAKE j \in 1..Len(KeyOrder)
    <2> HAVE j # i
    <2>1. KeyOrder[j] # key
      BY <1>3, KeyOrderIs
    <2> QED  BY <2>1
  <1>6. Len(t) = Len(KeyOrder) /\ Len(s) = Len(KeyOrder)
    BY KeyOrderIs
  <1> HIDE DEF s, t
  <1>7. Total(t) + s[i] = Total(s) + t[i]
    BY <1>2, <1>5, <1>6, TotalOfChange
  <1>8. Total(t) \in Nat /\ Total(s) \in Nat /\ cached[key] \in Nat
    BY <1>2, SumsDef
  <1> QED  BY <1>1, <1>4, <1>7, <1>8

\* An element has a size.
LEMMA ByteSizeIs ==
    ASSUME NEW st \in States, NEW e \in Element, IsChild(e) => st.slab[e.id] # None
    PROVE  ByteSize(st, e) \in Nat
  <1>1. CASE ~ IsChild(e)
    BY <1>1, ElementIs, SizesAre DEF ByteSize
  <1>2. CASE IsChild(e)
    <2>1. e.wrap \in Nat /\ e.tag \in {"slab", "ref"} /\ st.slab[e.id].size \in Nat
      BY <1>2, ElementIs, SizesAre, StateIs, SlabIs
    <2>2. CASE e.tag = "slab"
      BY <2>1, <2>2 DEF ByteSize
    <2>3. CASE e.tag = "ref"
      BY <2>1, <2>3, SizesAre DEF ByteSize
    <2> QED  BY <2>1, <2>2, <2>3
  <1> QED  BY <1>1, <1>2

\* So have a container's elements.
LEMMA BytesAre ==
    ASSUME NEW st \in States, ChildrenExist(Contents(st)), NEW p \in Container
    PROVE  /\ \A x \in DOMAIN SlabElems(st, p) : ByteSize(st, SlabElems(st, p)[x]) \in Nat
           /\ \A x \in DOMAIN SlabElems(st, p) : IsChild(SlabElems(st, p)[x]) =>
                 /\ SlabElems(st, p)[x].id \in Container
                 /\ st.slab[SlabElems(st, p)[x].id] # None
           /\ st.slab[p] # None /\ st.slab[p].kind = "array" =>
                [x \in DOMAIN st.slab[p].elems |-> ByteSize(st, st.slab[p].elems[x])] \in Seq(Nat)
  <1>1. ASSUME NEW x \in DOMAIN SlabElems(st, p)
        PROVE  /\ ByteSize(st, SlabElems(st, p)[x]) \in Nat
               /\ IsChild(SlabElems(st, p)[x]) =>
                     /\ SlabElems(st, p)[x].id \in Container
                     /\ st.slab[SlabElems(st, p)[x].id] # None
    <2> DEFINE e == SlabElems(st, p)[x]
    <2>1. e \in Element
      BY SlabElemsAre
    <2>2. IsChild(e) => e.id \in Container /\ st.slab[e.id] # None
      <3> SUFFICES ASSUME IsChild(e) PROVE e.id \in Container /\ st.slab[e.id] # None
        OBVIOUS
      <3>1. e.id \in Container
        BY <2>1, ElementIs
      <3>2. Place(Contents(st), p, x, e.id) /\ x \in DOMAIN Elems(Contents(st), p)
        BY PlaceInSlab, ContentsAre
      <3>3. Contents(st)[e.id] # None
        BY <3>1, <3>2 DEF ChildrenExist
      <3> QED  BY <3>1, <3>3, ContentsAre
    <2> QED  BY <2>1, <2>2, ByteSizeIs
  <1>2. ASSUME st.slab[p] # None, st.slab[p].kind = "array"
        PROVE  [x \in DOMAIN st.slab[p].elems |-> ByteSize(st, st.slab[p].elems[x])] \in Seq(Nat)
    <2> DEFINE s == st.slab[p].elems
               b == [x \in DOMAIN s |-> ByteSize(st, s[x])]
    <2>1. s \in Seq(Element) /\ SlabElems(st, p) = s
      BY <1>2, StateIs, SlabIs, SlabElemsAre
    <2>2. Len(s) \in Nat /\ DOMAIN s = 1..Len(s)
      BY <2>1
    <2>3. b \in [1..Len(s) -> Nat]
      BY <1>1, <2>1, <2>2
    <2> HIDE DEF s, b
    <2>4. b \in Seq(Nat)
      BY <2>2, <2>3
    <2> QED  BY <2>4 DEF b, s
  <1> QED  BY <1>1, <1>2

-----------------------------------------------------------------------------
(* A call changes the slab of p, and the child v that it puts into p may   *)
(* be inlined or get a slab of its own.                                    *)

\* The status of v may change, and nothing else of it.
Moved(st, r, v) ==
    /\ r.slab[v] # None /\ st.slab[v] # None
    /\ r.slab[v].kind = st.slab[v].kind /\ r.slab[v].type = st.slab[v].type
    /\ r.slab[v].elems = st.slab[v].elems /\ r.slab[v].cached = st.slab[v].cached
    /\ r.slab[v].size - PrefixSize(r.slab[v]) = st.slab[v].size - PrefixSize(st.slab[v])
    /\ r.slab[v].inlined = st.slab[v].inlined => r.slab[v] = st.slab[v]
    /\ r.stored[v] = IF r.slab[v].inlined = st.slab[v].inlined THEN st.stored[v]
                     ELSE IF r.slab[v].inlined THEN None ELSE Encode(r, v)

Changed(st, r, p, v) ==
    /\ r.handle = st.handle
    /\ \A c \in Container : c \notin {p, v} => r.slab[c] = st.slab[c] /\ r.stored[c] = st.stored[c]
    /\ r.slab[p] # None /\ st.slab[p] # None
    /\ r.slab[p].kind = st.slab[p].kind /\ r.slab[p].inlined = st.slab[p].inlined
    /\ r.stored[p] = IF r.slab[p].inlined THEN st.stored[p] ELSE Encode(r, p)
    /\ v # None => v \in Kids(Contents(r), p) /\ v # p /\ Moved(st, r, v)

\* The containers in p are v, with the right status, and others that were there.
ElementsFit(st, r, p, v) ==
    \A x \in DOMAIN SlabElems(r, p) :
        LET e == SlabElems(r, p)[x] IN
          IsChild(e) =>
            \/ /\ e.id = v /\ (e.tag = "slab" <=> r.slab[v].inlined)
               /\ r.slab[v].inlined
                    <=> Inlinable(r.slab[v], MaxInlineSize[r.slab[p].kind] - e.wrap)
            \/ e.id # v /\ \E y \in DOMAIN SlabElems(st, p) : SlabElems(st, p)[y] = e

\* Other containers have what they had, and v is not in one.
LEMMA ChangedElse ==
    ASSUME NEW st \in States, NEW r \in States, Nest(Contents(r)), NEW p \in Container,
           NEW v \in Container \cup {None}, Changed(st, r, p, v)
    PROVE  /\ \A q \in Container : q # p => /\ SameHeld(st, r, q)
                                            /\ SlabElems(r, q) = SlabElems(st, q)
                                            /\ SlabsIn(r, q) = SlabsIn(st, q)
                                            /\ r.slab[q] = None <=> st.slab[q] = None
           /\ \A q \in Container : q # p =>
                 \A x \in DOMAIN SlabElems(r, q) :
                    IsChild(SlabElems(r, q)[x]) => SlabElems(r, q)[x].id # v
           /\ \A q \in Container : q # p => v \notin SlabsIn(r, q)
  <1>1. ASSUME NEW q \in Container, q # p PROVE SameHeld(st, r, q)
    <2>1. CASE q # v
      BY <1>1, <2>1 DEF Changed, SameHeld
    <2>2. CASE q = v
      <3>1. Moved(st, r, q)
        BY <2>2, NoneIsNot DEF Changed
      <3> QED  BY <3>1 DEF Moved, SameHeld
    <2> QED  BY <2>1, <2>2
  <1>2. \A q \in Container : q # p => /\ SlabElems(r, q) = SlabElems(st, q)
                                      /\ SlabsIn(r, q) = SlabsIn(st, q)
                                      /\ r.slab[q] = None <=> st.slab[q] = None
    BY <1>1, SameElems
  <1>3. ASSUME NEW q \in Container, q # p, NEW x \in DOMAIN SlabElems(r, q),
               IsChild(SlabElems(r, q)[x]), SlabElems(r, q)[x].id = v
        PROVE  FALSE
    <2>1. v \in Container /\ v # None
      BY <1>3, SlabElemsAre, ElementIs, NoneIsNot
    <2>2. Place(Contents(r), q, x, v) /\ x \in DOMAIN Elems(Contents(r), q)
      BY <1>3, PlaceInSlab DEF Place
    <2>3. PICK y \in DOMAIN Elems(Contents(r), p) : Place(Contents(r), p, y, v)
      BY <2>1, KidsAre DEF Changed
    <2> QED  BY <1>3, <2>1, <2>2, <2>3 DEF Nest, OnePlace
  <1>4. ASSUME NEW q \in Container, q # p, v \in SlabsIn(r, q) PROVE FALSE
    <2>1. PICK x \in DOMAIN SlabElems(r, q) :
             SlabElems(r, q)[x].tag = "slab" /\ SlabElems(r, q)[x].id = v
      BY <1>4 DEF SlabsIn
    <2>2. IsChild(SlabElems(r, q)[x])
      BY <2>1 DEF IsChild
    <2> QED  BY <1>3, <1>4, <2>1, <2>2
  <1> QED  BY <1>1, <1>2, <1>3, <1>4

\* Elements say which children are inlined.
LEMMA ChangedTags ==
    ASSUME NEW st \in States, NEW r \in States, Nest(Contents(r)), NEW p \in Container,
           NEW v \in Container \cup {None}, Changed(st, r, p, v),
           TagsFit(st), ElementsFit(st, r, p, v)
    PROVE  TagsFit(r)
  <1> SUFFICES ASSUME NEW q \in Container, NEW x \in DOMAIN SlabElems(r, q),
                      IsChild(SlabElems(r, q)[x])
               PROVE  SlabElems(r, q)[x].tag = "slab" <=> r.slab[SlabElems(r, q)[x].id].inlined
    BY DEF TagsFit
  <1> DEFINE e == SlabElems(r, q)[x]
  <1>1. e \in Element /\ e.id \in Container
    BY SlabElemsAre, ElementIs
  <1>2. ASSUME e.id # v, NEW y \in DOMAIN SlabElems(st, q), SlabElems(st, q)[y] = e
        PROVE  e.tag = "slab" <=> r.slab[e.id].inlined
    <2>1. e.tag = "slab" <=> st.slab[e.id].inlined
      BY <1>2 DEF TagsFit
    <2>2. st.slab[e.id].inlined = r.slab[e.id].inlined
      BY <1>1, <1>2 DEF Changed
    <2> QED  BY <2>1, <2>2
  <1>3. CASE q # p
    <2>1. e.id # v /\ x \in DOMAIN SlabElems(st, q) /\ SlabElems(st, q)[x] = e
      BY <1>3, ChangedElse
    <2> QED  BY <1>2, <2>1
  <1>4. CASE q = p
    <2>1. \/ e.id = v /\ (e.tag = "slab" <=> r.slab[v].inlined)
          \/ e.id # v /\ \E y \in DOMAIN SlabElems(st, p) : SlabElems(st, p)[y] = e
      BY <1>4 DEF ElementsFit
    <2> QED  BY <1>2, <1>4, <2>1
  <1> QED  BY <1>3, <1>4

\* What is inlined is in a place, but for what was taken out of p.
LEMMA ChangedPlaces ==
    ASSUME NEW st \in States, NEW r \in States, Nest(Contents(r)), NEW p \in Container,
           NEW v \in Container \cup {None}, Changed(st, r, p, v),
           NEW X, InlinedHavePlace(st, X),
           TagsFit(r), NEW Y, X \subseteq Y, SlabsIn(st, p) \subseteq SlabsIn(r, p) \cup Y \cup {v}
    PROVE  InlinedHavePlace(r, Y)
  <1> SUFFICES ASSUME NEW c \in Container \ Y, r.slab[c] # None, r.slab[c].inlined
               PROVE  \E q \in Container : c \in SlabsIn(r, q)
    BY DEF InlinedHavePlace
  <1>1. CASE c = v
    <2>1. PICK y : Place(Contents(r), p, y, v)
      BY <1>1, NoneIsNot, KidsAre DEF Changed
    <2>2. y \in DOMAIN SlabElems(r, p) /\ IsChild(SlabElems(r, p)[y]) /\ SlabElems(r, p)[y].id = v
      BY <2>1, PlaceInSlab
    <2>3. SlabElems(r, p)[y].tag = "slab"
      BY <1>1, <2>2 DEF TagsFit
    <2> QED  BY <1>1, <2>2, <2>3, InnerIs
  <1>2. CASE c # v
    <2>1. st.slab[c] # None /\ st.slab[c].inlined
      BY <1>2 DEF Changed
    <2>2. PICK q \in Container : c \in SlabsIn(st, q)
      BY <2>1 DEF InlinedHavePlace
    <2>3. CASE q # p
      BY <2>2, <2>3, ChangedElse
    <2>4. CASE q = p
      BY <1>2, <2>2, <2>4
    <2> QED  BY <2>3, <2>4
  <1> QED  BY <1>1, <1>2

\* Slabs are stored, but for those that p is inlined in.
LEMMA ChangedSaved ==
    ASSUME NEW st \in States, NEW r \in States, Nest(Contents(r)), NEW p \in Container,
           NEW v \in Container \cup {None}, Changed(st, r, p, v),
           NEW dirty \in {None, v}, Saved(st, dirty)
    PROVE  Saved(r, p)
  <1> SUFFICES ASSUME NEW c \in Container
               PROVE  IF r.slab[c] # None /\ ~ r.slab[c].inlined
                        THEN p \in InlinedIn(r, c) \/ r.stored[c] = Encode(r, c)
                        ELSE r.stored[c] = None
    BY DEF Saved
  <1>1. \A d \in Container : d # p => SameHeld(st, r, d)
    BY ChangedElse
  <1>2. CASE c = p
    BY <1>2 DEF Changed, Saved
  <1>3. ASSUME c # p, r.slab[c] # None, ~ r.slab[c].inlined, p \notin InlinedIn(r, c),
               st.slab[c] # None, ~ st.slab[c].inlined, r.stored[c] = st.stored[c]
        PROVE  r.stored[c] = Encode(r, c)
    <2>1. InlinedIn(r, c) = InlinedIn(st, c) /\ Encode(r, c) = Encode(st, c)
      BY <1>1, <1>3, EncodeSame
    <2>2. dirty \notin InlinedIn(st, c)
      <3> SUFFICES ASSUME dirty \in InlinedIn(r, c) PROVE FALSE
        BY <2>1
      <3>1. dirty \in Container /\ dirty = v
        BY InlinedIs, NoneIsNot
      <3>2. PICK x \in {c} \cup InlinedIn(r, c) : v \in SlabsIn(r, x)
        BY <3>1, InlinedIs, InnerIs, BelowFrom
      <3>3. x \in Container /\ x # p
        BY <1>3, <3>2, InlinedIs
      <3> QED  BY <3>2, <3>3, ChangedElse
    <2> QED  BY <1>3, <2>1, <2>2 DEF Saved
  <1>4. CASE c # p /\ c # v
    <2>1. r.slab[c] = st.slab[c] /\ r.stored[c] = st.stored[c]
      BY <1>4 DEF Changed
    <2> QED  BY <1>3, <1>4, <2>1 DEF Saved
  <1>5. CASE c # p /\ c = v
    <2>1. Moved(st, r, c)
      BY <1>5, NoneIsNot DEF Changed
    <2>2. CASE r.slab[c].inlined = st.slab[c].inlined
      <3>1. r.slab[c] = st.slab[c] /\ r.stored[c] = st.stored[c]
        BY <2>1, <2>2 DEF Moved
      <3> QED  BY <1>3, <1>5, <3>1 DEF Saved
    <2>3. CASE r.slab[c].inlined # st.slab[c].inlined
      BY <2>1, <2>3 DEF Moved
    <2> QED  BY <2>2, <2>3
  <1> QED  BY <1>2, <1>4, <1>5

\* Whether a slab can be inlined does not depend on whether it is.
LEMMA SameInlinable ==
    ASSUME NEW s \in Slab, NEW t \in Slab, s.kind = t.kind,
           s.size - PrefixSize(s) = t.size - PrefixSize(t), NEW max
    PROVE  Inlinable(s, max) = Inlinable(t, max)
  BY DEF Inlinable, InlinedSize

\* The prefix of a slab.
LEMMA PrefixIs ==
    ASSUME NEW s \in Slab
    PROVE  PrefixSize(s) \in Nat /\ InlinedPrefixSize[s.kind] \in Nat /\ RootPrefixSize[s.kind] \in Nat
  BY SlabIs, SizesAre DEF PrefixSize

\* What the slab of p is to have.
SizesIn(st, p) ==
    LET s == st.slab[p]
    IN /\ SizeIs(st, p)
       /\ s.kind = "map" => DOMAIN s.cached = DOMAIN s.elems
       /\ s.kind = "map" =>
            \A x \in DOMAIN s.elems : s.cached[x] = ElementOverhead + ByteSize(st, s.elems[x])

\* A slab whose sizes add up is at least as large as its prefix.
LEMMA SizeAdds ==
    ASSUME NEW st \in States, ChildrenExist(Contents(st)), NEW p \in Container,
           st.slab[p] # None, SizeIs(st, p)
    PROVE  st.slab[p].size >= PrefixSize(st.slab[p])
  <1>1. st.slab[p] \in Slab
    BY StateIs
  <1>2. CASE st.slab[p].kind = "array"
    <2>1. SumSizes(st, st.slab[p].elems) \in Nat
      BY <1>2, BytesAre, SumsDef DEF SumSizes
    <2> QED  BY <1>1, <1>2, <2>1, PrefixIs DEF SizeIs
  <1>3. CASE st.slab[p].kind = "map"
    <2>1. SumCached(st.slab[p].cached) \in Nat
      BY <1>1, <1>3, SlabIs, CachedIs
    <2> QED  BY <1>1, <1>3, <2>1, PrefixIs DEF SizeIs
  <1> QED  BY <1>1, <1>2, <1>3, SlabIs DEF Kind

\* Sizes add up, but for slabs that p is inlined in.
LEMMA ChangedSizes ==
    ASSUME NEW st \in States, NEW r \in States, Nest(Contents(r)), NEW p \in Container,
           NEW v \in Container \cup {None}, Changed(st, r, p, v),
           NEW dirty \in {None, v}, SizesFit(st, dirty), ElementsFit(st, r, p, v), SizesIn(r, p)
    PROVE  SizesFit(r, p)
  <1> SUFFICES ASSUME NEW q \in Container, r.slab[q] # None
               PROVE  LET s == r.slab[q] IN
                        /\ s.size >= PrefixSize(s)
                        /\ s.kind = "map" \/ p \notin SlabsIn(r, q) => SizeIs(r, q)
                        /\ s.kind = "map" => DOMAIN s.cached = DOMAIN s.elems
                        /\ \A x \in DOMAIN s.elems :
                              LET e == s.elems[x] IN
                                /\ s.kind = "map" /\ ~ (e.tag = "slab" /\ e.id = p) =>
                                      s.cached[x] = ElementOverhead + ByteSize(r, e)
                                /\ IsChild(e) /\ e.id # p =>
                                      (r.slab[e.id].inlined
                                         <=> Inlinable(r.slab[e.id], MaxInlineSize[s.kind] - e.wrap))
    BY DEF SizesFit
  <1> DEFINE s == r.slab[q]
             t == st.slab[q]
  <1>0. s \in Slab /\ s.kind \in Kind /\ SlabElems(r, q) = s.elems
    BY StateIs, SlabIs, SlabElemsAre
  <1>1. ASSUME NEW x \in DOMAIN s.elems, IsChild(s.elems[x]) PROVE s.elems[x].id \in Container
    BY <1>0, <1>1, SlabIs, ElementIs
  <1>2. CASE q = p
    <2>1. s.size >= PrefixSize(s)
      BY <1>2, SizeAdds DEF SizesIn, Nest
    <2>2. ASSUME NEW x \in DOMAIN s.elems, IsChild(s.elems[x]), s.elems[x].id # p
          PROVE  r.slab[s.elems[x].id].inlined
                   <=> Inlinable(r.slab[s.elems[x].id], MaxInlineSize[s.kind] - s.elems[x].wrap)
      <3> DEFINE e == s.elems[x]
      <3>1. CASE e.id = v
        BY <1>0, <1>2, <2>2, <3>1 DEF ElementsFit
      <3>2. CASE e.id # v
        <4>1. PICK y \in DOMAIN SlabElems(st, p) : SlabElems(st, p)[y] = e
          BY <1>0, <1>2, <2>2, <3>2 DEF ElementsFit
        <4>2. st.slab[p] # None /\ SlabElems(st, p) = st.slab[p].elems /\ st.slab[p].kind = s.kind
          BY <1>2, SlabElemsAre DEF Changed
        <4>3. e.id # dirty
          BY <1>1, <2>2, <3>2, NoneIsNot
        <4>4. st.slab[e.id].inlined <=> Inlinable(st.slab[e.id], MaxInlineSize[s.kind] - e.wrap)
          <5>1. \A z \in DOMAIN st.slab[p].elems :
                  LET d == st.slab[p].elems[z]
                  IN IsChild(d) /\ d.id # dirty =>
                       (st.slab[d.id].inlined
                          <=> Inlinable(st.slab[d.id], MaxInlineSize[st.slab[p].kind] - d.wrap))
            BY <4>2 DEF SizesFit
          <5>2. st.slab[p].elems[y] = e /\ y \in DOMAIN st.slab[p].elems
            BY <4>1, <4>2
          <5> HIDE DEF s, e
          <5> QED  BY <2>2, <4>2, <4>3, <5>1, <5>2 DEF e
        <4>5. r.slab[e.id] = st.slab[e.id]
          BY <1>1, <2>2, <3>2 DEF Changed
        <4> QED  BY <4>4, <4>5
      <3> QED  BY <3>1, <3>2
    <2> QED  BY <1>2, <2>1, <2>2 DEF SizesIn
  <1>3. CASE q # p
    <2>1. /\ t # None /\ t \in Slab /\ SlabElems(r, q) = SlabElems(st, q)
          /\ SlabElems(st, q) = t.elems /\ SlabsIn(r, q) = SlabsIn(st, q)
          /\ v \notin SlabsIn(r, q) /\ dirty \notin SlabsIn(st, q)
          /\ \A x \in DOMAIN t.elems : IsChild(t.elems[x]) => t.elems[x].id # v
      <3>1. t # None /\ SlabElems(r, q) = SlabElems(st, q) /\ SlabsIn(r, q) = SlabsIn(st, q)
            /\ v \notin SlabsIn(r, q)
        BY <1>3, ChangedElse
      <3>2. t \in Slab /\ SlabElems(st, q) = t.elems
        BY <3>1, StateIs, SlabElemsAre
      <3>3. dirty \notin SlabsIn(st, q)
        BY <3>1, NoneIsNot DEF SlabsIn
      <3> QED  BY <1>0, <1>3, <3>1, <3>2, <3>3, ChangedElse
    <2>2. /\ s.kind = t.kind /\ s.elems = t.elems /\ s.cached = t.cached
          /\ s.size - PrefixSize(s) = t.size - PrefixSize(t)
      <3>1. CASE q = v
        <4>1. Moved(st, r, q)
          BY <3>1, NoneIsNot DEF Changed
        <4> QED  BY <4>1 DEF Moved
      <3>2. CASE q # v
        BY <1>3, <3>2 DEF Changed
      <3> QED  BY <3>1, <3>2
    <2>3. s.size \in Nat /\ t.size \in Nat /\ PrefixSize(s) \in Nat /\ PrefixSize(t) \in Nat
      BY <1>0, <2>1, PrefixIs, SlabIs
    <2>4. /\ t.size >= PrefixSize(t)
          /\ SizeIs(st, q)
          /\ t.kind = "map" => DOMAIN t.cached = DOMAIN t.elems
      BY <2>1 DEF SizesFit
    <2>5. s.size >= PrefixSize(s)
      BY <2>2, <2>3, <2>4
    <2>6. ASSUME NEW x \in DOMAIN t.elems, ~ (t.elems[x].tag = "slab" /\ t.elems[x].id = p)
          PROVE  ByteSize(r, t.elems[x]) = ByteSize(st, t.elems[x])
      <3>1. t.elems[x] \in Element
        BY <2>1, SlabIs
      <3>2. CASE t.elems[x].tag = "slab"
        <4>1. IsChild(t.elems[x])
          BY <3>2 DEF IsChild
        <4>2. t.elems[x].id \in Container /\ t.elems[x].id \notin {p, v}
          BY <2>1, <2>6, <3>1, <3>2, <4>1, ElementIs
        <4>3. r.slab[t.elems[x].id] = st.slab[t.elems[x].id]
          BY <4>2 DEF Changed
        <4> QED  BY <3>2, <4>3 DEF ByteSize
      <3>3. CASE t.elems[x].tag # "slab"
        <4>1. t.elems[x].tag \in {"plain", "ref"}
          BY <3>1, <3>3, ElementIs DEF IsChild
        <4> QED  BY <4>1 DEF ByteSize
      <3> QED  BY <3>2, <3>3
    <2>7. ASSUME s.kind = "map"
          PROVE  /\ SizeIs(r, q)
                 /\ \A x \in DOMAIN t.elems : ~ (t.elems[x].tag = "slab" /\ t.elems[x].id = p) =>
                       t.cached[x] = ElementOverhead + ByteSize(r, t.elems[x])
      <3>1. SizeIs(r, q)
        <4>1. SumCached(t.cached) \in Nat
          BY <2>1, <2>2, <2>7, SlabIs, CachedIs
        <4>2. t.size = PrefixSize(t) + SumCached(t.cached)
          BY <2>2, <2>4, <2>7 DEF SizeIs
        <4>3. s.size = PrefixSize(s) + SumCached(t.cached)
          BY <2>2, <2>3, <4>1, <4>2
        <4> QED  BY <2>2, <2>7, <4>3 DEF SizeIs
      <3>2. ASSUME NEW x \in DOMAIN t.elems, ~ (t.elems[x].tag = "slab" /\ t.elems[x].id = p)
            PROVE  t.cached[x] = ElementOverhead + ByteSize(r, t.elems[x])
        <4>1. ~ (t.elems[x].tag = "slab" /\ t.elems[x].id = dirty)
          <5>1. t.elems[x].tag = "slab" => IsChild(t.elems[x])
            BY DEF IsChild
          <5> QED  BY <1>1, <2>1, <2>2, <5>1, NoneIsNot
        <4>2. t.cached[x] = ElementOverhead + ByteSize(st, t.elems[x])
          BY <2>1, <2>2, <2>7, <4>1 DEF SizesFit
        <4> QED  BY <2>6, <3>2, <4>2
      <3> QED  BY <3>1, <3>2
    <2>8. ASSUME s.kind = "array", p \notin SlabsIn(r, q) PROVE SizeIs(r, q)
      <3>1. \A x \in DOMAIN t.elems : ByteSize(r, t.elems[x]) = ByteSize(st, t.elems[x])
        <4> TAKE x \in DOMAIN t.elems
        <4>1. ~ (t.elems[x].tag = "slab" /\ t.elems[x].id = p)
          BY <2>1, <2>8, InnerIs
        <4> QED  BY <2>6, <4>1
      <3>2. SumSizes(r, t.elems) = SumSizes(st, t.elems)
        <4>1. [x \in DOMAIN t.elems |-> ByteSize(r, t.elems[x])]
                = [x \in DOMAIN t.elems |-> ByteSize(st, t.elems[x])]
          BY <3>1
        <4> QED  BY <4>1 DEF SumSizes
      <3>3. SumSizes(st, t.elems) \in Nat
        <4>1. \A x \in DOMAIN t.elems : ByteSize(r, t.elems[x]) \in Nat
          BY <1>0, <2>1, BytesAre DEF Nest
        <4>2. [x \in DOMAIN s.elems |-> ByteSize(r, s.elems[x])] \in Seq(Nat)
          BY <2>8, BytesAre DEF Nest
        <4>3. SumSizes(r, s.elems) \in Nat
          BY <4>2, SumsDef DEF SumSizes
        <4> QED  BY <2>2, <3>2, <4>3
      <3>4. t.size = PrefixSize(t) + SumSizes(st, t.elems)
        BY <2>2, <2>4, <2>8 DEF SizeIs
      <3>5. s.size = PrefixSize(s) + SumSizes(st, t.elems)
        BY <2>2, <2>3, <3>3, <3>4
      <3> QED  BY <2>2, <2>8, <3>2, <3>5 DEF SizeIs
    <2>9. ASSUME NEW x \in DOMAIN t.elems, IsChild(t.elems[x]), t.elems[x].id # p
          PROVE  r.slab[t.elems[x].id].inlined
                   <=> Inlinable(r.slab[t.elems[x].id], MaxInlineSize[s.kind] - t.elems[x].wrap)
      <3>1. t.elems[x].id \in Container /\ t.elems[x].id \notin {p, v} /\ t.elems[x].id # dirty
        BY <1>1, <2>1, <2>2, <2>9, NoneIsNot
      <3>2. r.slab[t.elems[x].id] = st.slab[t.elems[x].id]
        BY <3>1 DEF Changed
      <3> QED  BY <2>1, <2>2, <2>9, <3>1, <3>2 DEF SizesFit
    <2>10. s.kind = "array" \/ s.kind = "map"
      BY <1>0 DEF Kind
    <2>11. s.kind = "map" \/ p \notin SlabsIn(r, q) => SizeIs(r, q)
      BY <2>7, <2>8, <2>10
    <2>12. s.kind = "map" =>
              \A x \in DOMAIN s.elems : ~ (s.elems[x].tag = "slab" /\ s.elems[x].id = p) =>
                 s.cached[x] = ElementOverhead + ByteSize(r, s.elems[x])
      BY <2>2, <2>7
    <2> QED  BY <2>2, <2>4, <2>5, <2>9, <2>11, <2>12
  <1> QED  BY <1>2, <1>3

-----------------------------------------------------------------------------
(* Inlining.                                                               *)

\* An encoding is one of slabs only.
LEMMA EncodeSlabs ==
    ASSUME NEW st, NEW r, r.slab = st.slab, NEW c
    PROVE  /\ Encode(r, c) = Encode(st, c) /\ InlinedIn(r, c) = InlinedIn(st, c)
           /\ SlabElems(r, c) = SlabElems(st, c) /\ SlabsIn(r, c) = SlabsIn(st, c)
           /\ Contents(r) = Contents(st)
  <1>1. InlinedIn(r, c) = InlinedIn(st, c)
    BY DEF InlinedIn
  <1>2. SlabElems(r, c) = SlabElems(st, c)
    BY DEF SlabElems
  <1> QED  BY <1>1, <1>2 DEF Encode, SlabsIn, Contents, ContentsIn

\* Only the status of c is another one.
Status(st, r, c, inlined) ==
    /\ r \in States /\ r.handle = st.handle
    /\ \A d \in Container : d # c => r.slab[d] = st.slab[d] /\ r.stored[d] = st.stored[d]
    /\ Moved(st, r, c) /\ r.slab[c].inlined = inlined
    /\ Contents(r) = Contents(st)

\* What is held stays the same.
LEMMA SameContents ==
    ASSUME NEW st \in States, NEW r \in States, \A d \in Container : SameHeld(st, r, d)
    PROVE  Contents(r) = Contents(st)
  <1>1. \A d \in Container : Contents(r)[d] = Contents(st)[d]
    BY SameElems
  <1>2. Contents(r) \in Programs /\ Contents(st) \in Programs
    BY ContentsAre
  <1> QED  BY <1>1, <1>2 DEF Programs

\* Inline leaves the storage.
LEMMA InlineIs ==
    ASSUME NEW st \in States, NEW c \in Container, st.slab[c] # None, ~ st.slab[c].inlined,
           st.slab[c].size >= PrefixSize(st.slab[c])
    PROVE  Status(st, Inline(st, c), c, TRUE)
  <1>1. PICK s \in Slab : s = st.slab[c]
    BY StateIs
  <1> DEFINE t == Resized(s, InlinedSize(s), TRUE)
             m == PutSlab(st, c, t)
             r == Inline(st, c)
  <1>2. t = [kind |-> s.kind, type |-> s.type, inlined |-> TRUE, size |-> InlinedSize(s),
             elems |-> s.elems, cached |-> s.cached]
    <2>1. \A inlined \in BOOLEAN :
             Resized(s, InlinedSize(s), inlined)
               = [kind |-> s.kind, type |-> s.type, inlined |-> inlined, size |-> InlinedSize(s),
                  elems |-> s.elems, cached |-> s.cached]
      BY SlabExcept
    <2> QED  BY <2>1
  <1>8. r = [m EXCEPT !.stored[c] = None]
    BY <1>1 DEF Inline, Resized
  <1> HIDE DEF r, t
  <1>3. s.size \in Nat /\ PrefixSize(s) \in Nat /\ InlinedPrefixSize[s.kind] \in Nat
    BY <1>1, SlabIs, PrefixIs
  <1>4. InlinedSize(s) \in Nat /\ InlinedSize(s) - InlinedPrefixSize[s.kind] = s.size - PrefixSize(s)
    BY <1>1, <1>3 DEF InlinedSize
  <1>5. t \in Slab
    <2>1. \/ s.kind = "array" /\ s.elems \in Seq(Element) /\ s.cached = <<>>
          \/ /\ s.kind = "map"
             /\ \E keys \in SUBSET Key : s.elems \in [keys -> Element]
             /\ \E keys \in SUBSET Key : s.cached \in [keys -> Nat]
      BY <1>1, SlabIs DEF Kind
    <2> QED  BY <1>1, <1>2, <1>4, <2>1, SlabIs, IsSlab
  <1>6. PrefixSize(t) = InlinedPrefixSize[s.kind]
    BY <1>2 DEF PrefixSize
  <1>7. /\ m \in States /\ m.slab[c] = t /\ m.handle = st.handle /\ m.stored = st.stored
        /\ \A d \in Container : d # c => m.slab[d] = st.slab[d]
    BY <1>5, PutSlabIs
  <1> HIDE DEF m
  <1>9. /\ r \in States /\ r.slab = m.slab /\ r.handle = m.handle /\ r.stored[c] = None
        /\ \A d \in Container : d # c => r.stored[d] = m.stored[d]
    BY <1>7, <1>8 DEF States
  <1>10. Moved(st, r, c)
    <2>1. r.slab[c] = t /\ t # None
      BY <1>5, <1>7, <1>9, NoneIsNot
    <2>2. t.inlined # s.inlined /\ t.inlined
      BY <1>1, <1>2
    <2>3. t.size - PrefixSize(t) = s.size - PrefixSize(s)
      BY <1>2, <1>4, <1>6
    <2>4. t.kind = s.kind /\ t.type = s.type /\ t.elems = s.elems /\ t.cached = s.cached
      BY <1>2
    <2>5. s # None
      BY <1>1
    <2> HIDE DEF t
    <2> QED  BY <1>1, <1>9, <2>1, <2>2, <2>3, <2>4, <2>5 DEF Moved
  <1>11. Contents(r) = Contents(st)
    <2>1. \A d \in Container : SameHeld(st, r, d)
      BY <1>7, <1>9, <1>10 DEF SameHeld, Moved
    <2> QED  BY <1>9, <2>1, SameContents
  <1>12. r.slab[c].inlined = TRUE
    BY <1>2, <1>7, <1>9
  <1> QED  BY <1>7, <1>9, <1>10, <1>11, <1>12 DEF Status, r

\* Uninline enters the storage.
LEMMA UninlineIs ==
    ASSUME NEW st \in States, ChildrenExist(Contents(st)), NEW c \in Container,
           st.slab[c] # None, st.slab[c].inlined, st.slab[c].size >= PrefixSize(st.slab[c])
    PROVE  Status(st, Uninline(st, c), c, FALSE)
  <1>1. PICK s \in Slab : s = st.slab[c]
    BY StateIs
  <1> DEFINE size == s.size - InlinedPrefixSize[s.kind] + RootPrefixSize[s.kind]
             t == Resized(s, size, FALSE)
             m == PutSlab(st, c, t)
             r == Uninline(st, c)
  <1>2. t = [kind |-> s.kind, type |-> s.type, inlined |-> FALSE, size |-> size,
             elems |-> s.elems, cached |-> s.cached]
    <2>1. \A inlined \in BOOLEAN :
             Resized(s, size, inlined)
               = [kind |-> s.kind, type |-> s.type, inlined |-> inlined, size |-> size,
                  elems |-> s.elems, cached |-> s.cached]
      BY SlabExcept
    <2> QED  BY <2>1
  <1>8. r = storeSlab(m, c)
    BY <1>1 DEF Uninline, Resized
  <1> HIDE DEF r, t
  <1>3. s.size \in Nat /\ PrefixSize(s) \in Nat /\ InlinedPrefixSize[s.kind] \in Nat
        /\ RootPrefixSize[s.kind] \in Nat /\ PrefixSize(s) = InlinedPrefixSize[s.kind]
    BY <1>1, SlabIs, PrefixIs DEF PrefixSize
  <1>4. size \in Nat /\ size - RootPrefixSize[s.kind] = s.size - PrefixSize(s)
    BY <1>1, <1>3
  <1>5. t \in Slab
    <2>1. \/ s.kind = "array" /\ s.elems \in Seq(Element) /\ s.cached = <<>>
          \/ /\ s.kind = "map"
             /\ \E keys \in SUBSET Key : s.elems \in [keys -> Element]
             /\ \E keys \in SUBSET Key : s.cached \in [keys -> Nat]
      BY <1>1, SlabIs DEF Kind
    <2>2. s.type \in Types
      BY SlabIs
    <2>3. PICK kind, type, n, elems, cached :
             kind = s.kind /\ type = s.type /\ n = size /\ elems = s.elems /\ cached = s.cached
      OBVIOUS
    <2>4. [kind |-> kind, type |-> type, inlined |-> FALSE, size |-> n,
           elems |-> elems, cached |-> cached] \in Slab
      BY <1>4, <2>1, <2>2, <2>3, IsSlab
    <2> QED  BY <1>2, <2>3, <2>4
  <1>6. PrefixSize(t) = RootPrefixSize[s.kind]
    BY <1>2 DEF PrefixSize
  <1>7. /\ m \in States /\ m.slab[c] = t /\ m.handle = st.handle /\ m.stored = st.stored
        /\ \A d \in Container : d # c => m.slab[d] = st.slab[d]
    BY <1>5, PutSlabIs
  <1> HIDE DEF m, size
  <1>9. t # None
    BY <1>5, NoneIsNot
  <1>10. Contents(m) = Contents(st)
    <2>1. \A d \in Container : SameHeld(st, m, d)
      BY <1>1, <1>2, <1>7, <1>9 DEF SameHeld
    <2> QED  BY <1>7, <2>1, SameContents
  <1>11. /\ r \in States /\ r.slab = m.slab /\ r.handle = m.handle /\ r.stored[c] = Encode(m, c)
         /\ \A d \in Container : d # c => r.stored[d] = m.stored[d]
         /\ Contents(r) = Contents(m)
    BY <1>7, <1>8, <1>9, <1>10, StoreSlabIs
  <1>12. Moved(st, r, c)
    <2>1. r.slab[c] = t
      BY <1>7, <1>11
    <2>2. t.inlined # s.inlined /\ ~ t.inlined
      BY <1>1, <1>2
    <2>3. t.size - PrefixSize(t) = s.size - PrefixSize(s)
      BY <1>2, <1>4, <1>6
    <2>4. r.stored[c] = Encode(r, c)
      BY <1>11, EncodeSlabs
    <2> QED  BY <1>1, <1>2, <1>9, <2>1, <2>2, <2>3, <2>4 DEF Moved
  <1>13. r.slab[c].inlined = FALSE
    BY <1>2, <1>7, <1>11
  <1> QED  BY <1>7, <1>10, <1>11, <1>12, <1>13 DEF Status, r

\* Storable gives a child the status that fits.
LEMMA StorableIs ==
    ASSUME NEW st \in States, ChildrenExist(Contents(st)), NEW v \in Child, st.slab[v.id] # None,
           st.slab[v.id].size >= PrefixSize(st.slab[v.id]), NEW max
    PROVE  LET r   == Storable(st, v, max)
               fit == Inlinable(st.slab[v.id], max - v.wrap)
           IN /\ Status(st, r.st, v.id, fit)
              /\ Inlinable(r.st.slab[v.id], max - v.wrap) = fit
              /\ r.storable \in Link
              /\ r.storable = [tag |-> IF fit THEN "slab" ELSE "ref", id |-> v.id, wrap |-> v.wrap]
  <1> DEFINE r   == Storable(st, v, max)
             c   == v.id
             s   == st.slab[c]
             fit == Inlinable(s, max - v.wrap)
  <1>1. v.tag = "value" /\ c \in Container /\ v.wrap \in Wraps
    BY DEF Child
  <1>2. /\ r.storable = [tag |-> IF fit THEN "slab" ELSE "ref", id |-> c, wrap |-> v.wrap]
        /\ r.st = CASE fit /\ ~ s.inlined -> Inline(st, c)
                    [] ~ fit /\ s.inlined -> Uninline(st, c)
                    [] OTHER -> st
    BY <1>1 DEF Storable
  <1>3. r.storable \in Link
    <2> HIDE DEF fit, r, c
    <2> QED  BY <1>1, <1>2 DEF Link
  <1>4. s \in Slab /\ s.inlined \in BOOLEAN /\ fit \in BOOLEAN
    <2>1. s \in Slab
      BY <1>1, StateIs
    <2> QED  BY <2>1, SlabIs DEF Inlinable
  <1>5. Status(st, r.st, c, fit)
    <2>1. CASE fit /\ ~ s.inlined
      <3>1. r.st = Inline(st, c)
        BY <1>2, <2>1
      <3>2. Status(st, Inline(st, c), c, TRUE)
        BY <1>1, <2>1, InlineIs
      <3>3. fit = TRUE
        BY <1>4, <2>1
      <3> QED  BY <3>1, <3>2, <3>3
    <2>2. CASE ~ fit /\ s.inlined
      <3>1. r.st = Uninline(st, c)
        BY <1>2, <2>2
      <3>2. Status(st, Uninline(st, c), c, FALSE)
        BY <1>1, <2>2, UninlineIs
      <3>3. fit = FALSE
        BY <1>4, <2>2
      <3> QED  BY <3>1, <3>2, <3>3
    <2>3. CASE fit = s.inlined
      <3>1. r.st = st
        BY <1>2, <1>4, <2>3
      <3>2. Moved(st, st, c)
        BY DEF Moved
      <3> QED  BY <2>3, <3>1, <3>2 DEF Status
    <2> QED  BY <1>4, <2>1, <2>2, <2>3
  <1>6. Inlinable(r.st.slab[c], max - v.wrap) = fit
    <2>1. r.st.slab[c] # None /\ r.st \in States
      BY <1>5 DEF Status, Moved
    <2>2. r.st.slab[c] \in Slab
      BY <1>1, <2>1, StateIs
    <2>3. r.st.slab[c].kind = s.kind /\ r.st.slab[c].size - PrefixSize(r.st.slab[c]) = s.size - PrefixSize(s)
      BY <1>5 DEF Status, Moved
    <2> HIDE DEF r, s, fit
    <2>4. Inlinable(r.st.slab[c], max - v.wrap) = Inlinable(s, max - v.wrap)
      BY <1>4, <2>2, <2>3, SameInlinable
    <2> QED  BY <2>4 DEF fit
  <1> QED  BY <1>2, <1>3, <1>5, <1>6

-----------------------------------------------------------------------------
(* A changed slab is put and stored.                                       *)

\* All is well but for what the parent of dirty is to be told, and for the
\* containers in X that a call has taken out of their place.
Sound(st, dirty, X) ==
    /\ st \in States /\ Nest(Contents(st))
    /\ TagsFit(st) /\ SizesFit(st, dirty) /\ InlinedHavePlace(st, X) /\ Saved(st, dirty)

\* In m, the child v that goes into p has the status that fits it.
Prepared(st, m, v) ==
    \/ v = None /\ m = st
    \/ v \in Container /\ \E inlined \in BOOLEAN : Status(st, m, v, inlined)

\* Other slabs stay when that of p is put.
LEMMA PutIs ==
    ASSUME NEW st \in States, NEW m, NEW v, Prepared(st, m, v),
           NEW p \in Container, st.slab[p] # None, v # p, NEW s \in Slab
    PROVE  /\ m \in States /\ m.slab[p] = st.slab[p] /\ m.stored[p] = st.stored[p]
           /\ m.handle = st.handle /\ Contents(m) = Contents(st)
           /\ PutSlab(m, p, s) \in States
           /\ PutSlab(m, p, s).slab[p] = s
           /\ \A d \in Container : d # p => /\ PutSlab(m, p, s).slab[d] = m.slab[d]
                                            /\ SlabElems(PutSlab(m, p, s), d) = SlabElems(st, d)
                                            /\ Contents(PutSlab(m, p, s))[d] = Contents(st)[d]
           /\ \A d \in Container : d \notin {p, v} => PutSlab(m, p, s).slab[d] = st.slab[d]
           /\ SlabElems(PutSlab(m, p, s), p) = s.elems
  <1> DEFINE w == PutSlab(m, p, s)
  <1>1. m \in States /\ m.handle = st.handle /\ Contents(m) = Contents(st)
    BY DEF Prepared, Status
  <1>2. \A d \in Container : d # v => m.slab[d] = st.slab[d] /\ m.stored[d] = st.stored[d]
    BY DEF Prepared, Status
  <1>3. w \in States /\ w.slab[p] = s /\ \A d \in Container : d # p => w.slab[d] = m.slab[d]
    BY <1>1, PutSlabIs
  <1> HIDE DEF w
  <1>4. \A d \in Container : SlabElems(m, d) = SlabElems(st, d)
    <2> TAKE d \in Container
    <2>1. CASE d # v
      BY <1>2, <2>1 DEF SlabElems
    <2>2. CASE d = v
      <3>1. Moved(st, m, d)
        BY <2>2, NoneIsNot DEF Prepared, Status
      <3> QED  BY <3>1 DEF Moved, SlabElems
    <2> QED  BY <2>1, <2>2
  <1>5. ASSUME NEW d \in Container, d # p
        PROVE  SlabElems(w, d) = SlabElems(st, d) /\ Contents(w)[d] = Contents(st)[d]
    <2>1. SameHeld(m, w, d)
      BY <1>3, <1>5 DEF SameHeld
    <2> QED  BY <1>1, <1>3, <1>4, <2>1, SameElems
  <1>6. s # None
    BY NoneIsNot
  <1>7. SlabElems(w, p) = s.elems
    BY <1>3, <1>6, SlabElemsAre
  <1> QED  BY <1>1, <1>2, <1>3, <1>5, <1>7 DEF w

\* What p holds then.
LEMMA PutHolds ==
    ASSUME NEW m \in States, NEW p \in Container, NEW s \in Slab
    PROVE  Contents(PutSlab(m, p, s))[p]
             = [kind |-> s.kind, type |-> s.type,
                elems |-> [x \in DOMAIN s.elems |-> AsValue(s.elems[x])]]
  <1> DEFINE w == PutSlab(m, p, s)
  <1>1. w \in States /\ w.slab[p] = s /\ s # None
    BY PutSlabIs, NoneIsNot
  <1> HIDE DEF w
  <1>2. Contents(w)[p] = [kind |-> s.kind, type |-> s.type,
                          elems |-> [x \in DOMAIN s.elems |-> AsValue(s.elems[x])]]
    BY <1>1, ContentsAre
  <1> QED  BY <1>2 DEF w

\* The slab is stored if it is not inlined.
LEMMA PutStored ==
    ASSUME NEW st \in States, NEW m, NEW v, Prepared(st, m, v),
           NEW p \in Container, st.slab[p] # None, v # p,
           NEW s \in Slab, s.kind = st.slab[p].kind, s.inlined = st.slab[p].inlined,
           Nest(Contents(PutSlab(m, p, s))),
           v # None => v \in Kids(Contents(PutSlab(m, p, s)), p)
    PROVE  LET w == PutSlab(m, p, s)
               r == storeIfNotInlined(w, p)
           IN /\ r \in States /\ r.slab = w.slab /\ Contents(r) = Contents(w)
              /\ Changed(st, r, p, v)
  <1> DEFINE w == PutSlab(m, p, s)
             r == storeIfNotInlined(w, p)
  <1>1. /\ m \in States /\ m.slab[p] = st.slab[p] /\ m.stored[p] = st.stored[p]
        /\ m.handle = st.handle /\ Contents(m) = Contents(st)
        /\ w \in States /\ w.slab[p] = s
        /\ \A d \in Container : d # p => w.slab[d] = m.slab[d]
        /\ \A d \in Container : d \notin {p, v} => w.slab[d] = st.slab[d]
    BY PutIs
  <1>2. w.handle = m.handle /\ w.stored = m.stored
    BY <1>1, PutSlabIs
  <1>3. s # None /\ ChildrenExist(Contents(w))
    BY NoneIsNot DEF Nest
  <1>4. r = IF s.inlined THEN w ELSE storeSlab(w, p)
    BY <1>1 DEF storeIfNotInlined
  <1> HIDE DEF w, r
  <1>5. /\ storeSlab(w, p) \in States /\ storeSlab(w, p).slab = w.slab
        /\ storeSlab(w, p).handle = w.handle
        /\ storeSlab(w, p).stored[p] = Encode(w, p)
        /\ \A d \in Container : d # p => storeSlab(w, p).stored[d] = w.stored[d]
    BY <1>1, <1>3, StoreSlabIs
  <1>6. /\ r \in States /\ r.slab = w.slab /\ r.handle = st.handle
        /\ \A d \in Container : d # p => r.stored[d] = w.stored[d]
        /\ r.stored[p] = IF s.inlined THEN st.stored[p] ELSE Encode(w, p)
    BY <1>1, <1>2, <1>4, <1>5
  <1>7. Contents(r) = Contents(w) /\ \A c : Encode(r, c) = Encode(w, c)
    BY <1>6, EncodeSlabs
  <1>8. \A d \in Container : d # v => m.stored[d] = st.stored[d]
    BY DEF Prepared, Status
  <1>9. v # None => v \in Kids(Contents(r), p) /\ Moved(st, r, v)
    <2> SUFFICES ASSUME v # None PROVE v \in Kids(Contents(r), p) /\ Moved(st, r, v)
      OBVIOUS
    <2>1. v \in Kids(Contents(r), p)
      BY <1>7 DEF w
    <2>2. v \in Container /\ Moved(st, m, v)
      BY DEF Prepared, Status
    <2>3. r.slab[v] = m.slab[v] /\ r.stored[v] = m.stored[v]
      BY <1>1, <1>2, <1>6, <2>2
    <2>4. Encode(r, v) = Encode(m, v)
      <3>1. \A d \in Container : d # p => SameHeld(m, r, d)
        BY <1>1, <1>6 DEF SameHeld
      <3>2. Nest(Contents(r))
        BY <1>7 DEF w
      <3>3. p \notin Under(Contents(r), v)
        <4>1. v \in Under(Contents(r), p)
          BY <2>1, <2>2, UnderIs
        <4>2. Under(Contents(r), v) \subseteq Under(Contents(r), p)
          BY <4>1, UnderIs
        <4> QED  BY <3>2, <4>2 DEF Nest, NoCycle
      <3>4. p \notin InlinedIn(r, v)
        BY <1>6, <2>2, <3>3, InlinedIs
      <3> QED  BY <1>1, <1>6, <2>2, <3>1, <3>4, EncodeSame
    <2> QED  BY <2>1, <2>2, <2>3, <2>4 DEF Moved
  <1>10. r.slab[p] = s
    BY <1>1, <1>6
  <1>11. \A c \in Container : c \notin {p, v} => r.slab[c] = st.slab[c] /\ r.stored[c] = st.stored[c]
    BY <1>1, <1>2, <1>6, <1>8
  <1>12. Changed(st, r, p, v)
    BY <1>3, <1>6, <1>7, <1>9, <1>10, <1>11 DEF Changed
  <1> QED  BY <1>6, <1>7, <1>12 DEF w, r

\* What depends on slabs only.
LEMMA SlabsOnly ==
    ASSUME NEW st, NEW w, NEW r, r.slab = w.slab, NEW p, NEW v
    PROVE  /\ ElementsFit(st, r, p, v) <=> ElementsFit(st, w, p, v)
           /\ SizesIn(r, p) <=> SizesIn(w, p)
           /\ SlabsIn(r, p) = SlabsIn(w, p)
  <1>1. SlabElems(r, p) = SlabElems(w, p) /\ SlabsIn(r, p) = SlabsIn(w, p)
    BY EncodeSlabs
  <1>2. \A e : ByteSize(r, e) = ByteSize(w, e)
    BY DEF ByteSize
  <1>3. \A elems : SumSizes(r, elems) = SumSizes(w, elems)
    BY <1>2 DEF SumSizes
  <1>4. SizesIn(r, p) <=> SizesIn(w, p)
    BY <1>2, <1>3 DEF SizesIn, SizeIs
  <1> QED  BY <1>1, <1>4 DEF ElementsFit

\* The slab s that is to be put in p is as it should be; Y is taken out.
Ready(st, dirty, X, m, v, p, s, Y) ==
    /\ dirty \in {None, v} /\ Sound(st, dirty, X) /\ X \subseteq Y
    /\ Prepared(st, m, v) /\ p \in Container /\ st.slab[p] # None /\ v # p
    /\ s \in Slab /\ s.kind = st.slab[p].kind /\ s.inlined = st.slab[p].inlined
    /\ Nest(Contents(PutSlab(m, p, s)))
    /\ v # None => v \in Kids(Contents(PutSlab(m, p, s)), p)
    /\ ElementsFit(st, PutSlab(m, p, s), p, v) /\ SizesIn(PutSlab(m, p, s), p)
    /\ SlabsIn(st, p) \subseteq SlabsIn(PutSlab(m, p, s), p) \cup Y \cup {v}

\* All is well then, but for the parent of p.
LEMMA PutSound ==
    ASSUME NEW st, NEW dirty, NEW X, NEW m, NEW v, NEW p, NEW s, NEW Y,
           Ready(st, dirty, X, m, v, p, s, Y)
    PROVE  LET w == PutSlab(m, p, s)
               r == storeIfNotInlined(w, p)
           IN /\ Sound(r, p, Y) /\ r.slab = w.slab /\ r.handle = st.handle
              /\ Contents(r) = Contents(w)
              /\ \A d \in Container : d \notin {p, v} => r.slab[d] = st.slab[d]
  <1> DEFINE w == PutSlab(m, p, s)
             r == storeIfNotInlined(w, p)
  <1>0. /\ dirty \in {None, v} /\ Sound(st, dirty, X) /\ X \subseteq Y
        /\ Prepared(st, m, v) /\ p \in Container /\ st.slab[p] # None /\ v # p
        /\ s \in Slab /\ s.kind = st.slab[p].kind /\ s.inlined = st.slab[p].inlined
        /\ Nest(Contents(w))
        /\ v # None => v \in Kids(Contents(w), p)
        /\ ElementsFit(st, w, p, v) /\ SizesIn(w, p)
        /\ SlabsIn(st, p) \subseteq SlabsIn(w, p) \cup Y \cup {v}
    BY DEF Ready
  <1>1. st \in States /\ TagsFit(st) /\ SizesFit(st, dirty) /\ InlinedHavePlace(st, X) /\ Saved(st, dirty)
    BY <1>0 DEF Sound
  <1>2. /\ r \in States /\ r.slab = w.slab /\ Contents(r) = Contents(w)
        /\ Changed(st, r, p, v)
    BY <1>0, <1>1, PutStored
  <1>3. Nest(Contents(r)) /\ ElementsFit(st, r, p, v) /\ SizesIn(r, p)
        /\ SlabsIn(st, p) \subseteq SlabsIn(r, p) \cup Y \cup {v}
    BY <1>0, <1>2, SlabsOnly
  <1>4. v \in Container \cup {None}
    BY <1>0 DEF Prepared
  <1> HIDE DEF w, r
  <1>5. TagsFit(r)
    BY <1>0, <1>1, <1>2, <1>3, <1>4, ChangedTags
  <1>6. SizesFit(r, p)
    BY <1>0, <1>1, <1>2, <1>3, <1>4, ChangedSizes
  <1>7. InlinedHavePlace(r, Y)
    BY <1>0, <1>1, <1>2, <1>3, <1>4, <1>5, ChangedPlaces
  <1>8. Saved(r, p)
    BY <1>0, <1>1, <1>2, <1>3, <1>4, ChangedSaved
  <1>9. r.handle = st.handle /\ \A d \in Container : d \notin {p, v} => r.slab[d] = st.slab[d]
    BY <1>0, <1>2 DEF Changed
  <1>10. Sound(r, p, Y)
    BY <1>2, <1>3, <1>5, <1>6, <1>7, <1>8 DEF Sound
  <1> QED  BY <1>2, <1>9, <1>10 DEF w, r

-----------------------------------------------------------------------------
(* Set, Insert and Remove of a slab.                                       *)

\* The container that a value is.
IdOf(value) == IF value.tag = "value" THEN value.id ELSE None

\* In m, e is the element for the container v or for a plain value.
Entry(m, e, v, max) ==
    /\ ~ IsChild(e) => v = None
    /\ IsChild(e) => /\ e.id = v /\ m.slab[v] # None
                     /\ (e.tag = "slab" <=> m.slab[v].inlined)
                     /\ (m.slab[v].inlined <=> Inlinable(m.slab[v], max - e.wrap))

\* Storable makes an element of a value.
LEMMA EntryOf ==
    ASSUME NEW st, NEW dirty, NEW X, Sound(st, dirty, X), NEW value \in Value,
           value.tag = "value" => st.slab[value.id] # None, NEW max
    PROVE  LET r == Storable(st, value, max)
           IN /\ Prepared(st, r.st, IdOf(value))
              /\ r.storable \in Element /\ Entry(r.st, r.storable, IdOf(value), max)
              /\ AsValue(r.storable) = value
  <1> DEFINE r == Storable(st, value, max)
  <1>1. CASE value.tag = "plain"
    <2>1. r = [st |-> st, storable |-> value]
      BY <1>1 DEF Storable
    <2>2. value \in Plain /\ value \in Element /\ ~ IsChild(value)
      BY <1>1, ValueIs DEF Element, IsChild
    <2>3. IdOf(value) = None
      BY <1>1 DEF IdOf
    <2>4. AsValue(value) = value
      BY <2>2 DEF AsValue
    <2>5. r.st = st /\ r.storable = value
      BY <2>1
    <2> HIDE DEF r
    <2> QED  BY <2>2, <2>3, <2>4, <2>5 DEF Prepared, Entry, r
  <1>2. CASE value.tag = "value"
    <2>1. value \in Child /\ value.id \in Container /\ IdOf(value) = value.id
      BY <1>2, ValueIs DEF IdOf
    <2>2. st \in States /\ ChildrenExist(Contents(st))
      BY DEF Sound, Nest
    <2>3. st.slab[value.id].size >= PrefixSize(st.slab[value.id])
      BY <1>2, <2>1 DEF Sound, SizesFit
    <2> DEFINE fit == Inlinable(st.slab[value.id], max - value.wrap)
    <2>4. /\ Status(st, r.st, value.id, fit)
          /\ Inlinable(r.st.slab[value.id], max - value.wrap) = fit
          /\ r.storable \in Link
          /\ r.storable = [tag |-> IF fit THEN "slab" ELSE "ref", id |-> value.id, wrap |-> value.wrap]
      BY <1>2, <2>1, <2>2, <2>3, StorableIs
    <2>5. fit \in BOOLEAN
      BY DEF Inlinable
    <2> HIDE DEF r, fit
    <2>6. Prepared(st, r.st, IdOf(value))
      BY <2>1, <2>4, <2>5 DEF Prepared
    <2>7. r.storable \in Element /\ IsChild(r.storable) /\ r.storable.id = value.id
          /\ r.storable.wrap = value.wrap /\ (r.storable.tag = "slab" <=> fit)
      BY <2>4 DEF Element, Link, IsChild
    <2>8. r.st.slab[value.id].inlined = fit /\ r.st.slab[value.id] # None
      BY <2>4 DEF Status, Moved
    <2>9. Entry(r.st, r.storable, IdOf(value), max)
      BY <2>1, <2>4, <2>5, <2>7, <2>8 DEF Entry
    <2>10. AsValue(r.storable) = value
      <3>1. value = [tag |-> "value", id |-> value.id, wrap |-> value.wrap]
        BY <2>1 DEF Child
      <3> QED  BY <2>7, <3>1 DEF AsValue
    <2> QED  BY <2>6, <2>7, <2>9, <2>10 DEF r
  <1> QED  BY <1>1, <1>2, ValueIs

\* The size of an element changes with the slab of its container only.
LEMMA SameByteSize ==
    ASSUME NEW st, NEW r, NEW e \in Element, e.tag = "slab" => r.slab[e.id] = st.slab[e.id]
    PROVE  ByteSize(r, e) = ByteSize(st, e)
  <1>1. e.tag \in {"plain", "slab", "ref"}
    BY ElementIs DEF IsChild
  <1> QED  BY <1>1 DEF ByteSize

\* The elements of p are that of v and others that were there.
LEMMA PutElements ==
    ASSUME NEW st, NEW dirty, NEW X, Sound(st, dirty, X), NEW m, NEW v, Prepared(st, m, v),
           NEW p \in Container, st.slab[p] # None, v # p,
           NEW s \in Slab, s.kind = st.slab[p].kind,
           Nest(Contents(PutSlab(m, p, s))),
           NEW e, Entry(m, e, v, MaxInlineSize[s.kind]),
           NEW at, IsChild(e) => at \in DOMAIN s.elems /\ s.elems[at] = e,
           \A x \in DOMAIN s.elems :
              \/ x = at /\ s.elems[x] = e
              \/ \E y \in DOMAIN st.slab[p].elems : st.slab[p].elems[y] = s.elems[x]
    PROVE  /\ ElementsFit(st, PutSlab(m, p, s), p, v)
           /\ \A x \in DOMAIN s.elems :
                 /\ ByteSize(PutSlab(m, p, s), s.elems[x]) = ByteSize(m, s.elems[x])
                 /\ x # at => /\ ByteSize(m, s.elems[x]) = ByteSize(st, s.elems[x])
                              /\ IsChild(s.elems[x]) => s.elems[x].id # v
           /\ v # None => v \in Kids(Contents(PutSlab(m, p, s)), p)
  <1> DEFINE w == PutSlab(m, p, s)
             k == Contents(w)
  <1>0. st \in States
    BY DEF Sound
  <1>1. /\ m \in States /\ w \in States /\ w.slab[p] = s /\ SlabElems(w, p) = s.elems
        /\ \A d \in Container : d # p => w.slab[d] = m.slab[d]
        /\ \A d \in Container : d \notin {p, v} => w.slab[d] = st.slab[d]
        /\ m.slab[p] = st.slab[p]
    BY <1>0, PutIs
  <1>2. SlabElems(st, p) = st.slab[p].elems
    BY <1>0, SlabElemsAre
  <1> HIDE DEF w
  <1>3. \A x \in DOMAIN s.elems :
           /\ s.elems[x] \in Element
           /\ IsChild(s.elems[x]) => s.elems[x].id \in Container /\ Place(k, p, x, s.elems[x].id)
    BY <1>1, SlabElemsAre, ElementIs, PlaceInSlab
  <1>4. IsChild(e) => e.id = v /\ v \in Container /\ Place(k, p, at, v)
    BY <1>3 DEF Entry
  <1>5. ASSUME NEW x \in DOMAIN s.elems, IsChild(s.elems[x])
        PROVE  /\ s.elems[x].id # p
               /\ s.elems[x].id = v => IsChild(e) /\ x = at /\ s.elems[x] = e
    <2>1. s.elems[x].id # p
      <3>1. s.elems[x].id \in Kids(k, p)
        BY <1>3, <1>5, KidsAre
      <3>2. s.elems[x].id \in Under(k, p)
        BY <3>1, UnderIs
      <3> QED  BY <3>2 DEF Nest, NoCycle, w
    <2>2. ASSUME s.elems[x].id = v PROVE IsChild(e) /\ x = at /\ s.elems[x] = e
      <3>1. v \in Container /\ v # None /\ IsChild(e)
        BY <1>3, <1>5, <2>2, NoneIsNot DEF Entry
      <3>2. x \in DOMAIN Elems(k, p) /\ at \in DOMAIN Elems(k, p)
        BY <1>3, <1>4, <1>5, <3>1 DEF Place
      <3>3. x = at
        BY <1>3, <1>4, <1>5, <2>2, <3>1, <3>2 DEF Nest, OnePlace, w
      <3> QED  BY <3>1, <3>3
    <2> QED  BY <2>1, <2>2
  <1>6. ElementsFit(st, w, p, v)
    <2> SUFFICES ASSUME NEW x \in DOMAIN s.elems, IsChild(s.elems[x])
                 PROVE  \/ /\ s.elems[x].id = v /\ (s.elems[x].tag = "slab" <=> w.slab[v].inlined)
                           /\ w.slab[v].inlined
                                <=> Inlinable(w.slab[v], MaxInlineSize[s.kind] - s.elems[x].wrap)
                        \/ s.elems[x].id # v /\ \E y \in DOMAIN SlabElems(st, p) : SlabElems(st, p)[y] = s.elems[x]
      BY <1>1 DEF ElementsFit
    <2>1. CASE s.elems[x].id = v
      <3>1. IsChild(e) /\ s.elems[x] = e /\ v \in Container
        BY <1>4, <1>5, <2>1
      <3>2. w.slab[v] = m.slab[v]
        BY <1>1, <3>1
      <3> QED  BY <3>1, <3>2 DEF Entry
    <2>2. CASE s.elems[x].id # v
      <3>1. s.elems[x] # e
        BY <2>2 DEF Entry
      <3> QED  BY <1>2, <2>2, <3>1
    <2> QED  BY <2>1, <2>2
  <1>7. ASSUME NEW x \in DOMAIN s.elems PROVE ByteSize(w, s.elems[x]) = ByteSize(m, s.elems[x])
    <2>1. s.elems[x].tag = "slab" => w.slab[s.elems[x].id] = m.slab[s.elems[x].id]
      BY <1>1, <1>3, <1>5 DEF IsChild
    <2> QED  BY <1>3, <2>1, SameByteSize
  <1>8. ASSUME NEW x \in DOMAIN s.elems, x # at
        PROVE  /\ ByteSize(m, s.elems[x]) = ByteSize(st, s.elems[x])
               /\ IsChild(s.elems[x]) => s.elems[x].id # v
    <2>1. IsChild(s.elems[x]) => s.elems[x].id # v /\ s.elems[x].id # p /\ s.elems[x].id \in Container
      BY <1>3, <1>5, <1>8
    <2>2. s.elems[x].tag = "slab" => m.slab[s.elems[x].id] = st.slab[s.elems[x].id]
      BY <1>1, <2>1 DEF IsChild
    <2> QED  BY <1>3, <2>1, <2>2, SameByteSize
  <1>9. v # None => v \in Kids(k, p)
    BY <1>4, KidsAre DEF Entry
  <1> QED  BY <1>6, <1>7, <1>8, <1>9 DEF w

\* The elements of p change to elems, and nothing else.
Alters(k, k2, p, elems) ==
    /\ k2 \in Programs /\ k[p] # None
    /\ \A d \in Container : d # p => k2[d] = k[d]
    /\ k2[p] = [kind |-> k[p].kind, type |-> k[p].type, elems |-> elems]

\* Elements as the program sees them.
ValuesOf(elems) == [x \in DOMAIN elems |-> AsValue(elems[x])]

\* What putting a slab does to the containers.
LEMMA PutAlters ==
    ASSUME NEW st \in States, NEW m, NEW v, Prepared(st, m, v),
           NEW p \in Container, st.slab[p] # None, v # p,
           NEW s \in Slab, s.kind = st.slab[p].kind, s.type = st.slab[p].type,
           NEW elems, elems = ValuesOf(s.elems)
    PROVE  Alters(Contents(st), Contents(PutSlab(m, p, s)), p, elems)
  <1>1. /\ PutSlab(m, p, s) \in States /\ m \in States
        /\ \A d \in Container : d # p => Contents(PutSlab(m, p, s))[d] = Contents(st)[d]
    BY PutIs
  <1>2. Contents(PutSlab(m, p, s)) \in Programs /\ Contents(st)[p] # None
    BY <1>1, ContentsAre
  <1>3. Contents(st)[p].kind = s.kind /\ Contents(st)[p].type = s.type
    <2>1. Contents(st)[p] = [kind |-> st.slab[p].kind, type |-> st.slab[p].type,
                             elems |-> [x \in DOMAIN st.slab[p].elems |-> AsValue(st.slab[p].elems[x])]]
      BY ContentsAre
    <2> QED  BY <2>1
  <1>4. Contents(PutSlab(m, p, s))[p] = [kind |-> s.kind, type |-> s.type, elems |-> elems]
    BY <1>1, PutHolds DEF ValuesOf
  <1> QED  BY <1>1, <1>2, <1>3, <1>4 DEF Alters

\* What a container holds is the values of its slab's elements.
LEMMA HeldIs ==
    ASSUME NEW st \in States, NEW p \in Container, st.slab[p] # None
    PROVE  /\ DOMAIN Contents(st)[p].elems = DOMAIN st.slab[p].elems
           /\ \A x \in DOMAIN st.slab[p].elems :
                 Contents(st)[p].elems[x] = AsValue(st.slab[p].elems[x])
           /\ Contents(st)[p].kind = st.slab[p].kind /\ Contents(st)[p].type = st.slab[p].type
           /\ Contents(st)[p] # None /\ Elems(Contents(st), p) = Contents(st)[p].elems
           /\ SlabElems(st, p) = st.slab[p].elems
           /\ st.slab[p] \in Slab /\ st.slab[p].kind \in Kind
  <1>1. Contents(st)[p] = [kind |-> st.slab[p].kind, type |-> st.slab[p].type,
                           elems |-> [x \in DOMAIN st.slab[p].elems |-> AsValue(st.slab[p].elems[x])]]
    BY ContentsAre
  <1>2. Contents(st)[p] # None /\ st.slab[p] \in Slab
    BY ContentsAre, StateIs
  <1> QED  BY <1>1, <1>2, SlabElemsAre, SlabIs DEF Elems

\* A call on p made r of st: p has the elements vals, and those in Y were taken
\* out of it.
Altered(st, r, v, p, vals, Y) ==
    /\ Sound(r, p, Y) /\ r.handle = st.handle
    /\ Alters(Contents(st), Contents(r), p, vals)
    /\ \A d \in Container : d \notin {p, v} => r.slab[d] = st.slab[d]

\* The sizes that the slab t is to have.
SizesOf(m, t) ==
    /\ t.size = PrefixSize(t) + (IF t.kind = "array" THEN SumSizes(m, t.elems)
                                                     ELSE SumCached(t.cached))
    /\ t.kind = "map" => /\ DOMAIN t.cached = DOMAIN t.elems
                         /\ \A x \in DOMAIN t.elems :
                               t.cached[x] = ElementOverhead + ByteSize(m, t.elems[x])

\* A call gives p the slab t: its elements are e, at one place, and others that
\* p had; those it had and has no more are in Y.
Alterable(st, dirty, X, m, v, p, at, e, t, vals, Y) ==
    /\ dirty \in {None, v} /\ Sound(st, dirty, X) /\ X \subseteq Y
    /\ Prepared(st, m, v) /\ p \in Container /\ st.slab[p] # None /\ v # p
    /\ Entry(m, e, v, MaxInlineSize[st.slab[p].kind])
    /\ t \in Slab /\ t.kind = st.slab[p].kind /\ t.type = st.slab[p].type
    /\ t.inlined = st.slab[p].inlined
    /\ vals = ValuesOf(t.elems)
    /\ \A k \in Programs : Alters(Contents(st), k, p, vals) => Nest(k)
    /\ IsChild(e) => at \in DOMAIN t.elems /\ t.elems[at] = e
    /\ \A x \in DOMAIN t.elems :
          \/ x = at /\ t.elems[x] = e
          \/ \E y \in DOMAIN st.slab[p].elems : st.slab[p].elems[y] = t.elems[x]
    /\ \A y \in DOMAIN st.slab[p].elems :
          \/ ~ IsChild(st.slab[p].elems[y]) \/ st.slab[p].elems[y].id \in Y \cup {v}
          \/ \E x \in DOMAIN t.elems : st.slab[p].elems[y] = t.elems[x]
    /\ (\A x \in DOMAIN t.elems : x # at => /\ ByteSize(m, t.elems[x]) = ByteSize(st, t.elems[x])
                                            /\ IsChild(t.elems[x]) => t.elems[x].id # v)
         => SizesOf(m, t)

\* It does what it should.
LEMMA AlterPut ==
    ASSUME NEW st, NEW dirty, NEW X, NEW m, NEW v, NEW p, NEW at, NEW e, NEW t, NEW vals, NEW Y,
           Alterable(st, dirty, X, m, v, p, at, e, t, vals, Y)
    PROVE  Altered(st, storeIfNotInlined(PutSlab(m, p, t), p), v, p, vals, Y)
  <1> DEFINE w == PutSlab(m, p, t)
             r == storeIfNotInlined(w, p)
  <1>1. /\ dirty \in {None, v} /\ Sound(st, dirty, X) /\ X \subseteq Y
        /\ Prepared(st, m, v) /\ p \in Container /\ st.slab[p] # None /\ v # p
        /\ Entry(m, e, v, MaxInlineSize[t.kind])
        /\ t \in Slab /\ t.kind = st.slab[p].kind /\ t.type = st.slab[p].type
        /\ t.inlined = st.slab[p].inlined
        /\ vals = ValuesOf(t.elems)
        /\ \A k \in Programs : Alters(Contents(st), k, p, vals) => Nest(k)
    BY DEF Alterable
  <1>2. st \in States
    BY <1>1 DEF Sound
  <1>3. Alters(Contents(st), Contents(w), p, vals)
    BY <1>1, <1>2, PutAlters
  <1>4. Nest(Contents(w))
    BY <1>1, <1>3 DEF Alters
  <1>5. /\ ElementsFit(st, w, p, v)
        /\ \A x \in DOMAIN t.elems : ByteSize(w, t.elems[x]) = ByteSize(m, t.elems[x])
        /\ \A x \in DOMAIN t.elems : x # at => /\ ByteSize(m, t.elems[x]) = ByteSize(st, t.elems[x])
                                               /\ IsChild(t.elems[x]) => t.elems[x].id # v
        /\ v # None => v \in Kids(Contents(w), p)
    <2>1. IsChild(e) => at \in DOMAIN t.elems /\ t.elems[at] = e
      BY DEF Alterable
    <2>2. \A x \in DOMAIN t.elems :
             \/ x = at /\ t.elems[x] = e
             \/ \E y \in DOMAIN st.slab[p].elems : st.slab[p].elems[y] = t.elems[x]
      BY DEF Alterable
    <2> QED  BY <1>1, <1>4, <2>1, <2>2, PutElements
  <1>6. w \in States /\ w.slab[p] = t /\ SlabElems(w, p) = t.elems
    BY <1>1, <1>2, PutIs
  <1> HIDE DEF w, r
  <1>7. SizesIn(w, p)
    <2>1. SizesOf(m, t)
      BY <1>5 DEF Alterable
    <2>2. SumSizes(w, t.elems) = SumSizes(m, t.elems)
      <3>1. [x \in DOMAIN t.elems |-> ByteSize(w, t.elems[x])]
              = [x \in DOMAIN t.elems |-> ByteSize(m, t.elems[x])]
        BY <1>5
      <3> QED  BY <3>1 DEF SumSizes
    <2> QED  BY <1>5, <1>6, <2>1, <2>2 DEF SizesOf, SizesIn, SizeIs
  <1>8. SlabsIn(st, p) \subseteq SlabsIn(w, p) \cup Y \cup {v}
    <2> SUFFICES ASSUME NEW c \in SlabsIn(st, p) PROVE c \in SlabsIn(w, p) \cup Y \cup {v}
      OBVIOUS
    <2>1. SlabElems(st, p) = st.slab[p].elems
      BY <1>1, <1>2, SlabElemsAre
    <2>2. PICK y \in DOMAIN st.slab[p].elems :
             st.slab[p].elems[y].tag = "slab" /\ st.slab[p].elems[y].id = c
      BY <2>1 DEF SlabsIn
    <2>3. c \in Container /\ IsChild(st.slab[p].elems[y])
      BY <2>2 DEF SlabsIn, IsChild
    <2>4. c \in Y \cup {v} \/ \E x \in DOMAIN t.elems : st.slab[p].elems[y] = t.elems[x]
      BY <2>2, <2>3 DEF Alterable
    <2>5. ASSUME NEW x \in DOMAIN t.elems, st.slab[p].elems[y] = t.elems[x] PROVE c \in SlabsIn(w, p)
      BY <1>6, <2>2, <2>3, <2>5 DEF SlabsIn
    <2> QED  BY <2>4, <2>5
  <1>9. Ready(st, dirty, X, m, v, p, t, Y)
    BY <1>1, <1>4, <1>5, <1>7, <1>8 DEF Ready, w
  <1>10. /\ Sound(r, p, Y) /\ r.handle = st.handle
         /\ Contents(r) = Contents(w)
         /\ \A d \in Container : d \notin {p, v} => r.slab[d] = st.slab[d]
    BY <1>9, PutSound DEF w, r
  <1> QED  BY <1>3, <1>10 DEF Altered, r, w

\* The element e is to be set at a place of p; the one that was there is in Y.
Settable(st, dirty, X, m, v, p, at, e, Y) ==
    /\ dirty \in {None, v} /\ Sound(st, dirty, X) /\ X \subseteq Y
    /\ Prepared(st, m, v) /\ p \in Container /\ st.slab[p] # None /\ v # p
    /\ e \in Element /\ Entry(m, e, v, MaxInlineSize[st.slab[p].kind])
    /\ at \in DOMAIN st.slab[p].elems \/ (st.slab[p].kind = "map" /\ at \in Key)
    /\ at \in DOMAIN st.slab[p].elems /\ IsChild(st.slab[p].elems[at]) =>
          st.slab[p].elems[at].id \in Y \cup {v}
    /\ \A k \in Programs :
          Alters(Contents(st), k, p, With(Contents(st)[p].elems, at, AsValue(e))) => Nest(k)

\* The elements of p with e at a place.
Having(st, p, at, e, elems) ==
    /\ st \in States /\ p \in Container /\ st.slab[p] # None
    /\ DOMAIN elems = DOMAIN st.slab[p].elems \cup {at} /\ elems[at] = e
    /\ \A x \in DOMAIN elems : x # at => elems[x] = st.slab[p].elems[x]

\* What a slab holds with one more or another element.
LEMMA WithIs ==
    ASSUME NEW st, NEW p, NEW at, NEW e, NEW elems, Having(st, p, at, e, elems)
    PROVE  With(Contents(st)[p].elems, at, AsValue(e)) = ValuesOf(elems)
  <1>0. /\ st \in States /\ p \in Container /\ st.slab[p] # None
        /\ DOMAIN elems = DOMAIN st.slab[p].elems \cup {at} /\ elems[at] = e
        /\ \A x \in DOMAIN elems : x # at => elems[x] = st.slab[p].elems[x]
    BY DEF Having
  <1> DEFINE held == Contents(st)[p].elems
  <1>1. /\ DOMAIN held = DOMAIN st.slab[p].elems
        /\ \A x \in DOMAIN st.slab[p].elems : held[x] = AsValue(st.slab[p].elems[x])
    BY <1>0, HeldIs
  <1> HIDE DEF held
  <1>2. With(held, at, AsValue(e)) = [x \in DOMAIN elems |-> IF x = at THEN AsValue(e) ELSE held[x]]
    BY <1>0, <1>1 DEF With
  <1>3. \A x \in DOMAIN elems : (IF x = at THEN AsValue(e) ELSE held[x]) = AsValue(elems[x])
    BY <1>0, <1>1
  <1>4. With(held, at, AsValue(e)) = ValuesOf(elems)
    BY <1>2, <1>3 DEF ValuesOf
  <1> QED  BY <1>4 DEF held

\* ArrayDataSlab.Set of an element.
LEMMA ArraySetIs ==
    ASSUME NEW st, NEW dirty, NEW X, NEW m, NEW v, NEW p, NEW at, NEW e, NEW Y,
           Settable(st, dirty, X, m, v, p, at, e, Y), st.slab[p].kind = "array"
    PROVE  Altered(st, ArraySlabSet(m, p, at, e), v, p,
                   With(Contents(st)[p].elems, at, AsValue(e)), Y)
  <1>0. /\ dirty \in {None, v} /\ Sound(st, dirty, X) /\ X \subseteq Y
        /\ Prepared(st, m, v) /\ p \in Container /\ st.slab[p] # None /\ v # p
        /\ e \in Element /\ Entry(m, e, v, MaxInlineSize[st.slab[p].kind]) /\ at \in DOMAIN st.slab[p].elems
        /\ IsChild(st.slab[p].elems[at]) => st.slab[p].elems[at].id \in Y \cup {v}
        /\ \A k \in Programs :
              Alters(Contents(st), k, p, With(Contents(st)[p].elems, at, AsValue(e))) => Nest(k)
    BY DEF Settable
  <1>1. PICK s \in Slab : s = st.slab[p]
    BY <1>0, StateIs DEF Sound
  <1> DEFINE elems == [s.elems EXCEPT ![at] = e]
             size  == PrefixSize(s) + SumSizes(m, elems)
             t     == Refilled(s, elems, size)
             vals  == With(Contents(st)[p].elems, at, AsValue(e))
  <1>2. st \in States /\ ChildrenExist(Contents(st)) /\ e \in Element
    BY <1>0 DEF Sound, Nest, Entry
  <1>3. m \in States /\ m.slab[p] = s /\ Contents(m) = Contents(st)
    BY <1>0, <1>1, <1>2, PutIs
  <1>4. ArraySlabSet(m, p, at, e) = storeIfNotInlined(PutSlab(m, p, t), p)
    BY <1>3 DEF ArraySlabSet, Refilled
  <1>5. t = [kind |-> s.kind, type |-> s.type, inlined |-> s.inlined, size |-> size,
             elems |-> elems, cached |-> s.cached]
    BY SlabExcept
  <1> HIDE DEF t
  <1>6. s.elems \in Seq(Element) /\ s.kind = "array" /\ s.cached = <<>>
    BY <1>1, SlabIs
  <1>7. /\ elems \in Seq(Element) /\ DOMAIN elems = DOMAIN s.elems /\ elems[at] = e
        /\ \A x \in DOMAIN elems : x # at => elems[x] = s.elems[x]
        /\ Len(elems) \in Nat /\ DOMAIN elems = 1..Len(elems) /\ at \in DOMAIN elems
    BY <1>0, <1>1, <1>2, <1>6
  <1> HIDE DEF elems
  <1>8. \A x \in DOMAIN elems : ByteSize(m, elems[x]) \in Nat
    <2> TAKE x \in DOMAIN elems
    <2>1. CASE x = at
      BY <1>0, <1>2, <1>3, <1>7, <2>1, ByteSizeIs DEF Entry
    <2>2. CASE x # at
      <3>1. SlabElems(m, p) = s.elems
        BY <1>0, <1>3, SlabElemsAre, NoneIsNot
      <3> QED  BY <1>0, <1>2, <1>3, <1>7, <2>2, <3>1, BytesAre
    <2> QED  BY <2>1, <2>2
  <1>9. SumSizes(m, elems) \in Nat
    <2> DEFINE b == [x \in DOMAIN elems |-> ByteSize(m, elems[x])]
    <2>1. b \in [1..Len(elems) -> Nat]
      BY <1>7, <1>8
    <2>2. b \in Seq(Nat)
      <3> HIDE DEF b
      <3> QED  BY <1>7, <2>1
    <2> QED  BY <2>2, SumsDef DEF SumSizes
  <1>10. size \in Nat
    BY <1>9, PrefixIs
  <1>11. t \in Slab
    <2> HIDE DEF size
    <2> QED  BY <1>5, <1>6, <1>7, <1>10, SlabIs, IsSlab
  <1>12. t.kind = s.kind /\ t.type = s.type /\ t.inlined = s.inlined /\ t.elems = elems
         /\ t.size = size /\ PrefixSize(t) = PrefixSize(s)
    BY <1>5 DEF PrefixSize
  <1>13. vals = ValuesOf(t.elems)
    <2>1. DOMAIN elems = DOMAIN st.slab[p].elems \cup {at}
      BY <1>0, <1>1, <1>7
    <2>2. elems[at] = e /\ \A x \in DOMAIN elems : x # at => elems[x] = st.slab[p].elems[x]
      BY <1>1, <1>7
    <2> HIDE DEF vals
    <2>3. With(Contents(st)[p].elems, at, AsValue(e)) = ValuesOf(elems)
      <3>1. Having(st, p, at, e, elems)
        BY <1>0, <1>2, <2>1, <2>2 DEF Having
      <3> QED  BY <3>1, WithIs
    <2> QED  BY <1>12, <2>3 DEF vals
  <1>14. SizesOf(m, t)
    BY <1>6, <1>12 DEF SizesOf
  <1> HIDE DEF vals
  <1>15. Alterable(st, dirty, X, m, v, p, at, e, t, vals, Y)
    <2>1. \A x \in DOMAIN t.elems :
             \/ x = at /\ t.elems[x] = e
             \/ \E y \in DOMAIN st.slab[p].elems : st.slab[p].elems[y] = t.elems[x]
      BY <1>1, <1>7, <1>12
    <2>2. \A y \in DOMAIN st.slab[p].elems :
             \/ ~ IsChild(st.slab[p].elems[y]) \/ st.slab[p].elems[y].id \in Y \cup {v}
             \/ \E x \in DOMAIN t.elems : st.slab[p].elems[y] = t.elems[x]
      BY <1>0, <1>1, <1>7, <1>12
    <2>3. /\ t.kind = st.slab[p].kind /\ t.type = st.slab[p].type /\ t.inlined = st.slab[p].inlined
          /\ at \in DOMAIN t.elems /\ t.elems[at] = e
      BY <1>1, <1>7, <1>12
    <2>4. \A k \in Programs : Alters(Contents(st), k, p, vals) => Nest(k)
      BY <1>0 DEF vals
    <2> QED  BY <1>0, <1>11, <1>13, <1>14, <2>1, <2>2, <2>3, <2>4 DEF Alterable
  <1> QED  BY <1>4, <1>15, AlterPut DEF vals

\* MapDataSlab.Set of an element.
LEMMA MapSetIs ==
    ASSUME NEW st, NEW dirty, NEW X, NEW m, NEW v, NEW p, NEW at, NEW e, NEW Y,
           Settable(st, dirty, X, m, v, p, at, e, Y), st.slab[p].kind = "map"
    PROVE  Altered(st, MapSlabSet(m, p, at, e), v, p,
                   With(Contents(st)[p].elems, at, AsValue(e)), Y)
  <1>0. /\ dirty \in {None, v} /\ Sound(st, dirty, X) /\ X \subseteq Y
        /\ Prepared(st, m, v) /\ p \in Container /\ st.slab[p] # None /\ v # p
        /\ e \in Element /\ Entry(m, e, v, MaxInlineSize[st.slab[p].kind])
        /\ at \in DOMAIN st.slab[p].elems \/ at \in Key
        /\ at \in DOMAIN st.slab[p].elems /\ IsChild(st.slab[p].elems[at]) =>
              st.slab[p].elems[at].id \in Y \cup {v}
        /\ \A k \in Programs :
              Alters(Contents(st), k, p, With(Contents(st)[p].elems, at, AsValue(e))) => Nest(k)
    BY DEF Settable
  <1>1. PICK s \in Slab : s = st.slab[p]
    BY <1>0, StateIs DEF Sound
  <1> DEFINE elems  == With(s.elems, at, e)
             cached == With(s.cached, at, ElementOverhead + ByteSize(m, e))
             size   == IF at \in DOMAIN s.elems THEN PrefixSize(s) + SumCached(cached)
                                                ELSE s.size + cached[at]
             t      == Recached(s, elems, cached, size)
             vals   == With(Contents(st)[p].elems, at, AsValue(e))
  <1>2. st \in States /\ ChildrenExist(Contents(st)) /\ e \in Element
    BY <1>0 DEF Sound, Nest, Entry
  <1>3. m \in States /\ m.slab[p] = s /\ Contents(m) = Contents(st)
    BY <1>0, <1>1, <1>2, PutIs
  <1>4. MapSlabSet(m, p, at, e) = storeIfNotInlined(PutSlab(m, p, t), p)
    BY <1>3 DEF MapSlabSet, Recached
  <1>5. t = [kind |-> s.kind, type |-> s.type, inlined |-> s.inlined, size |-> size,
             elems |-> elems, cached |-> cached]
    BY SlabExcept
  <1> HIDE DEF t
  <1>6. /\ s.kind = "map" /\ DOMAIN s.elems \in SUBSET Key /\ s.elems \in [DOMAIN s.elems -> Element]
        /\ DOMAIN s.cached \in SUBSET Key /\ s.cached \in [DOMAIN s.cached -> Nat]
        /\ s.size \in Nat /\ at \in Key
    BY <1>0, <1>1, SlabIs
  <1>7. /\ DOMAIN s.cached = DOMAIN s.elems
        /\ s.size = PrefixSize(s) + SumCached(s.cached)
        /\ \A x \in DOMAIN s.elems : ~ (s.elems[x].tag = "slab" /\ s.elems[x].id = dirty) =>
              s.cached[x] = ElementOverhead + ByteSize(st, s.elems[x])
    BY <1>0, <1>1, <1>6 DEF Sound, SizesFit, SizeIs
  <1>8. ElementOverhead + ByteSize(m, e) \in Nat
    BY <1>0, <1>2, <1>3, ByteSizeIs, SizesAre DEF Entry
  <1> DEFINE keys == DOMAIN s.elems \cup {at}
  <1>9. /\ keys \in SUBSET Key /\ at \in keys
        /\ elems \in [keys -> Element] /\ DOMAIN elems = keys /\ elems[at] = e
        /\ \A x \in DOMAIN elems : x # at => elems[x] = s.elems[x] /\ x \in DOMAIN s.elems
    BY <1>2, <1>6 DEF With
  <1>10. /\ cached \in [keys -> Nat] /\ DOMAIN cached = keys
         /\ cached[at] = ElementOverhead + ByteSize(m, e) /\ cached[at] \in Nat
         /\ \A x \in keys : x # at => cached[x] = s.cached[x]
    BY <1>6, <1>7, <1>8 DEF With
  <1> HIDE DEF elems, cached, keys
  <1>11. SumCached(cached) \in Nat
    BY <1>9, <1>10, CachedIs
  <1>12. size = PrefixSize(s) + SumCached(cached)
    <2>1. CASE at \in DOMAIN s.elems
      BY <2>1
    <2>2. CASE at \notin DOMAIN s.elems
      <3>1. s.cached \in [keys \ {at} -> Nat]
        BY <1>6, <1>7, <2>2 DEF keys
      <3>2. SumCached(cached) = SumCached(s.cached) + cached[at]
        <4>1. PICK less : less = s.cached
          OBVIOUS
        <4>2. less \in [keys \ {at} -> Nat] /\ \A x \in keys \ {at} : less[x] = cached[x]
          BY <1>10, <3>1, <4>1
        <4>3. SumCached(cached) = SumCached(less) + cached[at]
          BY <1>9, <1>10, <4>2, CachedOfMore
        <4> QED  BY <4>1, <4>3
      <3>3. SumCached(s.cached) \in Nat /\ PrefixSize(s) \in Nat
        BY <1>6, CachedIs, PrefixIs
      <3> QED  BY <1>7, <1>10, <2>2, <3>2, <3>3
    <2> QED  BY <2>1, <2>2
  <1>13. size \in Nat
    BY <1>11, <1>12, PrefixIs
  <1> HIDE DEF size
  <1>14. t \in Slab
    BY <1>5, <1>6, <1>9, <1>10, <1>13, SlabIs, IsSlab
  <1>15. /\ t.kind = s.kind /\ t.type = s.type /\ t.inlined = s.inlined /\ t.elems = elems
         /\ t.cached = cached /\ t.size = size /\ PrefixSize(t) = PrefixSize(s)
    BY <1>5 DEF PrefixSize
  <1>16. vals = ValuesOf(t.elems)
    <2>1. Having(st, p, at, e, elems)
      BY <1>0, <1>1, <1>2, <1>9 DEF Having, keys
    <2> QED  BY <1>15, <2>1, WithIs
  <1>17. ASSUME \A x \in DOMAIN t.elems : x # at => /\ ByteSize(m, t.elems[x]) = ByteSize(st, t.elems[x])
                                                    /\ IsChild(t.elems[x]) => t.elems[x].id # v
         PROVE  SizesOf(m, t)
    <2>0. \A x \in DOMAIN elems : x # at => /\ ByteSize(m, elems[x]) = ByteSize(st, elems[x])
                                            /\ IsChild(elems[x]) => elems[x].id # v
      BY <1>15, <1>17
    <2>1. ASSUME NEW x \in DOMAIN elems PROVE cached[x] = ElementOverhead + ByteSize(m, elems[x])
      <3>1. CASE x = at
        BY <1>9, <1>10, <3>1
      <3>2. CASE x # at
        <4>1. elems[x] = s.elems[x] /\ x \in DOMAIN s.elems /\ cached[x] = s.cached[x] /\ elems[x] \in Element
          BY <1>9, <1>10, <3>2
        <4>0. /\ ByteSize(m, elems[x]) = ByteSize(st, elems[x])
              /\ IsChild(elems[x]) => elems[x].id # v
          BY <2>0, <3>2
        <4>2. ~ (s.elems[x].tag = "slab" /\ s.elems[x].id = dirty)
          <5> SUFFICES ASSUME elems[x].tag = "slab", elems[x].id = dirty PROVE FALSE
            BY <4>1
          <5>1. IsChild(elems[x])
            BY DEF IsChild
          <5>2. elems[x].id \in Container /\ elems[x].id # v
            BY <4>0, <4>1, <5>1, ElementIs
          <5> QED  BY <1>0, <5>2, NoneIsNot
        <4> QED  BY <1>7, <4>0, <4>1, <4>2
      <3> QED  BY <3>1, <3>2
    <2> QED  BY <1>6, <1>9, <1>10, <1>12, <1>15, <2>1 DEF SizesOf
  <1> HIDE DEF vals
  <1>18. Alterable(st, dirty, X, m, v, p, at, e, t, vals, Y)
    <2>1. \A x \in DOMAIN t.elems :
             \/ x = at /\ t.elems[x] = e
             \/ \E y \in DOMAIN st.slab[p].elems : st.slab[p].elems[y] = t.elems[x]
      BY <1>1, <1>9, <1>15
    <2>2. \A y \in DOMAIN st.slab[p].elems :
             \/ ~ IsChild(st.slab[p].elems[y]) \/ st.slab[p].elems[y].id \in Y \cup {v}
             \/ \E x \in DOMAIN t.elems : st.slab[p].elems[y] = t.elems[x]
      BY <1>0, <1>1, <1>9, <1>15 DEF keys
    <2>3. /\ t.kind = st.slab[p].kind /\ t.type = st.slab[p].type /\ t.inlined = st.slab[p].inlined
          /\ at \in DOMAIN t.elems /\ t.elems[at] = e
      BY <1>1, <1>9, <1>15
    <2>4. \A k \in Programs : Alters(Contents(st), k, p, vals) => Nest(k)
      BY <1>0 DEF vals
    <2> QED  BY <1>0, <1>14, <1>16, <1>17, <2>1, <2>2, <2>3, <2>4 DEF Alterable
  <1> QED  BY <1>4, <1>18, AlterPut DEF vals

\* The value is to be set at a place of p; what was there is in Y.
SetReady(st, dirty, X, p, at, value, Y) ==
    /\ dirty \in {None, IdOf(value)} /\ Sound(st, dirty, X) /\ X \subseteq Y
    /\ p \in Container /\ st.slab[p] # None
    /\ value \in Value /\ IdOf(value) # p
    /\ value.tag = "value" => st.slab[value.id] # None
    /\ at \in DOMAIN st.slab[p].elems \/ (st.slab[p].kind = "map" /\ at \in Key)
    /\ at \in DOMAIN st.slab[p].elems /\ IsChild(st.slab[p].elems[at]) =>
          st.slab[p].elems[at].id \in Y \cup {IdOf(value)}
    /\ \A k \in Programs :
          Alters(Contents(st), k, p, With(Contents(st)[p].elems, at, value)) => Nest(k)

\* Set of a slab.
LEMMA SlabSetIs ==
    ASSUME NEW st, NEW dirty, NEW X, NEW p, NEW at, NEW value, NEW Y,
           SetReady(st, dirty, X, p, at, value, Y)
    PROVE  Altered(st, SlabSet(st, p, at, value), IdOf(value), p,
                   With(Contents(st)[p].elems, at, value), Y)
  <1>0. /\ dirty \in {None, IdOf(value)} /\ Sound(st, dirty, X) /\ X \subseteq Y
        /\ p \in Container /\ st.slab[p] # None
        /\ value \in Value /\ IdOf(value) # p
        /\ value.tag = "value" => st.slab[value.id] # None
    BY DEF SetReady
  <1> DEFINE max == MaxInlineSize[st.slab[p].kind]
             r   == Storable(st, value, max)
             m   == r.st
             e   == r.storable
  <1>1. /\ Prepared(st, m, IdOf(value)) /\ e \in Element
        /\ Entry(m, e, IdOf(value), max) /\ AsValue(e) = value
    BY <1>0, EntryOf
  <1>2. st.slab[p].kind \in Kind
    BY <1>0, HeldIs DEF Sound
  <1> HIDE DEF m, e
  <1>3. Settable(st, dirty, X, m, IdOf(value), p, at, e, Y)
    BY <1>0, <1>1 DEF Settable, SetReady
  <1>4. CASE st.slab[p].kind = "array"
    <2>1. SlabSet(st, p, at, value) = ArraySlabSet(m, p, at, e)
      BY <1>4 DEF SlabSet, m, e
    <2> QED  BY <1>1, <1>3, <1>4, <2>1, ArraySetIs
  <1>5. CASE st.slab[p].kind = "map"
    <2>1. SlabSet(st, p, at, value) = MapSlabSet(m, p, at, e)
      BY <1>5 DEF SlabSet, m, e
    <2> QED  BY <1>1, <1>3, <1>5, <2>1, MapSetIs
  <1> QED  BY <1>2, <1>4, <1>5 DEF Kind

\* A sequence is cut in two after n elements.
IsCut(l, r, s, n) ==
    /\ Len(l) = n /\ Len(r) = Len(s) - n
    /\ \A i \in 1..Len(l) : l[i] = s[i]
    /\ \A i \in 1..Len(r) : r[i] = s[n + i]

\* SubSeq does that.
LEMMA Cut ==
    ASSUME NEW T, NEW s \in Seq(T), NEW n \in 0..Len(s)
    PROVE  /\ SubSeq(s, 1, n) \in Seq(T)
           /\ SubSeq(s, n + 1, Len(s)) \in Seq(T)
           /\ IsCut(SubSeq(s, 1, n), SubSeq(s, n + 1, Len(s)), s, n)
  <1> DEFINE l == SubSeq(s, 1, n)
             r == SubSeq(s, n + 1, Len(s))
  <1>1. Len(s) \in Nat /\ n \in Nat /\ n <= Len(s)
    OBVIOUS
  <1>2. /\ l \in Seq(T) /\ Len(l) = n
        /\ \A i \in 1..Len(l) : l[i] = s[i]
    BY <1>1
  <1>3. /\ r \in Seq(T) /\ Len(r) = Len(s) - n
        /\ \A i \in 1..Len(r) : r[i] = s[n + i]
    BY <1>1
  <1> HIDE DEF l, r
  <1> QED  BY <1>2, <1>3 DEF IsCut, l, r

\* u is s with e inserted, or without an element.
Inserted(u, s, k, e) ==
    /\ Len(u) = Len(s) + 1
    /\ \A i \in 1..(Len(s) + 1) :
          u[i] = IF i < k THEN s[i] ELSE IF i = k THEN e ELSE s[i-1]

Removed(u, s, k) ==
    /\ Len(u) = Len(s) - 1
    /\ \A i \in 1..(Len(s) - 1) : u[i] = IF i < k THEN s[i] ELSE s[i+1]

\* Every element of a sequence after an insertion.
LEMMA InsertedAt ==
    ASSUME NEW T, NEW s \in Seq(T), NEW k \in 1..(Len(s) + 1), NEW e \in T
    PROVE  InsertAt(s, k, e) \in Seq(T) /\ Inserted(InsertAt(s, k, e), s, k, e)
  <1> DEFINE l == SubSeq(s, 1, k - 1)
             m == l \o <<e>>
             r == SubSeq(s, k, Len(s))
             u == m \o r
  <1>1. Len(s) \in Nat /\ k \in Nat /\ k - 1 \in 0..Len(s) /\ (k - 1) + 1 = k
    OBVIOUS
  <1>2. l \in Seq(T) /\ r \in Seq(T) /\ IsCut(l, r, s, k - 1)
    <2> DEFINE j == k - 1
    <2>1. j \in 0..Len(s) /\ j + 1 = k
      BY <1>1
    <2> HIDE DEF j
    <2>2. /\ SubSeq(s, 1, j) \in Seq(T) /\ SubSeq(s, j + 1, Len(s)) \in Seq(T)
          /\ IsCut(SubSeq(s, 1, j), SubSeq(s, j + 1, Len(s)), s, j)
      BY <2>1, Cut
    <2> QED  BY <2>1, <2>2 DEF j
  <1>3. InsertAt(s, k, e) = u
    BY DEF InsertAt
  <1>4. <<e>> \in Seq(T) /\ Len(<<e>>) = 1 /\ <<e>>[1] = e
    OBVIOUS
  <1> DEFINE o == <<e>>
  <1>5. o \in Seq(T) /\ Len(o) = 1 /\ o[1] = e
    BY <1>4
  <1> HIDE DEF l, r, o
  <1>6. /\ m \in Seq(T) /\ Len(m) = Len(l) + 1
        /\ \A i \in 1..(Len(l) + 1) : m[i] = IF i <= Len(l) THEN l[i] ELSE o[i - Len(l)]
    <2>1. m = l \o o
      BY DEF o
    <2> QED  BY <1>2, <1>5, <2>1, ConcatProperties
  <1> HIDE DEF m
  <1>7. /\ u \in Seq(T) /\ Len(u) = Len(m) + Len(r)
        /\ \A i \in 1..(Len(m) + Len(r)) : u[i] = IF i <= Len(m) THEN m[i] ELSE r[i - Len(m)]
    <2>1. m \in Seq(T) /\ r \in Seq(T)
      BY <1>2, <1>6
    <2> QED  BY <2>1, ConcatProperties
  <1> HIDE DEF u
  <1>8. Len(l) = k - 1 /\ Len(m) = k /\ Len(r) = Len(s) - (k - 1)
    BY <1>1, <1>2, <1>6 DEF IsCut
  <1>9. Len(u) = Len(s) + 1 /\ Len(m) + Len(r) = Len(s) + 1
    BY <1>1, <1>7, <1>8
  <1>10. ASSUME NEW i \in 1..(Len(s) + 1)
         PROVE  u[i] = IF i < k THEN s[i] ELSE IF i = k THEN e ELSE s[i-1]
    <2>1. CASE i < k
      <3>1. i \in 1..(Len(m) + Len(r)) /\ i <= Len(m) /\ i \in 1..(Len(l) + 1) /\ i <= Len(l)
            /\ i \in 1..Len(l)
        BY <1>1, <1>8, <1>9, <2>1
      <3>2. u[i] = l[i]
        BY <1>6, <1>7, <3>1
      <3> QED  BY <1>2, <2>1, <3>1, <3>2 DEF IsCut
    <2>2. CASE i = k
      <3>1. i \in 1..(Len(m) + Len(r)) /\ i <= Len(m) /\ i \in 1..(Len(l) + 1) /\ ~ (i <= Len(l))
            /\ i - Len(l) = 1 /\ ~ (i < k)
        BY <1>1, <1>8, <1>9, <2>2
      <3>2. u[i] = e
        BY <1>5, <1>6, <1>7, <3>1
      <3> QED  BY <2>2, <3>1, <3>2
    <2>3. CASE i > k
      <3>1. i \in 1..(Len(m) + Len(r)) /\ ~ (i <= Len(m)) /\ i - Len(m) \in 1..Len(r)
            /\ (k - 1) + (i - Len(m)) = i - 1 /\ ~ (i < k) /\ i # k
        BY <1>1, <1>8, <1>9, <2>3
      <3>2. u[i] = r[i - Len(m)]
        BY <1>7, <3>1
      <3>3. r[i - Len(m)] = s[i - 1]
        BY <1>2, <3>1 DEF IsCut
      <3> QED  BY <3>1, <3>2, <3>3
    <2> QED  BY <1>1, <2>1, <2>2, <2>3
  <1> QED  BY <1>3, <1>7, <1>9, <1>10 DEF Inserted

\* Every element of a sequence after a removal.
LEMMA RemovedAt ==
    ASSUME NEW T, NEW s \in Seq(T), NEW k \in 1..Len(s)
    PROVE  RemoveAt(s, k) \in Seq(T) /\ Removed(RemoveAt(s, k), s, k)
  <1> DEFINE l == SubSeq(s, 1, k - 1)
             r == SubSeq(s, k + 1, Len(s))
             u == l \o r
  <1>1. Len(s) \in Nat /\ k \in Nat /\ k \in 0..Len(s) /\ k - 1 \in 0..Len(s)
    OBVIOUS
  <1>2. r \in Seq(T) /\ Len(r) = Len(s) - k /\ \A i \in 1..Len(r) : r[i] = s[k + i]
    <2>1. r \in Seq(T) /\ IsCut(SubSeq(s, 1, k), r, s, k)
      BY <1>1, Cut
    <2> QED  BY <2>1 DEF IsCut
  <1>3. l \in Seq(T) /\ Len(l) = k - 1 /\ \A i \in 1..Len(l) : l[i] = s[i]
    <2> DEFINE j == k - 1
    <2>1. j \in 0..Len(s)
      BY <1>1
    <2> HIDE DEF j
    <2>2. SubSeq(s, 1, j) \in Seq(T) /\ IsCut(SubSeq(s, 1, j), SubSeq(s, j + 1, Len(s)), s, j)
      BY <2>1, Cut
    <2> QED  BY <2>2 DEF j, IsCut
  <1>4. RemoveAt(s, k) = u
    BY DEF RemoveAt
  <1> HIDE DEF l, r
  <1>5. /\ u \in Seq(T) /\ Len(u) = Len(l) + Len(r)
        /\ \A i \in 1..(Len(l) + Len(r)) : u[i] = IF i <= Len(l) THEN l[i] ELSE r[i - Len(l)]
    BY <1>2, <1>3, ConcatProperties
  <1> HIDE DEF u
  <1>6. Len(l) + Len(r) = Len(s) - 1
    BY <1>1, <1>2, <1>3
  <1>7. ASSUME NEW i \in 1..(Len(s) - 1)
        PROVE  u[i] = IF i < k THEN s[i] ELSE s[i+1]
    <2>1. CASE i < k
      <3>1. i \in 1..(Len(l) + Len(r)) /\ i <= Len(l) /\ i \in 1..Len(l)
        BY <1>1, <1>3, <1>6, <2>1
      <3> QED  BY <1>3, <1>5, <2>1, <3>1
    <2>2. CASE ~ (i < k)
      <3>1. i \in 1..(Len(l) + Len(r)) /\ ~ (i <= Len(l)) /\ i - Len(l) \in 1..Len(r)
            /\ k + (i - Len(l)) = i + 1
        BY <1>1, <1>2, <1>3, <1>6, <2>2
      <3> QED  BY <1>2, <1>5, <2>2, <3>1
    <2> QED  BY <2>1, <2>2
  <1> QED  BY <1>4, <1>5, <1>6, <1>7 DEF Removed

\* The elements of an array as the program sees them.
LEMMA ValuesAre ==
    ASSUME NEW st \in States, NEW p \in Container, st.slab[p] # None, st.slab[p].kind = "array"
    PROVE  /\ st.slab[p].elems \in Seq(Element) /\ Contents(st)[p].elems \in Seq(Value)
           /\ Contents(st)[p].elems = ValuesOf(st.slab[p].elems)
           /\ Len(Contents(st)[p].elems) = Len(st.slab[p].elems)
           /\ \A i \in 1..Len(st.slab[p].elems) :
                 Contents(st)[p].elems[i] = AsValue(st.slab[p].elems[i])
  <1>1. PICK s \in Slab : s = st.slab[p]
    BY HeldIs
  <1>2. s.elems \in Seq(Element) /\ DOMAIN s.elems = 1..Len(s.elems) /\ Len(s.elems) \in Nat
    BY <1>1, SlabIs
  <1>3. \A i \in 1..Len(s.elems) : s.elems[i] \in Element
    BY <1>2
  <1>4. Contents(st)[p] \in Content /\ Contents(st)[p].kind = "array"
    BY HeldIs, ContentsAre, ElemsAre
  <1>5. Contents(st)[p].elems \in Seq(Value)
    BY <1>4, ContentIs DEF Content
  <1>6. Contents(st)[p].elems = ValuesOf(s.elems)
    <2>1. Contents(st)[p] = [kind |-> st.slab[p].kind, type |-> st.slab[p].type,
                             elems |-> [x \in DOMAIN st.slab[p].elems |-> AsValue(st.slab[p].elems[x])]]
      BY ContentsAre
    <2>2. Contents(st)[p].elems = [x \in DOMAIN st.slab[p].elems |-> AsValue(st.slab[p].elems[x])]
      BY <2>1
    <2> QED  BY <1>1, <2>2 DEF ValuesOf
  <1>7. DOMAIN Contents(st)[p].elems = 1..Len(s.elems)
    BY <1>1, <1>2, HeldIs
  <1>8. Len(Contents(st)[p].elems) = Len(s.elems)
    BY <1>2, <1>5, <1>7
  <1> QED  BY <1>1, <1>2, <1>5, <1>6, <1>8, HeldIs

\* Elements of an array make values.
LEMMA ValuesOfSeq ==
    ASSUME NEW elems \in Seq(Element)
    PROVE  /\ ValuesOf(elems) \in Seq(Value) /\ Len(ValuesOf(elems)) = Len(elems)
           /\ \A i \in 1..Len(elems) : ValuesOf(elems)[i] = AsValue(elems[i])
  <1>1. Len(elems) \in Nat /\ DOMAIN elems = 1..Len(elems)
    OBVIOUS
  <1>2. \A i \in 1..Len(elems) : elems[i] \in Element
    OBVIOUS
  <1>3. \A i \in 1..Len(elems) : AsValue(elems[i]) \in Value
    BY <1>2, AsValueIs
  <1>4. ValuesOf(elems) \in [1..Len(elems) -> Value]
    BY <1>1, <1>3 DEF ValuesOf
  <1>5. ValuesOf(elems) \in Seq(Value) /\ Len(ValuesOf(elems)) = Len(elems)
    BY <1>1, <1>4
  <1> QED  BY <1>1, <1>5 DEF ValuesOf

\* The value is to be inserted in p.
InsertReady(st, X, p, at, value) ==
    /\ Sound(st, None, X)
    /\ p \in Container /\ st.slab[p] # None /\ st.slab[p].kind = "array"
    /\ value \in Value /\ IdOf(value) # p
    /\ value.tag = "value" => st.slab[value.id] # None
    /\ at \in 1..Len(st.slab[p].elems) + 1
    /\ \A k \in Programs :
          Alters(Contents(st), k, p, InsertAt(Contents(st)[p].elems, at, value)) => Nest(k)

\* ArrayDataSlab.Insert.
LEMMA SlabInsertIs ==
    ASSUME NEW st, NEW X, NEW p, NEW at, NEW value, InsertReady(st, X, p, at, value)
    PROVE  Altered(st, SlabInsert(st, p, at, value), IdOf(value), p,
                   InsertAt(Contents(st)[p].elems, at, value), X)
  <1>0. /\ Sound(st, None, X)
        /\ p \in Container /\ st.slab[p] # None /\ st.slab[p].kind = "array"
        /\ value \in Value /\ IdOf(value) # p
        /\ value.tag = "value" => st.slab[value.id] # None
        /\ at \in 1..Len(st.slab[p].elems) + 1
        /\ \A k \in Programs :
              Alters(Contents(st), k, p, InsertAt(Contents(st)[p].elems, at, value)) => Nest(k)
    BY DEF InsertReady
  <1> DEFINE max  == MaxInlineSize["array"]
             r    == Storable(st, value, max)
             m    == r.st
             e    == r.storable
             v    == IdOf(value)
  <1>1. /\ Prepared(st, m, v) /\ e \in Element
        /\ Entry(m, e, v, max) /\ AsValue(e) = value
    BY <1>0, EntryOf
  <1>2. st \in States /\ ChildrenExist(Contents(st))
    BY <1>0 DEF Sound, Nest
  <1>3. PICK s \in Slab : s = st.slab[p]
    BY <1>0, <1>2, HeldIs
  <1> DEFINE elems == InsertAt(s.elems, at, e)
             size  == s.size + ByteSize(m, e)
             t     == Refilled(s, elems, size)
             held  == Contents(st)[p].elems
             vals  == InsertAt(held, at, value)
  <1>4. SlabInsert(st, p, at, value) = ArraySlabInsert(m, p, at, e)
    BY DEF SlabInsert
  <1> HIDE DEF m, e
  <1>5. m \in States /\ m.slab[p] = s
    BY <1>0, <1>1, <1>2, <1>3, PutIs
  <1>6. ArraySlabInsert(m, p, at, e) = storeIfNotInlined(PutSlab(m, p, t), p)
    BY <1>5 DEF ArraySlabInsert, Refilled
  <1>7. t = [kind |-> s.kind, type |-> s.type, inlined |-> s.inlined, size |-> size,
             elems |-> elems, cached |-> s.cached]
    BY SlabExcept
  <1> HIDE DEF t
  <1>8. /\ s.elems \in Seq(Element) /\ s.kind = "array" /\ s.cached = <<>> /\ s.size \in Nat
        /\ held \in Seq(Value) /\ Len(held) = Len(s.elems)
        /\ \A i \in 1..Len(s.elems) : held[i] = AsValue(s.elems[i])
        /\ at \in 1..Len(s.elems) + 1 /\ Len(s.elems) \in Nat /\ DOMAIN s.elems = 1..Len(s.elems)
    BY <1>0, <1>2, <1>3, SlabIs, ValuesAre
  <1>9. /\ elems \in Seq(Element) /\ Inserted(elems, s.elems, at, e)
        /\ vals \in Seq(Value) /\ Inserted(vals, held, at, value)
    <2> HIDE DEF held
    <2> QED  BY <1>0, <1>1, <1>8, InsertedAt
  <1> HIDE DEF elems, vals, held
  <1>10. Len(elems) = Len(s.elems) + 1 /\ DOMAIN elems = 1..Len(elems) /\ at \in DOMAIN elems
         /\ elems[at] = e
    BY <1>8, <1>9 DEF Inserted
  <1>11. vals = ValuesOf(elems)
    <2>1. /\ ValuesOf(elems) \in Seq(Value) /\ Len(ValuesOf(elems)) = Len(elems)
          /\ \A i \in 1..Len(elems) : ValuesOf(elems)[i] = AsValue(elems[i])
      BY <1>9, ValuesOfSeq
    <2>2. Len(vals) = Len(elems)
      BY <1>8, <1>9, <1>10 DEF Inserted
    <2>3. \A i \in 1..Len(elems) : vals[i] = AsValue(elems[i])
      <3> TAKE i \in 1..Len(elems)
      <3>1. i < at => i \in 1..Len(s.elems)
        BY <1>8, <1>10
      <3>2. i > at => i - 1 \in 1..Len(s.elems)
        BY <1>8, <1>10
      <3> QED  BY <1>1, <1>8, <1>9, <1>10, <3>1, <3>2 DEF Inserted
    <2> DEFINE u == ValuesOf(elems)
    <2> HIDE DEF u
    <2>4. u \in Seq(Value) /\ Len(u) = Len(elems) /\ \A i \in 1..Len(elems) : u[i] = vals[i]
      BY <2>1, <2>3 DEF u
    <2>5. u = vals
      BY <1>9, <2>2, <2>4
    <2> QED  BY <2>5 DEF u
  <1>12. /\ ByteSize(m, e) \in Nat
         /\ \A x \in DOMAIN s.elems : ByteSize(st, s.elems[x]) \in Nat
         /\ SlabElems(st, p) = s.elems
    <2>1. SlabElems(st, p) = s.elems
      BY <1>0, <1>2, <1>3, SlabElemsAre
    <2>2. \A x \in DOMAIN s.elems : ByteSize(st, s.elems[x]) \in Nat
      BY <1>0, <1>2, <2>1, BytesAre
    <2>3. ByteSize(m, e) \in Nat
      BY <1>1, <1>5, ByteSizeIs DEF Entry
    <2> QED  BY <2>1, <2>2, <2>3
  <1>13. size \in Nat
    BY <1>8, <1>12
  <1>14. t \in Slab
    <2> HIDE DEF size
    <2> QED  BY <1>7, <1>8, <1>9, <1>13, SlabIs, IsSlab
  <1>15. t.kind = s.kind /\ t.type = s.type /\ t.inlined = s.inlined /\ t.elems = elems
         /\ t.size = size /\ PrefixSize(t) = PrefixSize(s)
    BY <1>7 DEF PrefixSize
  <1>16. s.size = PrefixSize(s) + SumSizes(st, s.elems)
    <2>1. None \notin SlabsIn(st, p)
      BY NoneIsNot DEF SlabsIn
    <2> QED  BY <1>0, <1>3, <1>8, <2>1 DEF Sound, SizesFit, SizeIs
  <1>17. ASSUME \A x \in DOMAIN t.elems : x # at =>
                   /\ ByteSize(m, t.elems[x]) = ByteSize(st, t.elems[x])
                   /\ IsChild(t.elems[x]) => t.elems[x].id # v
         PROVE  SizesOf(m, t)
    <2> DEFINE a == [x \in DOMAIN s.elems |-> ByteSize(st, s.elems[x])]
               b == [x \in DOMAIN elems |-> ByteSize(m, elems[x])]
    <2>1. \A x \in DOMAIN elems : x # at => ByteSize(m, elems[x]) = ByteSize(st, elems[x])
      BY <1>15, <1>17
    <2>2. a \in [1..Len(s.elems) -> Nat]
      BY <1>8, <1>12
    <2>3. a \in Seq(Nat) /\ Len(a) = Len(s.elems)
      <3> HIDE DEF a
      <3> QED  BY <1>8, <2>2
    <2>4. /\ \A j \in 1..Len(elems) : j < at => j \in DOMAIN s.elems /\ elems[j] = s.elems[j]
          /\ \A j \in 1..Len(elems) : j > at => j - 1 \in DOMAIN s.elems /\ elems[j] = s.elems[j-1]
      BY <1>8, <1>9, <1>10 DEF Inserted
    <2>5. /\ \A j \in 1..Len(elems) : j < at => j \in DOMAIN s.elems /\ b[j] = a[j]
          /\ \A j \in 1..Len(elems) : j > at => j - 1 \in DOMAIN s.elems /\ b[j] = a[j-1]
          /\ b[at] = ByteSize(m, e)
      <3>1. /\ \A x \in 1..Len(elems) : b[x] = ByteSize(m, elems[x])
            /\ \A x \in DOMAIN s.elems : a[x] = ByteSize(st, s.elems[x])
        BY <1>10
      <3> HIDE DEF a, b
      <3>2. \A j \in 1..Len(elems) : j < at => j \in DOMAIN s.elems /\ b[j] = a[j]
        BY <1>8, <1>10, <2>1, <2>4, <3>1
      <3>3. ASSUME NEW j \in 1..Len(elems), j > at PROVE j - 1 \in DOMAIN s.elems /\ b[j] = a[j-1]
        <4>1. j # at /\ j \in DOMAIN elems /\ j - 1 \in DOMAIN s.elems /\ elems[j] = s.elems[j-1]
          BY <1>8, <1>10, <2>4, <3>3
        <4>2. a[j-1] = ByteSize(st, s.elems[j-1])
          BY <3>1, <4>1
        <4> QED  BY <2>1, <3>1, <4>1, <4>2
      <3> QED  BY <1>10, <3>1, <3>2, <3>3
    <2>6. b \in [1..Len(elems) -> Nat]
      <3>1. \A j \in 1..Len(elems) : b[j] \in Nat
        <4> TAKE j \in 1..Len(elems)
        <4>1. j < at \/ j = at \/ j > at
          BY <1>8
        <4> HIDE DEF a, b
        <4> QED  BY <1>8, <1>12, <2>2, <2>5, <4>1
      <3> QED  BY <1>10, <3>1
    <2> HIDE DEF a, b
    <2>7. b \in Seq(Nat) /\ Len(b) = Len(a) + 1
      <3>1. Len(elems) \in Nat
        BY <1>8, <1>10
      <3>2. b \in Seq(Nat) /\ Len(b) = Len(elems)
        BY <2>6, <3>1
      <3> QED  BY <1>10, <2>3, <3>2
    <2>8. Total(b) = Total(a) + b[at]
      <3>1. Len(b) = Len(elems) /\ at \in 1..Len(b)
        BY <1>10, <2>3, <2>7
      <3> QED  BY <2>3, <2>5, <2>7, <3>1, TotalOfMore
    <2>9. Total(a) \in Nat
      BY <2>3, SumsDef
    <2>10. SumSizes(m, elems) = SumSizes(st, s.elems) + ByteSize(m, e)
      BY <2>5, <2>8 DEF SumSizes, a, b
    <2>11. t.size = PrefixSize(t) + SumSizes(m, t.elems)
      <3>1. SumSizes(st, s.elems) \in Nat
        BY <2>9 DEF SumSizes, a
      <3>2. PrefixSize(s) \in Nat
        BY PrefixIs
      <3> QED  BY <1>12, <1>15, <1>16, <2>10, <3>1, <3>2
    <2> QED  BY <1>8, <1>15, <2>11 DEF SizesOf
  <1>18. Alterable(st, None, X, m, v, p, at, e, t, vals, X)
    <2>1. \A x \in DOMAIN t.elems :
             \/ x = at /\ t.elems[x] = e
             \/ \E y \in DOMAIN st.slab[p].elems : st.slab[p].elems[y] = t.elems[x]
      <3> SUFFICES ASSUME NEW x \in 1..Len(elems), x # at
                   PROVE  \E y \in DOMAIN s.elems : s.elems[y] = elems[x]
        BY <1>3, <1>10, <1>15
      <3>1. CASE x < at
        <4>1. x \in DOMAIN s.elems
          BY <1>8, <1>9, <1>10, <3>1 DEF Inserted
        <4>2. s.elems[x] = elems[x]
          BY <1>8, <1>9, <1>10, <3>1 DEF Inserted
        <4> QED  BY <4>1, <4>2
      <3>2. CASE x > at
        <4>1. x - 1 \in DOMAIN s.elems /\ s.elems[x - 1] = elems[x]
          BY <1>8, <1>9, <1>10, <3>2 DEF Inserted
        <4> QED  BY <4>1
      <3> QED  BY <1>8, <3>1, <3>2
    <2>2. \A y \in DOMAIN st.slab[p].elems : \E x \in DOMAIN t.elems : st.slab[p].elems[y] = t.elems[x]
      <3> SUFFICES ASSUME NEW y \in 1..Len(s.elems)
                   PROVE  \E x \in DOMAIN elems : s.elems[y] = elems[x]
        BY <1>3, <1>8, <1>15
      <3>1. CASE y < at
        BY <1>8, <1>9, <1>10, <3>1 DEF Inserted
      <3>2. CASE y >= at
        <4>1. y + 1 \in DOMAIN elems /\ elems[y + 1] = s.elems[y]
          BY <1>8, <1>9, <1>10, <3>2 DEF Inserted
        <4> QED  BY <4>1
      <3> QED  BY <1>8, <3>1, <3>2
    <2>3. /\ t.kind = st.slab[p].kind /\ t.type = st.slab[p].type /\ t.inlined = st.slab[p].inlined
          /\ at \in DOMAIN t.elems /\ t.elems[at] = e
      BY <1>3, <1>10, <1>15
    <2>4. \A k \in Programs : Alters(Contents(st), k, p, vals) => Nest(k)
      BY <1>0 DEF vals, held
    <2>5. Entry(m, e, v, MaxInlineSize[st.slab[p].kind]) /\ vals = ValuesOf(t.elems)
      BY <1>0, <1>1, <1>11, <1>15
    <2> HIDE DEF v
    <2> QED  BY <1>0, <1>1, <1>14, <1>17, <2>1, <2>2, <2>3, <2>4, <2>5 DEF Alterable, v
  <1> QED  BY <1>4, <1>6, <1>18, AlterPut DEF vals, held

\* A map without a key.
Without(f, at) == [x \in DOMAIN f \ {at} |-> f[x]]

\* What is at a place of p is to be taken out; it is in Y.
RemoveReady(st, X, p, at, Y) ==
    /\ Sound(st, None, X) /\ X \subseteq Y
    /\ p \in Container /\ st.slab[p] # None /\ at \in DOMAIN st.slab[p].elems
    /\ IsChild(st.slab[p].elems[at]) => st.slab[p].elems[at].id \in Y

\* ArrayDataSlab.Remove.
LEMMA ArrayRemoveIs ==
    ASSUME NEW st, NEW X, NEW p, NEW at, NEW Y, RemoveReady(st, X, p, at, Y),
           st.slab[p].kind = "array",
           \A k \in Programs :
              Alters(Contents(st), k, p, RemoveAt(Contents(st)[p].elems, at)) => Nest(k)
    PROVE  Altered(st, ArraySlabRemove(st, p, at), None, p, RemoveAt(Contents(st)[p].elems, at), Y)
  <1>0. /\ Sound(st, None, X) /\ X \subseteq Y
        /\ p \in Container /\ st.slab[p] # None /\ at \in DOMAIN st.slab[p].elems
        /\ IsChild(st.slab[p].elems[at]) => st.slab[p].elems[at].id \in Y
    BY DEF RemoveReady
  <1>2. st \in States /\ ChildrenExist(Contents(st))
    BY <1>0 DEF Sound, Nest
  <1>3. PICK s \in Slab : s = st.slab[p]
    BY <1>0, <1>2, HeldIs
  <1> DEFINE elems == RemoveAt(s.elems, at)
             size  == s.size - ByteSize(st, s.elems[at])
             t     == Refilled(s, elems, size)
             held  == Contents(st)[p].elems
             vals  == RemoveAt(held, at)
  <1>6. ArraySlabRemove(st, p, at) = storeIfNotInlined(PutSlab(st, p, t), p)
    BY <1>3 DEF ArraySlabRemove, Refilled
  <1>7. t = [kind |-> s.kind, type |-> s.type, inlined |-> s.inlined, size |-> size,
             elems |-> elems, cached |-> s.cached]
    BY SlabExcept
  <1> HIDE DEF t
  <1>8. /\ s.elems \in Seq(Element) /\ s.kind = "array" /\ s.cached = <<>> /\ s.size \in Nat
        /\ held \in Seq(Value) /\ Len(held) = Len(s.elems)
        /\ \A i \in 1..Len(s.elems) : held[i] = AsValue(s.elems[i])
        /\ at \in 1..Len(s.elems) /\ Len(s.elems) \in Nat /\ DOMAIN s.elems = 1..Len(s.elems)
    BY <1>0, <1>2, <1>3, SlabIs, ValuesAre
  <1>9. /\ elems \in Seq(Element) /\ Removed(elems, s.elems, at)
        /\ vals \in Seq(Value) /\ Removed(vals, held, at)
    <2> HIDE DEF held
    <2> QED  BY <1>0, <1>8, RemovedAt
  <1> HIDE DEF elems, vals, held
  <1>10. Len(elems) = Len(s.elems) - 1 /\ DOMAIN elems = 1..Len(elems) /\ Len(elems) \in Nat
    BY <1>8, <1>9 DEF Removed
  <1>11. vals = ValuesOf(elems)
    <2>1. /\ ValuesOf(elems) \in Seq(Value) /\ Len(ValuesOf(elems)) = Len(elems)
          /\ \A i \in 1..Len(elems) : ValuesOf(elems)[i] = AsValue(elems[i])
      BY <1>9, ValuesOfSeq
    <2>2. Len(vals) = Len(elems)
      BY <1>8, <1>9, <1>10 DEF Removed
    <2>3. \A i \in 1..Len(elems) : vals[i] = AsValue(elems[i])
      <3> TAKE i \in 1..Len(elems)
      <3>1. i \in 1..Len(s.elems) /\ i + 1 \in 1..Len(s.elems)
        BY <1>8, <1>10
      <3> QED  BY <1>8, <1>9, <1>10, <3>1 DEF Removed
    <2> DEFINE u == ValuesOf(elems)
    <2> HIDE DEF u
    <2>4. u \in Seq(Value) /\ Len(u) = Len(elems) /\ \A i \in 1..Len(elems) : u[i] = vals[i]
      BY <2>1, <2>3 DEF u
    <2>5. u = vals
      BY <1>9, <2>2, <2>4
    <2> QED  BY <2>5 DEF u
  <1>12. \A x \in DOMAIN s.elems : ByteSize(st, s.elems[x]) \in Nat
    <2>1. SlabElems(st, p) = s.elems
      BY <1>0, <1>2, <1>3, SlabElemsAre
    <2> QED  BY <1>0, <1>2, <2>1, BytesAre
  <1>13. s.size = PrefixSize(s) + SumSizes(st, s.elems)
    <2>1. None \notin SlabsIn(st, p)
      BY NoneIsNot DEF SlabsIn
    <2> QED  BY <1>0, <1>3, <1>8, <2>1 DEF Sound, SizesFit, SizeIs
  <1>14. /\ SumSizes(st, s.elems) = SumSizes(st, elems) + ByteSize(st, s.elems[at])
         /\ SumSizes(st, elems) \in Nat
    <2> DEFINE a == [x \in DOMAIN elems |-> ByteSize(st, elems[x])]
               b == [x \in DOMAIN s.elems |-> ByteSize(st, s.elems[x])]
    <2>1. b \in [1..Len(s.elems) -> Nat]
      BY <1>8, <1>12
    <2>2. /\ \A x \in 1..Len(elems) : a[x] = ByteSize(st, elems[x])
          /\ \A x \in 1..Len(s.elems) : b[x] = ByteSize(st, s.elems[x])
          /\ DOMAIN a = 1..Len(elems) /\ a = [x \in 1..Len(elems) |-> a[x]]
      BY <1>8, <1>10
    <2>3. /\ \A j \in 1..Len(elems) : j < at => j \in 1..Len(s.elems) /\ elems[j] = s.elems[j]
          /\ \A j \in 1..Len(elems) : ~ (j < at) => j + 1 \in 1..Len(s.elems) /\ elems[j] = s.elems[j+1]
      BY <1>8, <1>9, <1>10 DEF Removed
    <2> HIDE DEF a, b
    <2>4. \A j \in 1..Len(elems) : j < at => j \in 1..Len(s.elems) /\ a[j] = b[j]
      BY <2>2, <2>3
    <2>5. ASSUME NEW j \in 1..Len(elems), ~ (j < at) PROVE j + 1 \in 1..Len(s.elems) /\ a[j] = b[j+1]
      <3>1. j + 1 \in 1..Len(s.elems) /\ elems[j] = s.elems[j+1]
        BY <2>3, <2>5
      <3>2. b[j+1] = ByteSize(st, s.elems[j+1])
        BY <2>2, <3>1
      <3> QED  BY <2>2, <3>1, <3>2
    <2>6. a \in [1..Len(elems) -> Nat]
      <3>1. \A j \in 1..Len(elems) : a[j] \in Nat
        BY <2>1, <2>4, <2>5
      <3> QED  BY <2>2, <3>1
    <2>7. a \in Seq(Nat) /\ Len(a) = Len(elems)
      BY <1>10, <2>6
    <2>8. b \in Seq(Nat) /\ Len(b) = Len(s.elems)
      BY <1>8, <2>1
    <2>9. /\ Len(b) = Len(a) + 1 /\ at \in 1..Len(b)
          /\ \A j \in 1..Len(b) : j < at => b[j] = a[j]
      BY <1>8, <1>10, <2>4, <2>7, <2>8
    <2>10. ASSUME NEW j \in 1..Len(b), j > at PROVE b[j] = a[j-1]
      <3>1. j - 1 \in 1..Len(elems) /\ ~ (j - 1 < at) /\ (j - 1) + 1 = j
        BY <1>8, <1>10, <2>8, <2>10
      <3> QED  BY <2>5, <3>1
    <2>11. Total(b) = Total(a) + b[at]
      BY <2>7, <2>8, <2>9, <2>10, TotalOfMore
    <2>12. Total(a) \in Nat
      BY <2>7, SumsDef
    <2>13. b[at] = ByteSize(st, s.elems[at])
      BY <1>8, <2>2
    <2> QED  BY <2>11, <2>12, <2>13 DEF SumSizes, a, b
  <1>15. size = PrefixSize(s) + SumSizes(st, elems) /\ size \in Nat
    <2>1. PrefixSize(s) \in Nat /\ ByteSize(st, s.elems[at]) \in Nat
      BY <1>0, <1>3, <1>12, PrefixIs
    <2> QED  BY <1>13, <1>14, <2>1
  <1> HIDE DEF size
  <1>16. t \in Slab
    BY <1>7, <1>8, <1>9, <1>15, SlabIs, IsSlab
  <1>17. t.kind = s.kind /\ t.type = s.type /\ t.inlined = s.inlined /\ t.elems = elems
         /\ t.size = size /\ PrefixSize(t) = PrefixSize(s)
    BY <1>7 DEF PrefixSize
  <1>18. SizesOf(st, t)
    BY <1>8, <1>15, <1>17 DEF SizesOf
  <1> DEFINE e == [tag |-> "plain"]
  <1>19. ~ IsChild(e) /\ Entry(st, e, None, MaxInlineSize[st.slab[p].kind]) /\ Prepared(st, st, None)
    BY DEF IsChild, Entry, Prepared
  <1> HIDE DEF e
  <1>20. Alterable(st, None, X, st, None, p, None, e, t, vals, Y)
    <2>1. \A x \in DOMAIN t.elems :
             \E y \in DOMAIN st.slab[p].elems : st.slab[p].elems[y] = t.elems[x]
      <3> SUFFICES ASSUME NEW x \in 1..Len(elems)
                   PROVE  \E y \in DOMAIN s.elems : s.elems[y] = elems[x]
        BY <1>3, <1>10, <1>17
      <3>1. CASE x < at
        <4>1. x \in DOMAIN s.elems /\ s.elems[x] = elems[x]
          BY <1>8, <1>9, <1>10, <3>1 DEF Removed
        <4> QED  BY <4>1
      <3>2. CASE x >= at
        <4>1. x + 1 \in DOMAIN s.elems /\ s.elems[x + 1] = elems[x]
          BY <1>8, <1>9, <1>10, <3>2 DEF Removed
        <4> QED  BY <4>1
      <3> QED  BY <1>8, <3>1, <3>2
    <2>2. \A y \in DOMAIN st.slab[p].elems :
             \/ ~ IsChild(st.slab[p].elems[y]) \/ st.slab[p].elems[y].id \in Y \cup {None}
             \/ \E x \in DOMAIN t.elems : st.slab[p].elems[y] = t.elems[x]
      <3> SUFFICES ASSUME NEW y \in 1..Len(s.elems), y # at
                   PROVE  \E x \in DOMAIN elems : s.elems[y] = elems[x]
        BY <1>0, <1>3, <1>8, <1>17
      <3>1. CASE y < at
        BY <1>8, <1>9, <1>10, <3>1 DEF Removed
      <3>2. CASE y > at
        <4>1. y - 1 \in DOMAIN elems /\ y - 1 \in 1..(Len(s.elems) - 1) /\ ~ (y - 1 < at)
              /\ (y - 1) + 1 = y
          BY <1>8, <1>10, <3>2
        <4>2. elems[y - 1] = s.elems[y]
          BY <1>9, <4>1 DEF Removed
        <4> QED  BY <4>1, <4>2
      <3> QED  BY <1>8, <3>1, <3>2
    <2>3. /\ t.kind = st.slab[p].kind /\ t.type = st.slab[p].type /\ t.inlined = st.slab[p].inlined
      BY <1>3, <1>17
    <2>4. \A k \in Programs : Alters(Contents(st), k, p, vals) => Nest(k)
      BY DEF vals, held
    <2>5. vals = ValuesOf(t.elems) /\ None # p
      BY <1>0, <1>11, <1>17, NoneIsNot
    <2> QED  BY <1>0, <1>16, <1>18, <1>19, <2>1, <2>2, <2>3, <2>4, <2>5 DEF Alterable
  <1> QED  BY <1>6, <1>20, AlterPut DEF vals, held

\* MapDataSlab.Remove.
LEMMA MapRemoveIs ==
    ASSUME NEW st, NEW X, NEW p, NEW at, NEW Y, RemoveReady(st, X, p, at, Y),
           st.slab[p].kind = "map",
           \A k \in Programs :
              Alters(Contents(st), k, p, Without(Contents(st)[p].elems, at)) => Nest(k)
    PROVE  Altered(st, MapSlabRemove(st, p, at), None, p, Without(Contents(st)[p].elems, at), Y)
  <1>0. /\ Sound(st, None, X) /\ X \subseteq Y
        /\ p \in Container /\ st.slab[p] # None /\ at \in DOMAIN st.slab[p].elems
        /\ IsChild(st.slab[p].elems[at]) => st.slab[p].elems[at].id \in Y
    BY DEF RemoveReady
  <1>2. st \in States /\ ChildrenExist(Contents(st))
    BY <1>0 DEF Sound, Nest
  <1>3. PICK s \in Slab : s = st.slab[p]
    BY <1>0, <1>2, HeldIs
  <1> DEFINE elems  == Without(s.elems, at)
             cached == Restrict(s.cached, DOMAIN s.elems \ {at})
             size   == s.size - s.cached[at]
             t      == Recached(s, elems, cached, size)
             held   == Contents(st)[p].elems
             vals   == Without(held, at)
  <1>4. Restrict(s.elems, DOMAIN s.elems \ {at}) = elems
    BY DEF Restrict, Without
  <1>5. MapSlabRemove(st, p, at) = storeIfNotInlined(PutSlab(st, p, t), p)
    BY <1>3, <1>4 DEF MapSlabRemove, Recached
  <1>7. t = [kind |-> s.kind, type |-> s.type, inlined |-> s.inlined, size |-> size,
             elems |-> elems, cached |-> cached]
    <2> HIDE DEF elems, cached, size
    <2> QED  BY SlabExcept
  <1> HIDE DEF t
  <1>8. /\ s.kind = "map" /\ DOMAIN s.elems \in SUBSET Key /\ s.elems \in [DOMAIN s.elems -> Element]
        /\ DOMAIN s.cached \in SUBSET Key /\ s.cached \in [DOMAIN s.cached -> Nat]
        /\ s.size \in Nat
        /\ DOMAIN held = DOMAIN s.elems
        /\ \A x \in DOMAIN s.elems : held[x] = AsValue(s.elems[x])
    BY <1>0, <1>2, <1>3, SlabIs, HeldIs
  <1>9. /\ DOMAIN s.cached = DOMAIN s.elems
        /\ s.size = PrefixSize(s) + SumCached(s.cached)
        /\ \A x \in DOMAIN s.elems : s.cached[x] = ElementOverhead + ByteSize(st, s.elems[x])
    <2>1. ASSUME NEW x \in DOMAIN s.elems PROVE ~ (s.elems[x].tag = "slab" /\ s.elems[x].id = None)
      BY <1>8, ElementIs, NoneIsNot DEF IsChild
    <2> QED  BY <1>0, <1>3, <1>8, <2>1 DEF Sound, SizesFit, SizeIs
  <1> DEFINE keys == DOMAIN s.elems
  <1>10. /\ elems \in [keys \ {at} -> Element] /\ DOMAIN elems = keys \ {at}
         /\ \A x \in keys \ {at} : elems[x] = s.elems[x]
    BY <1>8 DEF Without
  <1>11. /\ cached \in [keys \ {at} -> Nat] /\ DOMAIN cached = keys \ {at}
         /\ \A x \in keys \ {at} : cached[x] = s.cached[x]
    BY <1>8, <1>9 DEF Restrict
  <1>12. vals = ValuesOf(elems)
    <2>1. vals = [x \in keys \ {at} |-> held[x]]
      BY <1>8 DEF Without
    <2>2. ValuesOf(elems) = [x \in keys \ {at} |-> AsValue(elems[x])]
      BY <1>10 DEF ValuesOf
    <2>3. \A x \in keys \ {at} : held[x] = AsValue(elems[x])
      BY <1>8, <1>10
    <2> HIDE DEF elems, vals, held, keys
    <2> QED  BY <2>1, <2>2, <2>3
  <1> HIDE DEF elems, cached, vals, held
  <1>13. keys \in SUBSET Key /\ at \in keys /\ keys \ {at} \in SUBSET Key /\ s.cached \in [keys -> Nat]
    BY <1>0, <1>3, <1>8, <1>9
  <1>14. SumCached(s.cached) = SumCached(cached) + s.cached[at]
    <2> HIDE DEF keys
    <2> QED  BY <1>11, <1>13, CachedOfMore
  <1>15. SumCached(cached) \in Nat /\ s.cached[at] \in Nat
    <2> HIDE DEF keys
    <2> QED  BY <1>11, <1>13, CachedIs
  <1>16. size = PrefixSize(s) + SumCached(cached) /\ size \in Nat
    <2>1. PrefixSize(s) \in Nat
      BY PrefixIs
    <2> QED  BY <1>9, <1>14, <1>15, <2>1
  <1> HIDE DEF size, keys
  <1>17. t \in Slab
    BY <1>7, <1>8, <1>10, <1>11, <1>13, <1>16, SlabIs, IsSlab
  <1>18. t.kind = s.kind /\ t.type = s.type /\ t.inlined = s.inlined /\ t.elems = elems
         /\ t.cached = cached /\ t.size = size /\ PrefixSize(t) = PrefixSize(s)
    BY <1>7 DEF PrefixSize
  <1>19. SizesOf(st, t)
    <2>1. \A x \in DOMAIN elems : cached[x] = ElementOverhead + ByteSize(st, elems[x])
      BY <1>9, <1>10, <1>11 DEF keys
    <2> QED  BY <1>8, <1>10, <1>11, <1>16, <1>18, <2>1 DEF SizesOf
  <1> DEFINE e == [tag |-> "plain"]
  <1>20. ~ IsChild(e) /\ Entry(st, e, None, MaxInlineSize[st.slab[p].kind]) /\ Prepared(st, st, None)
    BY DEF IsChild, Entry, Prepared
  <1> HIDE DEF e
  <1>21. Alterable(st, None, X, st, None, p, None, e, t, vals, Y)
    <2>1. \A x \in DOMAIN t.elems :
             \E y \in DOMAIN st.slab[p].elems : st.slab[p].elems[y] = t.elems[x]
      BY <1>3, <1>10, <1>18 DEF keys
    <2>2. \A y \in DOMAIN st.slab[p].elems :
             \/ ~ IsChild(st.slab[p].elems[y]) \/ st.slab[p].elems[y].id \in Y \cup {None}
             \/ \E x \in DOMAIN t.elems : st.slab[p].elems[y] = t.elems[x]
      BY <1>0, <1>3, <1>10, <1>18 DEF keys
    <2>3. /\ t.kind = st.slab[p].kind /\ t.type = st.slab[p].type /\ t.inlined = st.slab[p].inlined
      BY <1>3, <1>18
    <2>4. \A k \in Programs : Alters(Contents(st), k, p, vals) => Nest(k)
      BY DEF vals, held
    <2>5. vals = ValuesOf(t.elems) /\ None # p
      BY <1>0, <1>12, <1>18, NoneIsNot
    <2> QED  BY <1>0, <1>17, <1>19, <1>20, <2>1, <2>2, <2>3, <2>4, <2>5 DEF Alterable
  <1> QED  BY <1>5, <1>21, AlterPut DEF vals, held

-----------------------------------------------------------------------------
(* Notifying parents.                                                      *)

\* Handles do not matter to slabs.
LEMMA SoundSlabs ==
    ASSUME NEW st, NEW dirty, NEW X, Sound(st, dirty, X),
           NEW r \in States, r.slab = st.slab, r.stored = st.stored
    PROVE  Sound(r, dirty, X) /\ Contents(r) = Contents(st)
  <1>0. st \in States /\ Nest(Contents(st))
    BY DEF Sound
  <1>1. /\ \A c : Encode(r, c) = Encode(st, c) /\ InlinedIn(r, c) = InlinedIn(st, c)
        /\ \A c : SlabElems(r, c) = SlabElems(st, c) /\ SlabsIn(r, c) = SlabsIn(st, c)
        /\ Contents(r) = Contents(st)
    BY EncodeSlabs
  <1>2. \A e : ByteSize(r, e) = ByteSize(st, e)
    BY DEF ByteSize
  <1>3. \A p : SizeIs(r, p) <=> SizeIs(st, p)
    BY <1>2 DEF SizeIs, SumSizes
  <1>4. TagsFit(r)
    BY <1>1 DEF Sound, TagsFit
  <1>5. SizesFit(r, dirty)
    <2>1. SizesFit(st, dirty)
      BY DEF Sound
    <2> QED  BY <1>1, <1>2, <1>3, <2>1 DEF SizesFit
  <1>6. InlinedHavePlace(r, X)
    BY <1>1 DEF Sound, InlinedHavePlace
  <1>7. Saved(r, dirty)
    BY <1>1 DEF Sound, Saved
  <1> QED  BY <1>0, <1>1, <1>4, <1>5, <1>6, <1>7 DEF Sound

\* There is nothing to tell if c has a slab of its own and is to have one.
LEMMA Settle ==
    ASSUME NEW st, NEW c \in Container, NEW X, Sound(st, c, X), ~ st.slab[c].inlined,
           \A p \in Container : \A x \in DOMAIN SlabElems(st, p) :
              IsChild(SlabElems(st, p)[x]) /\ SlabElems(st, p)[x].id = c =>
                 ~ Inlinable(st.slab[c], MaxInlineSize[st.slab[p].kind] - SlabElems(st, p)[x].wrap)
    PROVE  Sound(st, None, X)
  <1>0. /\ st \in States /\ Nest(Contents(st)) /\ TagsFit(st) /\ SizesFit(st, c)
        /\ InlinedHavePlace(st, X) /\ Saved(st, c)
    BY DEF Sound
  <1>1. \A p \in Container : \A x \in DOMAIN SlabElems(st, p) :
           ~ (SlabElems(st, p)[x].tag = "slab" /\ SlabElems(st, p)[x].id = c)
    BY <1>0 DEF TagsFit, IsChild
  <1>2. \A p \in Container : c \notin SlabsIn(st, p)
    BY <1>1 DEF SlabsIn
  <1>3. SizesFit(st, None)
    <2> SUFFICES ASSUME NEW p \in Container, st.slab[p] # None
                 PROVE  LET s == st.slab[p] IN
                          /\ s.size >= PrefixSize(s)
                          /\ s.kind = "map" \/ None \notin SlabsIn(st, p) => SizeIs(st, p)
                          /\ s.kind = "map" => DOMAIN s.cached = DOMAIN s.elems
                          /\ \A x \in DOMAIN s.elems :
                                LET e == s.elems[x] IN
                                  /\ s.kind = "map" /\ ~ (e.tag = "slab" /\ e.id = None) =>
                                        s.cached[x] = ElementOverhead + ByteSize(st, e)
                                  /\ IsChild(e) /\ e.id # None =>
                                        (st.slab[e.id].inlined
                                           <=> Inlinable(st.slab[e.id], MaxInlineSize[s.kind] - e.wrap))
      BY DEF SizesFit
    <2>1. SlabElems(st, p) = st.slab[p].elems
      BY <1>0, SlabElemsAre
    <2>2. /\ st.slab[p].size >= PrefixSize(st.slab[p])
          /\ SizeIs(st, p)
          /\ st.slab[p].kind = "map" => DOMAIN st.slab[p].cached = DOMAIN st.slab[p].elems
      BY <1>0, <1>2 DEF SizesFit
    <2>3. ASSUME NEW x \in DOMAIN st.slab[p].elems
          PROVE  /\ st.slab[p].kind = "map" =>
                      st.slab[p].cached[x] = ElementOverhead + ByteSize(st, st.slab[p].elems[x])
                 /\ IsChild(st.slab[p].elems[x]) =>
                      (st.slab[st.slab[p].elems[x].id].inlined
                         <=> Inlinable(st.slab[st.slab[p].elems[x].id],
                                       MaxInlineSize[st.slab[p].kind] - st.slab[p].elems[x].wrap))
      <3>1. ~ (st.slab[p].elems[x].tag = "slab" /\ st.slab[p].elems[x].id = c)
        BY <1>1, <2>1
      <3>2. st.slab[p].kind = "map" =>
              st.slab[p].cached[x] = ElementOverhead + ByteSize(st, st.slab[p].elems[x])
        BY <1>0, <3>1 DEF SizesFit
      <3>3. CASE st.slab[p].elems[x].id = c
        BY <2>1, <3>2, <3>3
      <3>4. CASE st.slab[p].elems[x].id # c
        BY <1>0, <3>2, <3>4 DEF SizesFit
      <3> QED  BY <3>3, <3>4
    <2> QED  BY <2>2, <2>3
  <1>4. Saved(st, None)
    <2>1. ASSUME NEW d \in Container, c \in InlinedIn(st, d) PROVE FALSE
      <3>1. c \in Below(Inner(st), d) /\ Inner(st) \in [Container -> SUBSET Container]
        BY <1>0, <2>1, InlinedIs, InnerIs
      <3>2. PICK x \in {d} \cup Below(Inner(st), d) : c \in Inner(st)[x]
        BY <3>1, BelowFrom
      <3>3. x \in Container
        BY <3>1, <3>2, BelowIs
      <3> QED  BY <1>0, <1>2, <3>2, <3>3, InnerIs
    <2> QED  BY <1>0, <2>1 DEF Saved
  <1> QED  BY <1>0, <1>3, <1>4 DEF Sound

\* This is so if c is in no place.
LEMMA SettleOutside ==
    ASSUME NEW st, NEW c \in Container, NEW X, Sound(st, c, X), st.slab[c] # None, c \notin X,
           \A p \in Container : c \notin Kids(Contents(st), p)
    PROVE  ~ st.slab[c].inlined /\ Sound(st, None, X)
  <1>0. st \in States /\ InlinedHavePlace(st, X)
    BY DEF Sound
  <1>1. \A p \in Container : c \notin SlabsIn(st, p)
    BY <1>0, InnerIs
  <1>2. ~ st.slab[c].inlined
    BY <1>0, <1>1 DEF InlinedHavePlace
  <1>3. \A p \in Container : \A x \in DOMAIN SlabElems(st, p) :
           ~ (IsChild(SlabElems(st, p)[x]) /\ SlabElems(st, p)[x].id = c)
    BY <1>0, PlaceInSlab, KidsAre
  <1> QED  BY <1>2, <1>3, Settle

\* Handles change, and nothing else.
Rehandled(st, h) == [st EXCEPT !.handle = h]

\* The state has them.
LEMMA RehandledIs ==
    ASSUME NEW st \in States, NEW h \in Handles
    PROVE  /\ Rehandled(st, h) \in States /\ Rehandled(st, h).handle = h
           /\ Rehandled(st, h).slab = st.slab /\ Rehandled(st, h).stored = st.stored
  BY DEF Rehandled, States

\* A container that forgets its parent.
LEMMA UnsetIs ==
    ASSUME NEW st \in States, NEW c \in Container, st.handle[c] # None
    PROVE  LET r == unsetUpdater(st, c)
           IN /\ r \in States /\ r.slab = st.slab /\ r.stored = st.stored
              /\ \A d \in Container : d # c => r.handle[d] = st.handle[d]
              /\ r.handle[c] = [updater |-> None, index |-> st.handle[c].index]
              /\ r.handle[c] # None
  <1> DEFINE a == st.handle[c]
             b == [updater |-> None, index |-> a.index]
  <1>1. st.handle \in Handles /\ a \in Handle
    BY StateIs
  <1>2. /\ a = [updater |-> a.updater, index |-> a.index] /\ DOMAIN a.index \in SUBSET Container
        /\ a.index \in [DOMAIN a.index -> Nat]
    BY <1>1, HandleIs
  <1>3. b \in Handle /\ b # None
    <2> HIDE DEF a
    <2>1. b \in Handle
      BY <1>2, IsHandle
    <2> QED  BY <2>1, HandleIs
  <1>4. [a EXCEPT !.updater = None] = b
    BY <1>2
  <1>5. unsetUpdater(st, c) = [st EXCEPT !.handle = [st.handle EXCEPT ![c] = b]]
    BY <1>4 DEF unsetUpdater
  <1> DEFINE h == [st.handle EXCEPT ![c] = b]
  <1>6. h \in Handles /\ h[c] = b /\ \A d \in Container : d # c => h[d] = st.handle[d]
    <2> HIDE DEF b, a
    <2> QED  BY <1>1, <1>3 DEF Handles
  <1>7. unsetUpdater(st, c) = Rehandled(st, h)
    BY <1>5 DEF Rehandled
  <1> HIDE DEF h, b
  <1> QED  BY <1>3, <1>6, <1>7, RehandledIs DEF b

\* A container that is not in Z and not under one in Z.
Clear(k, c, Z) == \A z \in Z : c # z /\ c \notin Under(k, z)

\* The parent of c is to be told of a change.  What a call has still to do is
\* about containers in Z, and c is clear of those.
Telling(st, c, Z, X, L, I) ==
    /\ X \subseteq Z /\ L \subseteq Z /\ Z \subseteq Container
    /\ \A q, d \in Container : <<q, d>> \in I => d \in Z
    /\ c \in Container /\ Sound(st, c, X) /\ Handled(Contents(st), st.handle, L, I)
    /\ st.handle[c] # None /\ Clear(Contents(st), c, Z)

\* Nothing changed between st and r but what telling parents changes.
Kept(st, r, Z) ==
    /\ Contents(r) = Contents(st)
    /\ \A d \in Container : r.handle[d] = None <=> st.handle[d] = None
    /\ \A z \in Z : r.slab[z] = st.slab[z]

\* All parents that have to be told were told.
Told(st, r, Z, X, L, I) ==
    Sound(r, None, X) /\ Handled(Contents(r), r.handle, L, I) /\ Kept(st, r, Z)

\* Elements that do not change leave everything as it was.
LEMMA AltersNothing ==
    ASSUME NEW k \in Programs, NEW k2, NEW p \in Container, Alters(k, k2, p, k[p].elems)
    PROVE  k2 = k
  <1>1. k[p] # None /\ k2 \in Programs
    BY DEF Alters
  <1>2. k[p] \in Content
    BY <1>1 DEF Programs
  <1>3. k[p] = [kind |-> k[p].kind, type |-> k[p].type, elems |-> k[p].elems]
    BY <1>2, ContentIs DEF Content
  <1>4. \A d \in Container : k2[d] = k[d]
    BY <1>3 DEF Alters
  <1> QED  BY <1>1, <1>4 DEF Programs

\* Nor does an element that is set again.
LEMMA WithSame ==
    ASSUME NEW k \in Programs, NEW p \in Container, k[p] # None, NEW at \in DOMAIN k[p].elems
    PROVE  With(k[p].elems, at, k[p].elems[at]) = k[p].elems
  <1>1. k[p] \in Content
    BY DEF Programs
  <1>2. k[p].elems = [x \in DOMAIN k[p].elems |-> k[p].elems[x]]
    BY <1>1, ContentIs DEF Content
  <1> DEFINE f == k[p].elems
  <1>3. f = [x \in DOMAIN f |-> f[x]] /\ at \in DOMAIN f
    BY <1>2
  <1> HIDE DEF f
  <1>4. DOMAIN f \cup {at} = DOMAIN f
    BY <1>3
  <1>5. With(f, at, f[at]) = [x \in DOMAIN f |-> f[x]]
    BY <1>4 DEF With
  <1> QED  BY <1>3, <1>5 DEF f

\* The updater of c finds c where it is.
Finds(st, c) ==
    LET u  == st.handle[c].updater
        q  == u.parent
        at == UpdaterPosition(st, c)
        k  == Contents(st)
    IN /\ u \in Updater /\ q \in Container /\ st.slab[q] # None
       /\ \A p \in Container : \A x \in DOMAIN Elems(k, p) : Place(k, p, x, c) =>
             /\ p = q /\ x = at /\ at # None /\ st.handle[q] # None
             /\ u.wrap = Elems(k, q)[x].wrap
       /\ at # None => /\ at \in DOMAIN st.slab[q].elems
                       /\ Holds(st, q, at, c) <=> Place(k, q, at, c)

\* All updaters do.
LEMMA UpdaterFinds ==
    ASSUME NEW st, NEW c, NEW Z, NEW X, NEW L, NEW I, Telling(st, c, Z, X, L, I),
           st.handle[c].updater # None
    PROVE  Finds(st, c)
  <1> DEFINE u  == st.handle[c].updater
             q  == u.parent
             at == UpdaterPosition(st, c)
             k  == Contents(st)
             h  == st.handle
  <1>0. /\ c \in Container /\ Sound(st, c, X) /\ Handled(k, h, L, I) /\ h[c] # None
        /\ c \notin Z /\ c \notin L /\ \A p \in Container : <<p, c>> \notin I
    BY DEF Telling, Clear
  <1>1. /\ st \in States /\ Nest(k) /\ k \in Programs
        /\ h \in Handles /\ Linked(k, h, L) /\ Indexed(k, h, I) /\ UpdatersLead(k, h)
    BY <1>0 DEF Sound, Handled, Nest
  <1>2. u \in Updater /\ q \in Container /\ u.key \in Key \cup {None}
    BY <1>0, <1>1, StateIs, HandleIs, UpdaterIs
  <1>3. k[q] # None /\ st.slab[q] # None
    BY <1>0, <1>1, <1>2, ContentsAre DEF UpdatersLead
  <1>4. k[q].kind = st.slab[q].kind /\ st.slab[q].kind \in Kind
        /\ Elems(k, q) = k[q].elems /\ DOMAIN k[q].elems = DOMAIN st.slab[q].elems
        /\ SlabElems(st, q) = st.slab[q].elems
    BY <1>1, <1>2, <1>3, HeldIs
  <1>5. st.slab[q].kind = "array" => at = PositionInArray(st, q, c)
    BY DEF UpdaterPosition
  <1>6. st.slab[q].kind = "map" => at = PositionInMap(st, q, u.key)
    BY DEF UpdaterPosition
  <1>7. ASSUME NEW p \in Container, NEW x \in DOMAIN Elems(k, p), Place(k, p, x, c)
        PROVE  /\ p = q /\ x = at /\ at # None /\ h[q] # None
               /\ u.wrap = Elems(k, q)[x].wrap
    <2>1. /\ h[p] # None
          /\ u = [parent |-> p, wrap |-> Elems(k, p)[x].wrap,
                  key |-> IF k[p].kind = "array" THEN None ELSE x]
          /\ k[p].kind = "array" => c \in DOMAIN h[p].index /\ h[p].index[c] = x
      BY <1>0, <1>1, <1>7 DEF Linked
    <2>2. p = q /\ u.wrap = Elems(k, p)[x].wrap /\ u.key = IF k[p].kind = "array" THEN None ELSE x
      BY <2>1
    <2>3. /\ k[q].kind = "array" => x \in Nat
          /\ k[q].kind = "map" => x \in Key
      BY <1>0, <1>1, <1>2, <1>7, <2>2, PlaceIs
    <2>4. CASE st.slab[q].kind = "array"
      <3>1. PositionInArray(st, q, c) = x
        BY <1>4, <2>1, <2>2, <2>4 DEF PositionInArray
      <3> QED  BY <1>4, <1>5, <2>1, <2>2, <2>3, <2>4, <3>1, NoneIsNot
    <2>5. CASE st.slab[q].kind = "map"
      <3>1. u.key = x /\ x \in DOMAIN st.slab[q].elems
        BY <1>4, <1>7, <2>2, <2>5
      <3>2. PositionInMap(st, q, u.key) = x
        BY <3>1 DEF PositionInMap
      <3> QED  BY <1>4, <1>6, <2>1, <2>2, <2>3, <2>5, <3>2, NoneIsNot
    <2> QED  BY <1>4, <2>4, <2>5 DEF Kind
  <1>8. ASSUME at # None PROVE at \in DOMAIN st.slab[q].elems
    <2>1. CASE st.slab[q].kind = "array"
      <3>1. h[q] # None /\ c \in DOMAIN h[q].index /\ at = h[q].index[c]
        <4>1. CASE h[q] = None
          BY <1>5, <1>8, <2>1, <4>1 DEF PositionInArray
        <4>2. CASE h[q] # None
          BY <1>5, <1>8, <2>1, <4>2 DEF PositionInArray
        <4> QED  BY <4>1, <4>2
      <3>2. Place(k, q, at, c)
        BY <1>0, <1>1, <1>2, <3>1 DEF Indexed
      <3> QED  BY <1>4, <3>2 DEF Place
    <2>2. CASE st.slab[q].kind = "map"
      BY <1>6, <1>8, <2>2 DEF PositionInMap
    <2> QED  BY <1>4, <2>1, <2>2 DEF Kind
  <1>9. ASSUME at # None PROVE Holds(st, q, at, c) <=> Place(k, q, at, c)
    <2>1. at \in DOMAIN SlabElems(st, q)
      BY <1>4, <1>8, <1>9
    <2>2. Place(k, q, at, c) <=> IsChild(st.slab[q].elems[at]) /\ st.slab[q].elems[at].id = c
      <3>1. q \in Container /\ st \in States /\ SlabElems(st, q) = st.slab[q].elems
        BY <1>1, <1>2, <1>4
      <3> HIDE DEF at, q
      <3>2. Place(Contents(st), q, at, c)
              <=> /\ at \in DOMAIN SlabElems(st, q)
                  /\ IsChild(SlabElems(st, q)[at]) /\ SlabElems(st, q)[at].id = c
        BY <3>1, PlaceInSlab
      <3>3. Place(Contents(st), q, at, c)
              <=> IsChild(SlabElems(st, q)[at]) /\ SlabElems(st, q)[at].id = c
        BY <2>1, <3>2
      <3> QED  BY <3>1, <3>3
    <2> QED  BY <2>2 DEF Holds, IsChild
  <1> QED  BY <1>2, <1>3, <1>7, <1>8, <1>9 DEF Finds

\* What telling begins with.
LEMMA TellingIs ==
    ASSUME NEW st, NEW c, NEW Z, NEW X, NEW L, NEW I, Telling(st, c, Z, X, L, I)
    PROVE  /\ c \in Container /\ Sound(st, c, X) /\ Handled(Contents(st), st.handle, L, I)
           /\ st.handle[c] # None /\ c \notin X /\ c \notin L /\ c \notin Z
           /\ st \in States /\ Nest(Contents(st)) /\ Contents(st) \in Programs
           /\ st.slab[c] # None
  <1>1. /\ c \in Container /\ Sound(st, c, X) /\ Handled(Contents(st), st.handle, L, I)
        /\ st.handle[c] # None /\ c \notin X /\ c \notin L /\ c \notin Z
    BY DEF Telling, Clear
  <1>2. st \in States /\ Nest(Contents(st)) /\ Contents(st) \in Programs
    BY <1>1 DEF Sound, Nest
  <1>3. Contents(st)[c] # None
    BY <1>1 DEF Handled, Indexed
  <1> QED  BY <1>1, <1>2, <1>3, ContentsAre

\* There is no one to tell, or nothing to tell.
LEMMA NoneToTell ==
    ASSUME NEW st, NEW c, NEW Z, NEW X, NEW L, NEW I, Telling(st, c, Z, X, L, I),
           LET u == st.handle[c].updater IN
             \/ u = None
             \/ /\ ~ st.slab[c].inlined
                /\ ~ Inlinable(st.slab[c], MaxInlineSize[st.slab[u.parent].kind] - u.wrap)
    PROVE  Told(st, st, Z, X, L, I)
  <1> DEFINE u == st.handle[c].updater
             k == Contents(st)
  <1>0. /\ c \in Container /\ Sound(st, c, X) /\ Handled(k, st.handle, L, I)
        /\ st.handle[c] # None /\ c \notin X /\ c \notin L
        /\ st \in States /\ k \in Programs /\ st.slab[c] # None
    BY TellingIs
  <1>1. CASE u = None
    <2>1. ASSUME NEW p \in Container, c \in Kids(k, p) PROVE FALSE
      <3>1. PICK x \in DOMAIN Elems(k, p) : Place(k, p, x, c)
        BY <1>0, <2>1, KidsAre
      <3>2. u = [parent |-> p, wrap |-> Elems(k, p)[x].wrap,
                 key |-> IF k[p].kind = "array" THEN None ELSE x]
        BY <1>0, <3>1 DEF Handled, Linked
      <3>3. u \in Updater
        <4>1. /\ k[p].kind \in Kind /\ (k[p].kind = "map" => x \in Key)
              /\ Elems(k, p)[x].wrap \in Wraps
          BY <1>0, <3>1, PlaceIs
        <4>2. (IF k[p].kind = "array" THEN None ELSE x) \in Key \cup {None}
          BY <4>1 DEF Kind
        <4> QED  BY <3>2, <4>1, <4>2 DEF Updater
      <3> QED  BY <1>1, <3>3, NoneIsNot
    <2>2. Sound(st, None, X)
      BY <1>0, <2>1, SettleOutside
    <2> QED  BY <1>0, <2>2 DEF Told, Kept
  <1>2. CASE u # None
    <2>1. /\ ~ st.slab[c].inlined
          /\ ~ Inlinable(st.slab[c], MaxInlineSize[st.slab[u.parent].kind] - u.wrap)
      BY <1>2
    <2>2. ASSUME NEW p \in Container, NEW x \in DOMAIN SlabElems(st, p),
                 IsChild(SlabElems(st, p)[x]), SlabElems(st, p)[x].id = c
          PROVE  ~ Inlinable(st.slab[c], MaxInlineSize[st.slab[p].kind] - SlabElems(st, p)[x].wrap)
      <3>1. Place(k, p, x, c)
        BY <1>0, <2>2, PlaceInSlab
      <3>2. x \in DOMAIN Elems(k, p)
        BY <3>1 DEF Place
      <3>0. p = u.parent /\ u.wrap = Elems(k, p)[x].wrap
        <4>1. \A p1 \in Container : \A x1 \in DOMAIN Elems(k, p1) : Place(k, p1, x1, c) =>
                 p1 = u.parent /\ u.wrap = Elems(k, u.parent)[x1].wrap
          <5>1. st.handle[c].updater # None
            BY <1>2
          <5>2. Finds(st, c)
            BY <5>1, UpdaterFinds
          <5> QED  BY <5>2 DEF Finds
        <4> HIDE DEF k, u
        <4> QED  BY <3>1, <3>2, <4>1
      <3>3. SlabElems(st, p)[x] \in Element
        BY <1>0, SlabElemsAre
      <3>4. Elems(k, p)[x] = AsValue(SlabElems(st, p)[x])
        BY <1>0, ContentsAre
      <3>5. Elems(k, p)[x].wrap = SlabElems(st, p)[x].wrap
        BY <2>2, <3>3, <3>4, AsValueIs
      <3> QED  BY <2>1, <3>0, <3>5
    <2>3. Sound(st, None, X)
      BY <1>0, <2>1, <2>2, Settle
    <2> QED  BY <1>0, <2>3 DEF Told, Kept
  <1> QED  BY <1>1, <1>2

\* A container that is no longer where its updater looks forgets its parent.
LEMMA Forgets ==
    ASSUME NEW st, NEW c, NEW Z, NEW X, NEW L, NEW I, Telling(st, c, Z, X, L, I),
           \A p \in Container : c \notin Kids(Contents(st), p)
    PROVE  Told(st, unsetUpdater(st, c), Z, X, L, I)
  <1> DEFINE k == Contents(st)
             r == unsetUpdater(st, c)
  <1>0. /\ c \in Container /\ Sound(st, c, X) /\ Handled(k, st.handle, L, I)
        /\ st.handle[c] # None /\ c \notin X
        /\ st \in States /\ k \in Programs /\ st.slab[c] # None
    BY TellingIs
  <1>1. /\ r \in States /\ r.slab = st.slab /\ r.stored = st.stored
        /\ \A d \in Container : d # c => r.handle[d] = st.handle[d]
        /\ r.handle[c] = [updater |-> None, index |-> st.handle[c].index]
        /\ r.handle[c] # None
    BY <1>0, UnsetIs
  <1> HIDE DEF r
  <1>2. Sound(st, None, X)
    BY <1>0, SettleOutside
  <1>3. Sound(r, None, X) /\ Contents(r) = k
    BY <1>1, <1>2, SoundSlabs
  <1>4. r.handle \in Handles
    BY <1>1, StateIs
  <1>5. Handled(k, r.handle, L, I)
    BY <1>0, <1>1, <1>4, Unlink
  <1>6. Kept(st, r, Z)
    BY <1>0, <1>1, <1>3 DEF Kept
  <1> QED  BY <1>3, <1>5, <1>6 DEF Told, r

\* A child that is where its updater looks is set again there.
LEMMA SetsAgain ==
    ASSUME NEW st, NEW c, NEW Z, NEW X, NEW L, NEW I, Telling(st, c, Z, X, L, I),
           NEW q \in Container, NEW at, Place(Contents(st), q, at, c),
           NEW value, value = Elems(Contents(st), q)[at]
    PROVE  LET r == SlabSet(st, q, at, value)
           IN /\ Telling(r, q, Z, X, L, I) /\ Kept(st, r, Z) /\ r.handle = st.handle
              /\ value \in Child /\ value.id = c
              /\ at \in Nat \cup Key /\ c \in Under(Contents(st), q)
  <1> DEFINE k == Contents(st)
             r == SlabSet(st, q, at, value)
  <1>0. /\ c \in Container /\ Sound(st, c, X) /\ Handled(k, st.handle, L, I)
        /\ st.handle[c] # None /\ c \notin X /\ c \notin L /\ c \notin Z
        /\ st \in States /\ Nest(k) /\ k \in Programs /\ st.slab[c] # None
    BY TellingIs
  <1>1. /\ k[q] # None /\ at \in DOMAIN Elems(k, q) /\ Elems(k, q) = k[q].elems
        /\ k[q].kind \in Kind
        /\ k[q].kind = "array" => at \in Nat
        /\ k[q].kind = "map" => at \in Key
        /\ value \in Child /\ value.id = c
    <2>1. /\ value \in Child /\ value = [tag |-> "value", id |-> c, wrap |-> value.wrap]
      BY <1>0, PlaceIs
    <2>2. value.id = c
      BY <2>1
    <2> QED  BY <1>0, <2>1, <2>2, PlaceIs
  <1>2. at \in Nat \cup Key
    BY <1>1 DEF Kind
  <1>3. c \in Kids(k, q) /\ c \in Under(k, q)
    BY <1>0, KidsAre, UnderIs
  <1>4. c # q
    BY <1>0, <1>3 DEF Nest, NoCycle
  <1>5. /\ value \in Value /\ value.tag = "value" /\ value.id = c /\ IdOf(value) = c
    BY <1>1 DEF Value, Child, IdOf
  <1>6. /\ st.slab[q] # None /\ SlabElems(st, q) = st.slab[q].elems /\ at \in DOMAIN st.slab[q].elems
        /\ st.slab[q].elems[at].id = c
    BY <1>0, <1>1, PlaceInSlab, HeldIs, ContentsAre
  <1>7. With(k[q].elems, at, value) = k[q].elems
    <2>1. value = k[q].elems[at]
      BY <1>1
    <2> QED  BY <1>0, <1>1, <2>1, WithSame
  <1>8. SetReady(st, c, X, q, at, value, X)
    <2>1. \A k2 \in Programs :
             Alters(Contents(st), k2, q, With(Contents(st)[q].elems, at, value)) => Nest(k2)
      BY <1>0, <1>7, AltersNothing
    <2>2. /\ c \in {None, IdOf(value)} /\ Sound(st, c, X) /\ q \in Container /\ st.slab[q] # None
          /\ value \in Value /\ IdOf(value) # q /\ st.slab[value.id] # None
          /\ at \in DOMAIN st.slab[q].elems /\ st.slab[q].elems[at].id \in X \cup {IdOf(value)}
      BY <1>0, <1>4, <1>5, <1>6
    <2>3. value.tag = "value" => st.slab[value.id] # None
      BY <2>2
    <2>4. at \in DOMAIN st.slab[q].elems \/ (st.slab[q].kind = "map" /\ at \in Key)
      BY <2>2
    <2>5. at \in DOMAIN st.slab[q].elems /\ IsChild(st.slab[q].elems[at]) =>
             st.slab[q].elems[at].id \in X \cup {IdOf(value)}
      BY <2>2
    <2>6. X \subseteq X
      OBVIOUS
    <2> HIDE DEF k
    <2> QED  BY <2>1, <2>2, <2>3, <2>4, <2>5, <2>6, Zenon DEF SetReady
  <1>9. Altered(st, r, c, q, k[q].elems, X)
    BY <1>5, <1>7, <1>8, SlabSetIs
  <1> HIDE DEF r
  <1>10. /\ Sound(r, q, X) /\ r.handle = st.handle /\ Alters(k, Contents(r), q, k[q].elems)
         /\ \A d \in Container : d \notin {q, c} => r.slab[d] = st.slab[d]
    BY <1>9 DEF Altered
  <1>11. Contents(r) = k
    BY <1>0, <1>10, AltersNothing
  <1>12. Clear(k, q, Z)
    <2> SUFFICES ASSUME NEW z \in Z PROVE q # z /\ q \notin Under(k, z)
      BY DEF Clear
    <2>1. z \in Container /\ c \notin Under(k, z)
      BY DEF Telling, Clear
    <2> QED  BY <1>3, <2>1, UnderIs
  <1>13. st.handle[q] # None
    BY <1>0, <1>1 DEF Handled, Linked
  <1>14. Telling(r, q, Z, X, L, I)
    BY <1>0, <1>10, <1>11, <1>12, <1>13 DEF Telling
  <1>15. Kept(st, r, Z)
    <2>1. \A z \in Z : z \in Container /\ z # q /\ z # c
      BY <1>12 DEF Telling, Clear
    <2> QED  BY <1>10, <1>11, <2>1 DEF Kept
  <1> QED  BY <1>1, <1>2, <1>3, <1>10, <1>14, <1>15 DEF r

\* A walk from child to parent, and the children that were set on the way.
SetCalls == [parent : Container, at : Nat \cup Key, value : Child]

Walks == [st : States, child : Container \cup {None}, sets : Seq(SetCalls)]

\* The walk w ends in n.
Ends(w, n, Z, X, L, I) ==
    n \in Walks /\ n.child = None /\ n.sets = w.sets /\ Told(w.st, n.st, Z, X, L, I)

\* The walk w goes on in n.
GoesOn(w, n, Z, X, L, I) ==
    LET k == Contents(w.st) IN
      /\ n \in Walks /\ n.child \in Container
      /\ Telling(n.st, n.child, Z, X, L, I) /\ Kept(w.st, n.st, Z) /\ n.st.handle = w.st.handle
      /\ w.child \in Under(k, n.child)
      /\ \E call \in SetCalls :
            /\ n.sets = Append(w.sets, call) /\ call.parent = n.child
            /\ Place(k, call.parent, call.at, w.child)
            /\ call.value = Elems(k, call.parent)[call.at] /\ call.value.id = w.child

\* It does one of the two at each step.
LEMMA StepIs ==
    ASSUME NEW w \in Walks, NEW Z, NEW X, NEW L, NEW I, Telling(w.st, w.child, Z, X, L, I)
    PROVE  Ends(w, notifyStep(w), Z, X, L, I) \/ GoesOn(w, notifyStep(w), Z, X, L, I)
  <1>0. w.st \in States /\ w.child \in Container \cup {None} /\ w.sets \in Seq(SetCalls)
    BY DEF Walks
  <1> DEFINE st == w.st
             c  == w.child
             u  == st.handle[c].updater
             q  == u.parent
             at == UpdaterPosition(st, c)
             k  == Contents(st)
             n  == notifyStep(w)
             stays == ~ st.slab[c].inlined
                        /\ ~ Inlinable(st.slab[c], MaxInlineSize[st.slab[q].kind] - u.wrap)
             End(x) == [w EXCEPT !.st = x, !.child = None]
  <1>1. c \in Container /\ c # None /\ st.failed = FALSE
    <2>1. c \in Container
      BY TellingIs
    <2>2. st.failed = FALSE
      BY <1>0, StateIs
    <2> QED  BY <2>1, <2>2, NoneIsNot
  <1>2. ASSUME NEW r, Told(st, r, Z, X, L, I), n = End(r) PROVE Ends(w, n, Z, X, L, I)
    <2>1. r \in States
      BY <1>2 DEF Told, Sound
    <2>2. End(r) \in Walks /\ End(r).child = None /\ End(r).sets = w.sets /\ End(r).st = r
      BY <2>1 DEF Walks
    <2> QED  BY <1>2, <2>2 DEF Ends
  <1>3. CASE u = None
    <2>1. n = End(st)
      BY <1>1, <1>3 DEF notifyStep
    <2>2. Told(st, st, Z, X, L, I)
      BY <1>3, NoneToTell
    <2> QED  BY <1>2, <2>1, <2>2
  <1>4. CASE u # None /\ stays
    <2>1. n = End(st)
      BY <1>1, <1>4 DEF notifyStep
    <2>2. Told(st, st, Z, X, L, I)
      BY <1>4, NoneToTell
    <2> QED  BY <1>2, <2>1, <2>2
  <1>5. CASE u # None /\ ~ stays
    <2>1. Finds(st, c)
      BY <1>5, UpdaterFinds
    <2>2. /\ q \in Container /\ st.slab[q] # None
          /\ \A p \in Container : \A x \in DOMAIN Elems(k, p) : Place(k, p, x, c) =>
                 p = q /\ x = at /\ at # None /\ u.wrap = Elems(k, q)[x].wrap
          /\ at # None => /\ at \in DOMAIN st.slab[q].elems
                          /\ Holds(st, q, at, c) <=> Place(k, q, at, c)
      BY <2>1 DEF Finds
    <2>3. CASE at = None \/ ~ Holds(st, q, at, c)
      <3>1. \A p \in Container : c \notin Kids(k, p)
        <4> SUFFICES ASSUME NEW p \in Container, c \in Kids(k, p) PROVE FALSE
          OBVIOUS
        <4>1. PICK x \in DOMAIN Elems(k, p) : Place(k, p, x, c)
          BY <1>1, KidsAre
        <4> HIDE DEF at, q, k, u
        <4> QED  BY <2>2, <2>3, <4>1
      <3>2. Told(st, unsetUpdater(st, c), Z, X, L, I)
        BY <3>1, Forgets
      <3>3. n = End(unsetUpdater(st, c))
        BY <1>1, <1>5, <2>2, <2>3 DEF notifyStep
      <3> QED  BY <1>2, <3>2, <3>3
    <2>4. CASE at # None /\ Holds(st, q, at, c)
      <3> DEFINE value == [tag |-> "value", id |-> c, wrap |-> u.wrap]
                 call  == [parent |-> q, at |-> at, value |-> value]
                 r     == SlabSet(st, q, at, value)
      <3>1. Place(k, q, at, c)
        BY <2>2, <2>4
      <3>2. value = Elems(k, q)[at]
        <4>1. at \in DOMAIN Elems(k, q)
          BY <3>1 DEF Place
        <4>2. u.wrap = Elems(k, q)[at].wrap
          BY <2>2, <3>1, <4>1
        <4>3. k \in Programs
          BY <1>0, ContentsAre
        <4>4. Elems(k, q)[at] = [tag |-> "value", id |-> c, wrap |-> Elems(k, q)[at].wrap]
          <5>1. q \in Container
            BY <2>2
          <5> HIDE DEF k, q, u, at, c
          <5>2. \A x : Place(k, q, x, c) =>
                   Elems(k, q)[x] = [tag |-> "value", id |-> c, wrap |-> Elems(k, q)[x].wrap]
            BY <1>1, <4>3, <5>1, PlaceIs
          <5> QED  BY <3>1, <5>2
        <4> HIDE DEF k, q, u, at
        <4> QED  BY <4>2, <4>4
      <3>3. n = [st |-> r, child |-> q, sets |-> Append(w.sets, call)]
        BY <1>1, <1>5, <2>2, <2>4 DEF notifyStep
      <3> HIDE DEF value
      <3>4. /\ Telling(r, q, Z, X, L, I) /\ Kept(st, r, Z) /\ r.handle = st.handle
            /\ value \in Child /\ value.id = c
            /\ at \in Nat \cup Key /\ c \in Under(k, q)
        <4> HIDE DEF q, u, at, c, st
        <4> QED  BY <2>2, <3>1, <3>2, SetsAgain DEF st, c
      <3>5. r \in States
        BY <3>4, TellingIs
      <3>6. call \in SetCalls /\ call.parent = q /\ call.at = at /\ call.value = value
        BY <2>2, <3>4 DEF SetCalls
      <3> HIDE DEF call, r, n
      <3>7. Append(w.sets, call) \in Seq(SetCalls)
        BY <1>0, <3>6
      <3>8. n \in Walks /\ n.child = q /\ n.st = r /\ n.sets = Append(w.sets, call)
        BY <2>2, <3>3, <3>5, <3>7 DEF Walks
      <3>9. GoesOn(w, n, Z, X, L, I)
        BY <2>2, <3>1, <3>2, <3>4, <3>6, <3>8 DEF GoesOn
      <3> QED  BY <3>9 DEF n
    <2> QED  BY <2>3, <2>4
  <1> QED  BY <1>3, <1>4, <1>5

\* A function has all the steps of a walk.
IsWalk(f, st, c) ==
    f = [i \in 0..Cardinality(Container) |->
           IF i = 0 THEN [st |-> st, child |-> c, sets |-> <<>>] ELSE notifyStep(f[i-1])]

\* There is such a function.
LEMMA WalksExist ==
    ASSUME NEW st, NEW c
    PROVE  Cardinality(Container) \in Nat /\ \E f : IsWalk(f, st, c)
  <1> DEFINE start == [st |-> st, child |-> c, sets |-> <<>>]
             N == Cardinality(Container)
             Up(n) == \E f : /\ f = [i \in 0..n |-> f[i]]
                             /\ f[0] = start /\ \A i \in 1..n : f[i] = notifyStep(f[i-1])
             S == {n \in 0..N : Up(n)}
  <1>0. N \in Nat
    BY NestingAssumption, FS_CardinalityType
  <1> HIDE DEF start, N
  <1>1. 0 \in S
    <2> DEFINE z == [i \in 0..0 |-> start]
    <2>1. z = [i \in 0..0 |-> z[i]] /\ z[0] = start /\ 1..0 = {}
      OBVIOUS
    <2> HIDE DEF z
    <2>2. Up(0)
      BY <2>1
    <2> QED  BY <1>0, <2>2
  <1>2. ASSUME NEW n \in 0..N, n < N, n \in S PROVE n + 1 \in S
    <2>1. PICK f : f[0] = start /\ \A i \in 1..n : f[i] = notifyStep(f[i-1])
      BY <1>2
    <2> DEFINE m == n + 1
               g == [i \in 0..m |-> IF i = m THEN notifyStep(f[n]) ELSE f[i]]
    <2>2. n \in Nat /\ m \in 1..N /\ n \in 0..n /\ 0 \in 0..m /\ m - 1 = n /\ m \in 0..N
      BY <1>0, <1>2
    <2>3. g = [i \in 0..m |-> g[i]]
      OBVIOUS
    <2>4. \A i \in 0..m : g[i] = IF i = m THEN notifyStep(f[n]) ELSE f[i]
      OBVIOUS
    <2> HIDE DEF g
    <2>5. ASSUME NEW i \in 1..m PROVE g[i] = notifyStep(g[i-1])
      <3>1. i \in 0..m /\ i - 1 \in 0..m /\ i - 1 # m /\ (i # m => i \in 1..n)
        BY <2>2
      <3>2. CASE i = m
        BY <2>2, <2>4, <3>1, <3>2
      <3>3. CASE i # m
        BY <2>1, <2>4, <3>1, <3>3
      <3> QED  BY <3>2, <3>3
    <2>6. g[0] = start
      BY <2>1, <2>2, <2>4
    <2> HIDE DEF m
    <2>7. Up(m)
      BY <2>3, <2>5, <2>6
    <2> HIDE DEF Up
    <2>8. m \in S
      BY <2>2, <2>7
    <2> QED  BY <2>8 DEF m
  <1>3. N \in S
    <2> HIDE DEF S
    <2>1. \A i \in 0..N : i \in S
      BY <1>0, <1>1, <1>2, UpTo
    <2> QED  BY <1>0, <2>1
  <1>4. PICK f : f = [i \in 0..N |-> f[i]] /\ f[0] = start /\ \A i \in 1..N : f[i] = notifyStep(f[i-1])
    BY <1>3
  <1>5. \A i \in 0..N : f[i] = IF i = 0 THEN start ELSE notifyStep(f[i-1])
    <2> TAKE i \in 0..N
    <2>1. i = 0 \/ (i # 0 /\ i \in 1..N)
      BY <1>0
    <2> QED  BY <1>4, <2>1
  <1>6. f = [i \in 0..N |-> IF i = 0 THEN start ELSE notifyStep(f[i-1])]
    BY <1>4, <1>5, Zenon
  <1>7. IsWalk(f, st, c)
    BY <1>6 DEF IsWalk, N, start
  <1> QED  BY <1>0, <1>7 DEF N

\* Every step of a walk follows from the one before.
LEMMA WalkIs ==
    ASSUME NEW st, NEW c
    PROVE  /\ Cardinality(Container) \in Nat
           /\ notifyWalk(st, c)[0] = [st |-> st, child |-> c, sets |-> <<>>]
           /\ \A i \in 1..Cardinality(Container) :
                 notifyWalk(st, c)[i] = notifyStep(notifyWalk(st, c)[i-1])
  <1> DEFINE f == notifyWalk(st, c)
             N == Cardinality(Container)
  <1>1. IsWalk(f, st, c)
    <2>1. \E g : IsWalk(g, st, c)
      BY WalksExist
    <2> QED  BY <2>1, Zenon DEF notifyWalk, IsWalk
  <1>2. N \in Nat
    BY WalksExist
  <1> HIDE DEF f
  <1>3. f = [i \in 0..N |-> IF i = 0 THEN [st |-> st, child |-> c, sets |-> <<>>] ELSE notifyStep(f[i-1])]
    BY <1>1 DEF IsWalk
  <1> HIDE DEF N
  <1>4. \A i \in 0..N : f[i] = IF i = 0 THEN [st |-> st, child |-> c, sets |-> <<>>] ELSE notifyStep(f[i-1])
    BY <1>3
  <1> QED  BY <1>2, <1>4 DEF f, N

\* A call that was made sets a child where it is.
Done(k, h, call, L) ==
    /\ Place(k, call.parent, call.at, call.value.id) /\ call.value = Elems(k, call.parent)[call.at]
    /\ call.value.id \notin L /\ h[call.value.id] # None

\* After i steps, i containers are under the one that is next.
Walked(st, w, i, Z, X, L, I) ==
    /\ w \in Walks /\ Kept(st, w.st, Z) /\ Handled(Contents(st), w.st.handle, L, I)
    /\ \A j \in 1..Len(w.sets) : Done(Contents(st), st.handle, w.sets[j], L)
    /\ w.child = None => Sound(w.st, None, X)
    /\ w.child # None =>
          /\ Telling(w.st, w.child, Z, X, L, I)
          /\ \E U \in SUBSET Under(Contents(st), w.child) : Cardinality(U) = i

\* What is kept by each of two steps is kept by both.
LEMMA KeptKept ==
    ASSUME NEW st, NEW w, NEW r, NEW Z, Kept(st, w, Z), Kept(w, r, Z)
    PROVE  Kept(st, r, Z)
  BY DEF Kept

\* A step of a walk.
LEMMA WalkStep ==
    ASSUME NEW st, NEW w, NEW i \in Nat, NEW Z, NEW X, NEW L, NEW I, Walked(st, w, i, Z, X, L, I)
    PROVE  Walked(st, notifyStep(w), i + 1, Z, X, L, I)
  <1> DEFINE n == notifyStep(w)
             k == Contents(st)
  <1>0. /\ w \in Walks /\ Kept(st, w.st, Z) /\ Handled(k, w.st.handle, L, I)
        /\ \A j \in 1..Len(w.sets) : Done(k, st.handle, w.sets[j], L)
        /\ Contents(w.st) = k
    BY DEF Walked, Kept
  <1>1. CASE w.child = None
    <2>1. n = w
      BY <1>1 DEF notifyStep
    <2> QED  BY <1>1, <2>1 DEF Walked
  <1>2. CASE w.child # None
    <2>1. Telling(w.st, w.child, Z, X, L, I)
      BY <1>2 DEF Walked
    <2>2. PICK U \in SUBSET Under(k, w.child) : Cardinality(U) = i
      BY <1>2 DEF Walked
    <2>3. Ends(w, n, Z, X, L, I) \/ GoesOn(w, n, Z, X, L, I)
      BY <1>0, <2>1, StepIs
    <2> HIDE DEF n
    <2>4. CASE Ends(w, n, Z, X, L, I)
      <3>1. /\ n \in Walks /\ n.child = None /\ n.sets = w.sets
            /\ Sound(n.st, None, X) /\ Handled(Contents(n.st), n.st.handle, L, I)
            /\ Kept(w.st, n.st, Z)
        BY <2>4 DEF Ends, Told
      <3>2. Kept(st, n.st, Z)
        BY <1>0, <3>1, KeptKept
      <3>3. Contents(n.st) = k
        BY <3>2 DEF Kept
      <3> QED  BY <1>0, <3>1, <3>2, <3>3 DEF Walked, n
    <2>5. CASE GoesOn(w, n, Z, X, L, I)
      <3>1. /\ n \in Walks /\ n.child \in Container
            /\ Telling(n.st, n.child, Z, X, L, I) /\ Kept(w.st, n.st, Z) /\ n.st.handle = w.st.handle
            /\ w.child \in Under(k, n.child)
        BY <1>0, <2>5 DEF GoesOn
      <3>2. PICK call \in SetCalls :
              /\ n.sets = Append(w.sets, call) /\ call.parent = n.child
              /\ Place(k, call.parent, call.at, w.child)
              /\ call.value = Elems(k, call.parent)[call.at] /\ call.value.id = w.child
        BY <1>0, <2>5 DEF GoesOn
      <3>3. Kept(st, n.st, Z)
        BY <1>0, <3>1, KeptKept
      <3>4. /\ w.child \in Container /\ w.child \notin L /\ w.st.handle[w.child] # None
            /\ Nest(k)
        BY <1>0, <2>1, TellingIs
      <3>5. Done(k, st.handle, call, L)
        BY <1>0, <3>2, <3>4 DEF Done, Kept
      <3>6. \A j \in 1..Len(n.sets) : Done(k, st.handle, n.sets[j], L)
        <4>1. w.sets \in Seq(SetCalls)
          BY <1>0 DEF Walks
        <4>2. /\ Len(n.sets) = Len(w.sets) + 1 /\ Len(w.sets) \in Nat
              /\ n.sets[Len(w.sets) + 1] = call
              /\ \A j \in 1..Len(w.sets) : n.sets[j] = w.sets[j]
          BY <3>2, <4>1
        <4> TAKE j \in 1..Len(n.sets)
        <4>3. j \in 1..Len(w.sets) \/ j = Len(w.sets) + 1
          BY <4>2
        <4> HIDE DEF k
        <4> QED  BY <1>0, <3>5, <4>2, <4>3
      <3>7. \E V \in SUBSET Under(k, n.child) : Cardinality(V) = i + 1
        <4> DEFINE V == U \cup {w.child}
        <4>1. Under(k, w.child) \in SUBSET Container /\ Under(k, w.child) \subseteq Under(k, n.child)
              /\ w.child \notin Under(k, w.child)
          BY <3>1, <3>4, UnderIs DEF Nest, NoCycle
        <4>2. IsFiniteSet(U)
          BY <2>2, <4>1, NestingAssumption, FS_Subset
        <4>3. w.child \notin U
          BY <2>2, <4>1
        <4>4. Cardinality(V) = i + 1
          BY <2>2, <4>2, <4>3, FS_AddElement
        <4>5. V \in SUBSET Under(k, n.child)
          BY <2>2, <3>1, <4>1
        <4> QED  BY <4>4, <4>5
      <3>8. n.child # None /\ Handled(k, n.st.handle, L, I)
        BY <1>0, <3>1, NoneIsNot
      <3> QED  BY <3>1, <3>3, <3>6, <3>7, <3>8 DEF Walked, n
    <2> QED  BY <2>3, <2>4, <2>5
  <1> QED  BY <1>1, <1>2

\* A walk ends before it runs out of containers.
LEMMA WalkEnds ==
    ASSUME NEW st, NEW c, NEW Z, NEW X, NEW L, NEW I, Telling(st, c, Z, X, L, I)
    PROVE  LET end == notifyWalk(st, c)[Cardinality(Container)]
           IN /\ end \in Walks /\ end.child = None /\ Told(st, end.st, Z, X, L, I)
              /\ \A j \in 1..Len(end.sets) : Done(Contents(st), st.handle, end.sets[j], L)
  <1> DEFINE f == notifyWalk(st, c)
             N == Cardinality(Container)
             k == Contents(st)
             S == {i \in 0..N : Walked(st, f[i], i, Z, X, L, I)}
  <1>0. /\ c \in Container /\ c # None /\ st \in States /\ Handled(k, st.handle, L, I)
    BY TellingIs, NoneIsNot
  <1>1. /\ N \in Nat /\ f[0] = [st |-> st, child |-> c, sets |-> <<>>]
        /\ \A i \in 1..N : f[i] = notifyStep(f[i-1])
    BY WalkIs
  <1> HIDE DEF f, N
  <1>2. 0 \in S
    <2>1. f[0].st = st /\ f[0].child = c /\ f[0].sets = <<>>
      BY <1>1
    <2>2. f[0] \in Walks
      BY <1>0, <1>1 DEF Walks
    <2>3. Kept(st, st, Z)
      BY DEF Kept
    <2>4. {} \in SUBSET Under(k, c) /\ Cardinality({}) = 0
      BY FS_EmptySet
    <2>5. Walked(st, f[0], 0, Z, X, L, I)
      BY <1>0, <2>1, <2>2, <2>3, <2>4 DEF Walked
    <2> QED  BY <1>1, <2>5
  <1>3. ASSUME NEW i \in 0..N, i < N, i \in S PROVE i + 1 \in S
    <2>1. i \in Nat /\ i + 1 \in 1..N /\ i + 1 \in 0..N /\ (i + 1) - 1 = i
      BY <1>1, <1>3
    <2>2. Walked(st, f[i], i, Z, X, L, I)
      BY <1>3
    <2>3. Walked(st, notifyStep(f[i]), i + 1, Z, X, L, I)
      BY <2>1, <2>2, WalkStep
    <2>4. f[i + 1] = notifyStep(f[i])
      BY <1>1, <2>1
    <2> QED  BY <2>1, <2>3, <2>4
  <1>4. Walked(st, f[N], N, Z, X, L, I)
    <2>1. \A i \in 0..N : i \in S
      <3> HIDE DEF S
      <3> QED  BY <1>1, <1>2, <1>3, UpTo
    <2> QED  BY <1>1, <2>1
  <1>5. f[N].child = None
    <2> SUFFICES ASSUME f[N].child # None PROVE FALSE
      OBVIOUS
    <2> DEFINE d == f[N].child
    <2>1. d \in Container
      BY <1>4 DEF Walked, Walks
    <2>2. PICK U \in SUBSET Under(k, d) : Cardinality(U) = N
      BY <1>4 DEF Walked
    <2>3. Under(k, d) \in SUBSET Container /\ d \notin Under(k, d)
      <3>1. Nest(k)
        BY TellingIs
      <3> QED  BY <2>1, <3>1, UnderIs DEF Nest, NoCycle
    <2>4. U \subseteq Container \ {d}
      BY <2>2, <2>3
    <2>5. /\ IsFiniteSet(Container \ {d}) /\ Cardinality(Container \ {d}) = N - 1
      BY <2>1, NestingAssumption, FS_RemoveElement DEF N
    <2>6. Cardinality(U) <= N - 1
      BY <2>4, <2>5, FS_Subset
    <2> QED  BY <1>1, <2>2, <2>6
  <1>6. Told(st, f[N].st, Z, X, L, I)
    BY <1>4, <1>5 DEF Walked, Told, Kept
  <1> QED  BY <1>4, <1>5, <1>6 DEF Walked, f, N

\* A callback changes two handles.
LEMMA CallbackIs ==
    ASSUME NEW st \in States, NEW p \in Container, NEW c \in Container, NEW x,
           Place(Contents(st), p, x, c), p # c, st.handle[p] # None, st.handle[c] # None,
           NEW value, value = Elems(Contents(st), p)[x]
    PROVE  \E h2 \in Handles :
             /\ setCallbackWithChild(st, p, x, value) = Rehandled(st, h2)
             /\ \A d \in Container : d \notin {p, c} => h2[d] = st.handle[d]
             /\ h2[c] = [updater |-> [parent |-> p, wrap |-> Elems(Contents(st), p)[x].wrap,
                                      key |-> IF Contents(st)[p].kind = "array" THEN None ELSE x],
                         index |-> st.handle[c].index]
             /\ h2[p] = [updater |-> st.handle[p].updater,
                         index |-> IF Contents(st)[p].kind = "array"
                                     THEN With(st.handle[p].index, c, x) ELSE st.handle[p].index]
  <1> DEFINE k == Contents(st)
             h == st.handle
  <1>0. h \in Handles /\ k \in Programs /\ h[p] \in Handle /\ h[c] \in Handle
    BY StateIs, ContentsAre
  <1>1. /\ k[p] # None /\ k[p].kind \in Kind
        /\ k[p].kind = "array" => x \in Nat
        /\ k[p].kind = "map" => x \in Key
        /\ value \in Child /\ value = [tag |-> "value", id |-> c, wrap |-> value.wrap]
        /\ value.wrap \in Wraps
    BY <1>0, PlaceIs
  <1>2. value.tag = "value" /\ value.id = c
    BY <1>1
  <1>3. st.slab[p].kind = k[p].kind
    BY <1>1, ContentsAre, HeldIs
  <1>4. PICK a, b : /\ h[p] = [updater |-> a, index |-> b] /\ a \in Updater \cup {None}
                    /\ DOMAIN b \in SUBSET Container /\ b \in [DOMAIN b -> Nat]
    BY <1>0, HandleIs
  <1>5. PICK e, f : /\ h[c] = [updater |-> e, index |-> f] /\ e \in Updater \cup {None}
                    /\ DOMAIN f \in SUBSET Container /\ f \in [DOMAIN f -> Nat]
    BY <1>0, HandleIs
  <1> HIDE DEF h, k
  <1> DEFINE u  == [parent |-> p, key |-> IF k[p].kind = "array" THEN None ELSE x, wrap |-> value.wrap]
             j  == IF k[p].kind = "array" THEN With(b, c, x) ELSE b
             hc == [updater |-> u, index |-> f]
             hp == [updater |-> a, index |-> j]
             h2 == [h EXCEPT ![p] = hp, ![c] = hc]
  <1>6. u \in Updater
    <2>1. (IF k[p].kind = "array" THEN None ELSE x) \in Key \cup {None}
      BY <1>1 DEF Kind
    <2> QED  BY <1>1, <2>1 DEF Updater
  <1>7. DOMAIN j \in SUBSET Container /\ j \in [DOMAIN j -> Nat]
    <2>1. CASE k[p].kind = "array"
      <3>1. DOMAIN j = DOMAIN b \cup {c} /\ \A y \in DOMAIN j : j[y] \in Nat
        BY <1>1, <1>4, <2>1 DEF With
      <3>2. j = [y \in DOMAIN b \cup {c} |-> IF y = c THEN x ELSE b[y]]
        BY <2>1 DEF With
      <3> HIDE DEF j
      <3> QED  BY <1>4, <3>1, <3>2
    <2>2. CASE k[p].kind = "map"
      BY <1>4, <2>2
    <2> QED  BY <1>1, <2>1, <2>2 DEF Kind
  <1> HIDE DEF u, j
  <1>8. hc \in Handle /\ hp \in Handle
    BY <1>4, <1>5, <1>6, <1>7, IsHandle
  <1>9. /\ h2 \in Handles /\ h2[c] = hc /\ h2[p] = hp
        /\ \A d \in Container : d \notin {p, c} => h2[d] = h[d]
    <2> HIDE DEF hc, hp
    <2> QED  BY <1>0, <1>8 DEF Handles
  <1>10. setCallbackWithChild(st, p, x, value) = Rehandled(st, h2)
    <2>1. CASE k[p].kind = "array"
      <3>1. setCallbackWithChild(st, p, x, value) = setCallbackInArray(st, p, x, value)
        BY <1>2, <1>3, <2>1 DEF setCallbackWithChild
      <3>2. [h[p] EXCEPT !.index = With(@, c, x)] = hp
        BY <1>4, <2>1 DEF j
      <3>3. [h[c] EXCEPT !.updater = [parent |-> p, key |-> None, wrap |-> value.wrap]] = hc
        BY <1>5, <2>1 DEF u
      <3>4. [[h EXCEPT ![p].index = With(@, c, x)] EXCEPT ![c].updater = [parent |-> p, key |-> None, wrap |-> value.wrap]]
              = h2
        BY <1>0, <3>2, <3>3 DEF Handles
      <3>5. setCallbackInArray(st, p, x, value)
              = [st EXCEPT !.handle = [[st.handle EXCEPT ![p].index = With(@, c, x)] EXCEPT
                                         ![c].updater = [parent |-> p, key |-> None,
                                                         wrap |-> value.wrap]]]
        BY <1>2 DEF setCallbackInArray
      <3> QED  BY <3>1, <3>4, <3>5 DEF Rehandled, h
    <2>2. CASE k[p].kind = "map"
      <3>1. setCallbackWithChild(st, p, x, value) = setCallbackInMap(st, p, x, value)
        BY <1>2, <1>3, <2>2 DEF setCallbackWithChild
      <3>2. hp = h[p]
        BY <1>4, <2>2 DEF j
      <3>3. [h[c] EXCEPT !.updater = [parent |-> p, key |-> x, wrap |-> value.wrap]] = hc
        BY <1>5, <2>2 DEF u
      <3>4. [h EXCEPT ![c].updater = [parent |-> p, key |-> x, wrap |-> value.wrap]] = h2
        BY <1>0, <3>2, <3>3 DEF Handles
      <3> QED  BY <1>2, <3>1, <3>4 DEF setCallbackInMap, Rehandled, h
    <2> QED  BY <1>1, <2>1, <2>2 DEF Kind
  <1>11. u = [parent |-> p, wrap |-> value.wrap, key |-> IF k[p].kind = "array" THEN None ELSE x]
    BY DEF u
  <1>12. h[p].updater = a /\ h[p].index = b /\ h[c].index = f
    BY <1>4, <1>5
  <1> HIDE DEF h2
  <1>13. /\ h2[c] = [updater |-> [parent |-> p, wrap |-> Elems(k, p)[x].wrap,
                                  key |-> IF k[p].kind = "array" THEN None ELSE x],
                     index |-> h[c].index]
         /\ h2[p] = [updater |-> h[p].updater,
                     index |-> IF k[p].kind = "array" THEN With(h[p].index, c, x) ELSE h[p].index]
    BY <1>9, <1>11, <1>12 DEF j, k
  <1> QED  BY <1>9, <1>10, <1>13 DEF k, h

\* The callback of a child that is linked to its place is set up already.
LEMMA CallbackKeeps ==
    ASSUME NEW st \in States, NEW L, NEW I, Nest(Contents(st)),
           Handled(Contents(st), st.handle, L, I),
           NEW call \in SetCalls, Done(Contents(st), st.handle, call, L)
    PROVE  setCallbackWithChild(st, call.parent, call.at, call.value) = st
  <1> DEFINE k == Contents(st)
             h == st.handle
  <1>1. PICK p, x, c : /\ p = call.parent /\ x = call.at /\ c = call.value.id
                       /\ p \in Container /\ c \in Container
    BY DEF SetCalls, Child
  <1>2. Place(k, p, x, c) /\ call.value = Elems(k, p)[x] /\ c \notin L /\ h[c] # None
    BY <1>1 DEF Done
  <1>3. k \in Programs /\ h \in Handles
    BY DEF Nest, Handled
  <1>4. p # c
    BY <1>1, <1>2, KidsAre, UnderIs DEF Nest, NoCycle
  <1>5. /\ h[p] # None
        /\ h[c].updater = [parent |-> p, wrap |-> Elems(k, p)[x].wrap,
                           key |-> IF k[p].kind = "array" THEN None ELSE x]
        /\ k[p].kind = "array" => c \in DOMAIN h[p].index /\ h[p].index[c] = x
    <2>1. x \in DOMAIN Elems(k, p)
      BY <1>2 DEF Place
    <2> QED  BY <1>1, <1>2, <2>1 DEF Handled, Linked
  <1>6. PICK h2 \in Handles :
             /\ setCallbackWithChild(st, p, x, call.value) = Rehandled(st, h2)
             /\ \A d \in Container : d \notin {p, c} => h2[d] = h[d]
             /\ h2[c] = [updater |-> [parent |-> p, wrap |-> Elems(k, p)[x].wrap,
                                      key |-> IF k[p].kind = "array" THEN None ELSE x],
                         index |-> h[c].index]
             /\ h2[p] = [updater |-> h[p].updater,
                         index |-> IF k[p].kind = "array"
                                     THEN With(h[p].index, c, x) ELSE h[p].index]
    <2>1. PICK value : value = call.value
      OBVIOUS
    <2>2. value = Elems(Contents(st), p)[x] /\ Place(Contents(st), p, x, c)
          /\ st.handle[p] # None /\ st.handle[c] # None
      BY <1>2, <1>5, <2>1
    <2>3. \E h2 \in Handles :
             /\ setCallbackWithChild(st, p, x, value) = Rehandled(st, h2)
             /\ \A d \in Container : d \notin {p, c} => h2[d] = st.handle[d]
             /\ h2[c] = [updater |-> [parent |-> p, wrap |-> Elems(Contents(st), p)[x].wrap,
                                      key |-> IF Contents(st)[p].kind = "array" THEN None ELSE x],
                         index |-> st.handle[c].index]
             /\ h2[p] = [updater |-> st.handle[p].updater,
                         index |-> IF Contents(st)[p].kind = "array"
                                     THEN With(st.handle[p].index, c, x) ELSE st.handle[p].index]
      BY <1>1, <1>4, <2>2, CallbackIs
    <2> QED  BY <2>1, <2>3
  <1>7. h[c] \in Handle /\ h[p] \in Handle
    BY <1>1, <1>2, <1>3, <1>5 DEF Handles
  <1> HIDE DEF h, k
  <1>8. h2[c] = h[c]
    BY <1>5, <1>6, <1>7, HandleIs
  <1>9. (IF k[p].kind = "array" THEN With(h[p].index, c, x) ELSE h[p].index) = h[p].index
    <2> SUFFICES ASSUME k[p].kind = "array" PROVE With(h[p].index, c, x) = h[p].index
      OBVIOUS
    <2>1. h[p].index = [y \in DOMAIN h[p].index |-> h[p].index[y]]
      BY <1>7, HandleIs
    <2>2. DOMAIN h[p].index \cup {c} = DOMAIN h[p].index /\ h[p].index[c] = x
      BY <1>5
    <2>3. With(h[p].index, c, x) = [y \in DOMAIN h[p].index |-> IF y = c THEN x ELSE h[p].index[y]]
      BY <2>2 DEF With
    <2> QED  BY <2>1, <2>2, <2>3
  <1>10. h2[p] = h[p]
    BY <1>6, <1>7, <1>9, HandleIs
  <1>11. h2 = h
    <2>1. \A d \in Container : h2[d] = h[d]
      BY <1>6, <1>8, <1>10
    <2> QED  BY <1>3, <1>6, <2>1 DEF Handles
  <1>12. Rehandled(st, h) = st
    BY DEF Rehandled, States, h
  <1> QED  BY <1>1, <1>6, <1>11, <1>12

\* So are those of all children that were set on the way.
LEMMA CallbacksKeep ==
    ASSUME NEW st \in States, NEW L, NEW I, Nest(Contents(st)),
           Handled(Contents(st), st.handle, L, I), NEW sets \in Seq(SetCalls),
           \A j \in 1..Len(sets) : Done(Contents(st), st.handle, sets[j], L)
    PROVE  setCallbacks(st, sets) = st
  <1> DEFINE n == Len(sets)
             One(y, i) == Then(y, LAMBDA z : setCallbackWithChild(z, sets[n + 1 - i].parent,
                                       sets[n + 1 - i].at, sets[n + 1 - i].value))
             Is(f) == f = [i \in 0..n |-> IF i = 0 THEN st ELSE One(f[i-1], i)]
             a == CHOOSE f : Is(f)
  <1>1. n \in Nat
    OBVIOUS
  <1>2. ASSUME NEW i \in 1..n PROVE One(st, i) = st
    <2>1. n + 1 - i \in 1..n
      BY <1>1
    <2>2. setCallbackWithChild(st, sets[n + 1 - i].parent, sets[n + 1 - i].at, sets[n + 1 - i].value) = st
      <3>1. PICK call \in SetCalls : call = sets[n + 1 - i]
        BY <2>1
      <3>2. Done(Contents(st), st.handle, call, L)
        BY <2>1, <3>1
      <3> QED  BY <3>1, <3>2, CallbackKeeps
    <2> QED  BY <2>2 DEF Then
  <1>3. setCallbacks(st, sets) = a[n]
    BY DEF setCallbacks
  <1> HIDE DEF One
  <1>4. Is(a)
    <2> DEFINE z == [i \in 0..n |-> st]
    <2>1. \A i \in 0..n : (IF i = 0 THEN st ELSE One(z[i-1], i)) = st
      <3> TAKE i \in 0..n
      <3>1. CASE i = 0
        BY <3>1
      <3>2. CASE i # 0
        <4>1. i \in 1..n /\ i - 1 \in 0..n
          BY <1>1, <3>2
        <4>2. z[i-1] = st
          BY <4>1
        <4> QED  BY <1>2, <3>2, <4>1, <4>2
      <3> QED  BY <3>1, <3>2
    <2>2. Is(z)
      BY <2>1
    <2> HIDE DEF z, Is
    <2> QED  BY <2>2
  <1> HIDE DEF a
  <1> DEFINE S == {i \in 0..n : a[i] = st}
  <1>5. 0 \in S
    BY <1>1, <1>4
  <1>6. ASSUME NEW i \in 0..n, i < n, i \in S PROVE i + 1 \in S
    <2>1. i + 1 \in 1..n /\ i + 1 \in 0..n /\ i + 1 # 0 /\ (i + 1) - 1 = i
      BY <1>1, <1>6
    <2>2. a[i + 1] = One(a[i], i + 1)
      BY <1>4, <2>1
    <2>3. a[i + 1] = st
      BY <1>2, <1>6, <2>1, <2>2
    <2> QED  BY <2>1, <2>3
  <1>7. \A i \in 0..n : i \in S
    <2> HIDE DEF S
    <2> QED  BY <1>1, <1>5, <1>6, UpTo
  <1> QED  BY <1>1, <1>3, <1>7

\* notifyParentIfNeeded tells all parents that have to be told.
LEMMA Notify ==
    ASSUME NEW st, NEW c, NEW Z, NEW X, NEW L, NEW I, Telling(st, c, Z, X, L, I)
    PROVE  Told(st, notifyParentIfNeeded(st, c), Z, X, L, I)
  <1>1. PICK end : /\ end = notifyWalk(st, c)[Cardinality(Container)]
                   /\ end \in Walks /\ Told(st, end.st, Z, X, L, I)
                   /\ \A j \in 1..Len(end.sets) : Done(Contents(st), st.handle, end.sets[j], L)
    BY WalkEnds
  <1>2. /\ end.st \in States /\ Nest(Contents(end.st)) /\ end.sets \in Seq(SetCalls)
        /\ Handled(Contents(end.st), end.st.handle, L, I)
    BY <1>1 DEF Walks, Told, Sound
  <1>3. ASSUME NEW j \in 1..Len(end.sets)
        PROVE  Done(Contents(end.st), end.st.handle, end.sets[j], L)
    <2>1. end.sets[j] \in SetCalls /\ end.sets[j].value.id \in Container
      <3>1. end.sets[j] \in SetCalls
        BY <1>2
      <3> QED  BY <3>1 DEF SetCalls, Child
    <2> QED  BY <1>1, <2>1 DEF Done, Told, Kept
  <1>4. setCallbacks(end.st, end.sets) = end.st
    BY <1>2, <1>3, CallbacksKeep
  <1> QED  BY <1>1, <1>4 DEF notifyParentIfNeeded

=============================================================================
