------------------------------- MODULE Nesting ------------------------------
(***************************************************************************)
(* What arrays and maps promise to a program that puts them into one       *)
(* another (array.go, map.go): a call changes the container it is made on, *)
(* a container that is changed through its own handle is changed wherever  *)
(* it is nested, and one that is overwritten or removed lives on by        *)
(* itself.  Where a container is stored is not visible.                    *)
(***************************************************************************)
EXTENDS Integers, Sequences, SequencesExt

CONSTANTS Container,  \* value IDs
          Key,        \* keys of maps
          Values,     \* elements: plain values and containers
          Types,      \* type infos
          None        \* a container that does not exist

VARIABLE contents  \* Container -> [kind, type, elems] or None

\* The calls, as relations of what a container holds before and after.
Elements(old, new, elems) == new = [old EXCEPT !.elems = elems]

New(old, new) ==
    old = None /\ new \in [kind : {"array", "map"}, type : Types, elems : {<<>>}]

Set(old, new) ==
    \E at \in IF old.kind = "array" THEN DOMAIN old.elems ELSE Key :
        /\ at \in DOMAIN new.elems /\ new.elems[at] \in Values
        /\ Elements(old, new, [x \in DOMAIN old.elems \cup {at} |->
                                 IF x = at THEN new.elems[at] ELSE old.elems[x]])

Insert(old, new) ==
    /\ old.kind = "array"
    /\ \E at \in DOMAIN new.elems :
          /\ new.elems[at] \in Values /\ at <= Len(old.elems) + 1
          /\ Elements(old, new, InsertAt(old.elems, at, new.elems[at]))

RemoveOne(old, new) ==
    \E at \in DOMAIN old.elems :
        Elements(old, new, IF old.kind = "array"
                             THEN RemoveAt(old.elems, at)
                             ELSE [x \in DOMAIN old.elems \ {at} |-> old.elems[x]])

SetType(old, new) ==
    \E type \in Types : new = [old EXCEPT !.type = type]

\* Popped elements are handed to the program, which may let go of any of them.
PopIterate(c) ==
    /\ contents[c] # None
    /\ contents'[c] = [contents[c] EXCEPT !.elems = <<>>]
    /\ \A d \in Container \ {c} : contents'[d] \in {None, contents[d]}

Init == contents = [c \in Container |-> None]

Change(c) ==
    LET old == contents[c]
        new == contents'[c]
    IN /\ \A d \in Container \ {c} : contents'[d] = contents[d]
       /\ \/ New(old, new)
          \/ /\ None \notin {old, new}
             /\ Set(old, new) \/ Insert(old, new) \/ RemoveOne(old, new) \/ SetType(old, new)

Next == \E c \in Container : Change(c) \/ PopIterate(c)

Spec == Init /\ [][Next]_contents
=============================================================================
