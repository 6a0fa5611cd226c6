------------------------ MODULE MCNestedContainers --------------------------
(* Small instances of NestedContainers.  A child with one plain element    *)
(* fits into its parent, but not in a wrapper; one with two does not fit.  *)
EXTENDS NestedContainers, TLC

MCRootPrefixSize    == [array |-> 1, map |-> 1]
MCInlinedPrefixSize == [array |-> 2, map |-> 2]
MCMaxInlineSize     == [array |-> 6, map |-> 6]
MCWrapperSizes      == [array |-> {0, 1}, map |-> {1}]

MCSymmetry == Permutations(Container) \cup Permutations(Key) \cup Permutations(Types)
=============================================================================
