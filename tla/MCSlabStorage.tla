--------------------------- MODULE MCSlabStorage ----------------------------
(* Small instances of SlabStorage: one account besides the temporary       *)
(* address.                                                                *)
EXTENDS SlabStorage, TLC

MCAddress  == {TempAddress, 1}
MCMaxIndex == TempAddress :> 1 @@ 1 :> 2

ObjectSymmetry == Permutations(Objects)
=============================================================================
