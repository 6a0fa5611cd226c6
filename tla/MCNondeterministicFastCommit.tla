-------------------- MODULE MCNondeterministicFastCommit --------------------
(* A small instance of NondeterministicFastCommit: three account slabs and *)
(* one temporary slab.                                                     *)
EXTENDS NondeterministicFastCommit, TLC

MCAddress  == {TempAddress, 1}
MCMaxIndex == TempAddress :> 1 @@ 1 :> 3
=============================================================================
