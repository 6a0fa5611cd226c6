------------------------- MODULE MCParallelPreload --------------------------
(* A small instance of ParallelPreload: three account slabs.               *)
EXTENDS ParallelPreload, TLC

MCAddress  == {TempAddress, 1}
MCMaxIndex == TempAddress :> 0 @@ 1 :> 3
=============================================================================
