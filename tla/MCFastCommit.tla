--------------------------- MODULE MCFastCommit -----------------------------
(* A small instance of FastCommit: one account besides the temporary       *)
(* address.                                                                *)
EXTENDS FastCommit, TLC

MCAddress  == {TempAddress, 1}
MCMaxIndex == TempAddress :> 0 @@ 1 :> 2
=============================================================================
