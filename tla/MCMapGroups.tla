----------------------------- MODULE MCMapGroups ----------------------------
(* Keys with colliding digests for small instances of MapTree.             *)
EXTENDS MapIterators

\* Six keys collide at the first level, three of them at the last one too:
\* four digests at the second level, one more than the limit lets in.
GroupDigests ==
    <<<<1, 1>>, <<1, 1>>, <<1, 1>>, <<1, 0>>, <<1, 2>>, <<1, 3>>, <<2, 1>>, <<0, 1>>>>

\* All keys but one collide at both levels.
BothLevelDigests == <<<<1, 1>>, <<1, 1>>, <<1, 1>>, <<1, 1>>, <<2, 1>>>>
=============================================================================
