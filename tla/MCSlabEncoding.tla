--------------------------- MODULE MCSlabEncoding ---------------------------
(* Two seeds that order two keys one way and the other, and one under      *)
(* which they collide at both levels.  A third key keeps a map from being  *)
(* written as a compact one.                                               *)
EXTENDS SlabEncoding

MCDigests == <<<<<<1, 1>>, <<2, 1>>, <<3, 1>>>>,
               <<<<2, 1>>, <<1, 1>>, <<3, 1>>>>,
               <<<<1, 1>>, <<1, 1>>, <<2, 1>>>>>>
=============================================================================
