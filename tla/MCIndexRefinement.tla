------------------------- MODULE MCIndexRefinement -------------------------
(* TLC instance of the refinement: the third message is long.              *)
EXTENDS IndexRefinement

MCTokens == [m \in Message |-> IF m = 3 THEN 4 ELSE 1]
=============================================================================
