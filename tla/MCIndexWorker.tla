--------------------------- MODULE MCIndexWorker ---------------------------
(* TLC instances of IndexWorker.                                           *)
EXTENDS IndexWorker

\* The third message is long: it fills a chunk on its own.
MCTokens == [m \in Message |-> IF m = 3 THEN 4 ELSE 1]
=============================================================================
