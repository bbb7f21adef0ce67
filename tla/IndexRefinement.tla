-------------------------- MODULE IndexRefinement --------------------------
(***************************************************************************)
(* IndexWorker as an implementation of IndexLog: the parts of the log are   *)
(* the chunks in the order of their indices, the completed messages those   *)
(* whose outbox row is done.                                               *)
(***************************************************************************)
EXTENDS IndexWorker

ByIndex(i) == CHOOSE f \in Chunked : chunks[f].index = i
Parts == [i \in 1..Cardinality(Chunked) |-> chunks[ByIndex(i - 1)].ids]

Log == INSTANCE IndexLog WITH parts <- Parts, done <- InOutbox("done")

(* While the model service answers and the seed build precedes live         *)
(* traffic, crashes and failed transactions at any step leave an index that *)
(* holds every message once and in order, completed atomically with its     *)
(* event, and every stored message gets there.                             *)
ImplementsIndexLog == Log!Spec
=============================================================================
