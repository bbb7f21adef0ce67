------------------------------ MODULE IndexLog ------------------------------
(***************************************************************************)
(* What the indexing pipeline promises while the model service answers:    *)
(* the stored messages are indexed once each, in feed order, a live one's  *)
(* event is completed in the very step that indexes it, and what has       *)
(* become searchable never changes again.  The log of what is indexed is   *)
(* cut into parts, of which only the last one grows.                       *)
(***************************************************************************)
EXTENDS Integers, Sequences

CONSTANTS
  Seeded,    \* number of canonical messages
  MaxSent    \* bound: messages ever stored

VARIABLES
  sent,      \* messages 1..sent are stored
  parts,     \* the indexed messages, part by part in the order of indexing
  done       \* live messages whose event is completed

vars == <<sent, parts, done>>

\* How many are indexed: the last message of the last part.
LastOf(s) == s[Len(s)]
Indexed == IF parts = <<>> THEN 0 ELSE LastOf(LastOf(parts))

Init ==
  /\ sent = Seeded
  /\ parts = <<>> /\ done = {}

Store ==
  /\ sent < MaxSent
  /\ sent' = sent + 1
  /\ UNCHANGED <<parts, done>>

\* The next message joins the last part, or begins one and the former last
\* part is frozen.
Join(m)  == parts # <<>> /\ parts' = [parts EXCEPT ![Len(parts)] = Append(@, m)]
Begin(m) == parts' = Append(parts, <<m>>)
Index ==
  /\ Indexed < sent
  /\ LET m == Indexed + 1
     IN  /\ Join(m) \/ Begin(m)
         /\ done' = IF m > Seeded THEN done \cup {m} ELSE done
  /\ UNCHANGED sent

Next == Store \/ Index

Safety == Init /\ [][Next]_vars
Spec == Safety /\ WF_vars(Index)
=============================================================================
