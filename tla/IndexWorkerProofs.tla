------------------------- MODULE IndexWorkerProofs -------------------------
(***************************************************************************)
(* Theorems about IndexWorker, for every number of messages, every limit,  *)
(* every set of fault kinds and every bound.                               *)
(***************************************************************************)
EXTENDS IndexRefinement, FiniteSetTheorems, TLAPS

(* What the worker has in hand.  Between messages it has nothing; while it  *)
(* serves, the message it works on is a live one whose row is processing.   *)
InHand ==
  /\ mode = "down" => pc = "idle"
  /\ pc \in Busy => msg \in Message
  /\ pc \in Busy /\ mode = "serving" =>
       msg \in Live /\ outbox[msg].status = "processing"

(* The chunk that was read is the open chunk of the table until the worker  *)
(* writes: nothing but the worker's own transactions touches the chunks.    *)
SnapCurrent ==
  /\ pc \in Busy \ {"open"} =>
       \/ snap = NoChunk /\ OpenFirsts = {}
       \/ snap.first \in OpenFirsts /\ snap.row = chunks[snap.first]
  /\ pc \in {"embed", "fresh", "close"} => snap # NoChunk

SingleOpen == \A f, g \in OpenFirsts : f = g

(* The outbox rows: a row exists exactly for the stored messages, and the   *)
(* attempts of a row that is not settled leave room for the next claim.     *)
OutboxRows ==
  \A m \in Live :
    /\ outbox[m].status = "unsent" <=> m > sent
    /\ outbox[m].status \in {"pending", "unsent"} => outbox[m].attempts < MaxAttempts
    /\ outbox[m].status = "processing" => outbox[m].attempts <= MaxAttempts
    /\ outbox[m].status = "done" => outbox[m].attempts <= MaxAttempts
    /\ outbox[m].status = "dead_letter" => outbox[m].attempts = MaxAttempts

IInv ==
  /\ TypeOK
  /\ InHand
  /\ SnapCurrent
  /\ SingleOpen
  /\ OutboxRows
  /\ SingleProcessing
  /\ ClosedIffEmbedded

-----------------------------------------------------------------------------
(* Facts about the constant-level rows, stated once.                        *)

LEMMA RowTypes ==
  /\ NoRow \in Row /\ NoEvent \in Event
  /\ NoChunk \in [first : Message \cup {0}, row : Row]
  /\ NoAsm \in Assembled
  /\ Live \subseteq Message
  /\ 0 \notin Message
  /\ "idle" \notin Busy
BY ConstantsAssumption
   DEF NoRow, NoEvent, NoChunk, NoAsm, Row, Event, Assembled, Live, Message, Busy

(* Assembling a message with a chunk yields a well-typed candidate.         *)
LEMMA AssembleType ==
  ASSUME NEW open \in [first : Message \cup {0}, row : Row], NEW m \in Message
  PROVE  Assemble(open, m) \in Assembled
BY ConstantsAssumption DEF Assemble, Assembled, Row

(* The row a transaction writes for the open chunk is well typed.           *)
LEMMA OpenRowType ==
  ASSUME asm \in Assembled, msg \in Message, NEW i \in Nat
  PROVE  /\ OpenRow(i) \in Row
         /\ OpenRow(i).status = "open"
BY DEF OpenRow, Assembled, Row, Message

LEMMA InitIInv == Init => IInv
<1> SUFFICES ASSUME Init PROVE IInv
  OBVIOUS
<1> USE RowTypes DEF Init
<1>1. TypeOK
  BY ConstantsAssumption DEF TypeOK
<1>2. InHand
  BY DEF InHand
<1>3. SnapCurrent
  BY DEF SnapCurrent, Busy
<1>4. SingleOpen
  BY DEF SingleOpen, OpenFirsts, NoRow
<1>5. OutboxRows
  BY ConstantsAssumption DEF OutboxRows, NoEvent, Live
<1>6. SingleProcessing
  BY DEF SingleProcessing, InOutbox, NoEvent
<1>7. ClosedIffEmbedded
  BY DEF ClosedIffEmbedded, NoRow
<1> QED
  BY <1>1, <1>2, <1>3, <1>4, <1>5, <1>6, <1>7 DEF IInv
(* Rewriting one outbox row keeps OutboxRows if the new row satisfies it.    *)
LEMMA OneRowStep ==
  ASSUME TypeOK, OutboxRows, sent' = sent, NEW m \in Live,
         \A n \in Live \ {m} : outbox'[n] = outbox[n],
         outbox[m].status # "unsent", outbox'[m].status # "unsent",
         outbox'[m].status = "pending" => outbox'[m].attempts < MaxAttempts,
         outbox'[m].status \in {"processing", "done"} => outbox'[m].attempts <= MaxAttempts,
         outbox'[m].status = "dead_letter" => outbox'[m].attempts = MaxAttempts
  PROVE  OutboxRows'
BY DEF OutboxRows

(* A send adds one pending row and touches nothing of the worker's. *)
LEMMA SendKeeps ==
  ASSUME IInv, Send
  PROVE  IInv'
<1> USE ConstantsAssumption, RowTypes DEF IInv, Send, worker, Event
<1>1. TypeOK'
  BY DEF TypeOK, Busy, Live, Message
<1>2. InHand'
  BY DEF InHand, TypeOK, OutboxRows, Live, Busy
<1>3. SnapCurrent'
  BY DEF SnapCurrent, OpenFirsts, TypeOK
<1>4. SingleOpen'
  BY DEF SingleOpen, OpenFirsts, TypeOK
<1>5. OutboxRows'
  BY SMTT(30) DEF OutboxRows, TypeOK, Live, Message
<1>6. SingleProcessing'
  BY DEF SingleProcessing, InOutbox, TypeOK, Live
<1>7. ClosedIffEmbedded'
  BY DEF ClosedIffEmbedded, TypeOK
<1> QED
  BY <1>1, <1>2, <1>3, <1>4, <1>5, <1>6, <1>7 DEF IInv

(* A backoff changes no status and no attempt count. *)
LEMMA BackoffKeeps ==
  ASSUME IInv, NEW m \in Live, BackoffElapses(m)
  PROVE  IInv'
<1> USE ConstantsAssumption, RowTypes DEF IInv, BackoffElapses, worker, Event
<1>1. TypeOK'
  BY DEF TypeOK, Busy, Live, Message
<1>2. InHand'
  BY DEF InHand, TypeOK
<1>3. SnapCurrent'
  BY DEF SnapCurrent, OpenFirsts, TypeOK
<1>4. SingleOpen'
  BY DEF SingleOpen, OpenFirsts, TypeOK
<1>5. OutboxRows'
  BY SMTT(30) DEF OutboxRows, TypeOK, Live, Message
<1>6. SingleProcessing'
  BY SMTT(30) DEF SingleProcessing, InOutbox, TypeOK
<1>7. ClosedIffEmbedded'
  BY DEF ClosedIffEmbedded, TypeOK
<1> QED
  BY <1>1, <1>2, <1>3, <1>4, <1>5, <1>6, <1>7 DEF IInv

(* A start finds nothing in hand and loads stored messages only. *)
LEMMA StartKeeps ==
  ASSUME IInv, NEW build \in BOOLEAN, Start(build)
  PROVE  IInv'
<1> USE ConstantsAssumption, RowTypes DEF IInv, Start, store, SeedIndexMessages
<1>1. TypeOK'
  BY DEF TypeOK, Busy, Live, Message
<1>2. InHand'
  BY DEF InHand, TypeOK
<1>3. SnapCurrent'
  BY DEF SnapCurrent, OpenFirsts, TypeOK
<1>4. SingleOpen'
  BY DEF SingleOpen, OpenFirsts, TypeOK
<1>5. OutboxRows'
  BY DEF OutboxRows, TypeOK, Live, Message
<1>6. SingleProcessing'
  BY DEF SingleProcessing, InOutbox, TypeOK
<1>7. ClosedIffEmbedded'
  BY DEF ClosedIffEmbedded, TypeOK
<1> QED
  BY <1>1, <1>2, <1>3, <1>4, <1>5, <1>6, <1>7 DEF IInv

(* A crash drops what the process held; the tables stay. *)
LEMMA CrashKeeps ==
  ASSUME IInv, Crash
  PROVE  IInv'
<1> USE ConstantsAssumption, RowTypes DEF IInv, Crash, Fault, Forget, store
<1>1. TypeOK'
  BY DEF TypeOK, Busy, Live, Message
<1>2. InHand'
  BY DEF InHand, TypeOK
<1>3. SnapCurrent'
  BY DEF SnapCurrent, OpenFirsts, TypeOK
<1>4. SingleOpen'
  BY DEF SingleOpen, OpenFirsts, TypeOK
<1>5. OutboxRows'
  BY DEF OutboxRows, TypeOK, Live, Message
<1>6. SingleProcessing'
  BY DEF SingleProcessing, InOutbox, TypeOK
<1>7. ClosedIffEmbedded'
  BY DEF ClosedIffEmbedded, TypeOK
<1> QED
  BY <1>1, <1>2, <1>3, <1>4, <1>5, <1>6, <1>7 DEF IInv

(* BuildSeed takes a loaded message without touching the outbox. *)
LEMMA TakeSeedKeeps ==
  ASSUME IInv, NEW m \in Message, TakeSeed(m)
  PROVE  IInv'
<1> USE ConstantsAssumption, RowTypes DEF IInv, TakeSeed, store, IsLeast
<1>1. TypeOK'
  BY DEF TypeOK, Busy, Live, Message
<1>2. InHand'
  BY DEF InHand, TypeOK
<1>3. SnapCurrent'
  BY DEF SnapCurrent, OpenFirsts, TypeOK
<1>4. SingleOpen'
  BY DEF SingleOpen, OpenFirsts, TypeOK
<1>5. OutboxRows'
  BY DEF OutboxRows, TypeOK, Live, Message
<1>6. SingleProcessing'
  BY DEF SingleProcessing, InOutbox, TypeOK
<1>7. ClosedIffEmbedded'
  BY DEF ClosedIffEmbedded, TypeOK
<1> QED
  BY <1>1, <1>2, <1>3, <1>4, <1>5, <1>6, <1>7 DEF IInv

(* The end of the seed build. *)
LEMMA ServeKeeps ==
  ASSUME IInv, Serve
  PROVE  IInv'
<1> USE ConstantsAssumption, RowTypes DEF IInv, Serve, store
<1>1. TypeOK'
  BY DEF TypeOK, Busy, Live, Message
<1>2. InHand'
  BY DEF InHand, TypeOK
<1>3. SnapCurrent'
  BY DEF SnapCurrent, OpenFirsts, TypeOK
<1>4. SingleOpen'
  BY DEF SingleOpen, OpenFirsts, TypeOK
<1>5. OutboxRows'
  BY DEF OutboxRows, TypeOK, Live, Message
<1>6. SingleProcessing'
  BY DEF SingleProcessing, InOutbox, TypeOK
<1>7. ClosedIffEmbedded'
  BY DEF ClosedIffEmbedded, TypeOK
<1> QED
  BY <1>1, <1>2, <1>3, <1>4, <1>5, <1>6, <1>7 DEF IInv

(* A claim resumes the processing row or marks a pending one when there is none. *)
LEMMA ClaimKeeps ==
  ASSUME IInv, NEW m \in Live, NextIndexMessage(m)
  PROVE  IInv'
<1> USE ConstantsAssumption, RowTypes DEF IInv, NextIndexMessage, NextEvent, IsLeast, InOutbox, Event
<1>1. TypeOK'
  <2>1. outbox' \in [Live -> Event]
    BY DEF TypeOK
  <2>2. pc' \in Busy \cup {"idle"} /\ msg' \in Message \cup {0}
    BY DEF Busy
  <2> QED
    BY <2>1, <2>2 DEF TypeOK
<1>2. InHand'
  BY DEF InHand, TypeOK, Busy
<1>3. SnapCurrent'
  BY DEF SnapCurrent, OpenFirsts, TypeOK
<1>4. SingleOpen'
  BY DEF SingleOpen, OpenFirsts, TypeOK
<1>5. OutboxRows'
  <2>1. CASE outbox[m].status = "pending"
    <3>1. /\ outbox'[m].status = "processing"
          /\ outbox'[m].attempts = outbox[m].attempts + 1
          /\ \A n \in Live \ {m} : outbox'[n] = outbox[n]
      BY <2>1 DEF TypeOK
    <3> QED
      BY <2>1, <3>1, OneRowStep DEF TypeOK, OutboxRows
  <2>2. CASE outbox[m].status # "pending"
    BY <2>2 DEF OutboxRows, TypeOK
  <2> QED
    BY <2>1, <2>2
<1>6. SingleProcessing'
  BY DEF SingleProcessing, InOutbox, TypeOK
<1>7. ClosedIffEmbedded'
  BY DEF ClosedIffEmbedded, TypeOK
<1> QED
  BY <1>1, <1>2, <1>3, <1>4, <1>5, <1>6, <1>7 DEF IInv

(* Reading the open chunk. *)
LEMMA OpenChunkKeeps ==
  ASSUME IInv, OpenChunk
  PROVE  IInv'
<1> USE ConstantsAssumption, RowTypes DEF IInv, OpenChunk, store
<1>1. TypeOK'
  BY DEF TypeOK, OpenFirsts, Busy
<1>2. InHand'
  BY DEF InHand, TypeOK, Busy
<1>3. SnapCurrent'
  BY DEF SnapCurrent, OpenFirsts, TypeOK, Busy, NoChunk
<1>4. SingleOpen'
  BY DEF SingleOpen, OpenFirsts, TypeOK
<1>5. OutboxRows'
  BY DEF OutboxRows, TypeOK, Live, Message
<1>6. SingleProcessing'
  BY DEF SingleProcessing, InOutbox, TypeOK
<1>7. ClosedIffEmbedded'
  BY DEF ClosedIffEmbedded, TypeOK
<1> QED
  BY <1>1, <1>2, <1>3, <1>4, <1>5, <1>6, <1>7 DEF IInv

(* Assembling the candidate decides which transaction follows. *)
LEMMA AppendToOpenKeeps ==
  ASSUME IInv, AppendToOpen
  PROVE  IInv'
<1> USE ConstantsAssumption, RowTypes DEF IInv, AppendToOpen, store
<1>1. TypeOK'
  BY AssembleType DEF TypeOK, InHand, Busy
<1>2. InHand'
  BY DEF InHand, TypeOK, Busy
<1>3. SnapCurrent'
  BY DEF SnapCurrent, OpenFirsts, TypeOK, Busy, NoChunk
<1>4. SingleOpen'
  BY DEF SingleOpen, OpenFirsts, TypeOK
<1>5. OutboxRows'
  BY DEF OutboxRows, TypeOK, Live, Message
<1>6. SingleProcessing'
  BY DEF SingleProcessing, InOutbox, TypeOK
<1>7. ClosedIffEmbedded'
  BY DEF ClosedIffEmbedded, TypeOK
<1> QED
  BY <1>1, <1>2, <1>3, <1>4, <1>5, <1>6, <1>7 DEF IInv

(* Embedding the chunk that was read. *)
LEMMA EmbedTextKeeps ==
  ASSUME IInv, EmbedText
  PROVE  IInv'
<1> USE ConstantsAssumption, RowTypes DEF IInv, EmbedText, store
<1>1. TypeOK'
  BY DEF TypeOK, Busy, Live, Message
<1>2. InHand'
  BY DEF InHand, TypeOK, Busy
<1>3. SnapCurrent'
  BY DEF SnapCurrent, OpenFirsts, TypeOK, Busy, NoChunk
<1>4. SingleOpen'
  BY DEF SingleOpen, OpenFirsts, TypeOK
<1>5. OutboxRows'
  BY DEF OutboxRows, TypeOK, Live, Message
<1>6. SingleProcessing'
  BY DEF SingleProcessing, InOutbox, TypeOK
<1>7. ClosedIffEmbedded'
  BY DEF ClosedIffEmbedded, TypeOK
<1> QED
  BY <1>1, <1>2, <1>3, <1>4, <1>5, <1>6, <1>7 DEF IInv

(* Assembling the message on its own. *)
LEMMA AppendToNilKeeps ==
  ASSUME IInv, AppendToNil
  PROVE  IInv'
<1> USE ConstantsAssumption, RowTypes DEF IInv, AppendToNil, store
<1>1. TypeOK'
  BY AssembleType DEF TypeOK, InHand, Busy
<1>2. InHand'
  BY DEF InHand, TypeOK, Busy
<1>3. SnapCurrent'
  BY DEF SnapCurrent, OpenFirsts, TypeOK, Busy, NoChunk
<1>4. SingleOpen'
  BY DEF SingleOpen, OpenFirsts, TypeOK
<1>5. OutboxRows'
  BY DEF OutboxRows, TypeOK, Live, Message
<1>6. SingleProcessing'
  BY DEF SingleProcessing, InOutbox, TypeOK
<1>7. ClosedIffEmbedded'
  BY DEF ClosedIffEmbedded, TypeOK
<1> QED
  BY <1>1, <1>2, <1>3, <1>4, <1>5, <1>6, <1>7 DEF IInv

(* A failed statement leaves the tables and drops the message in hand. *)
LEMMA DatabaseFailsKeeps ==
  ASSUME IInv, DatabaseFails
  PROVE  IInv'
<1> USE ConstantsAssumption, RowTypes DEF IInv, DatabaseFails, Fault, ReturnError, Forget, store
<1>1. TypeOK'
  <2>1. faults' \in 0..MaxFaults
    BY DEF TypeOK
  <2> QED
    BY <2>1 DEF TypeOK
<1>2. InHand'
  BY DEF InHand, TypeOK
<1>3. SnapCurrent'
  BY DEF SnapCurrent, OpenFirsts, TypeOK
<1>4. SingleOpen'
  BY DEF SingleOpen, OpenFirsts, TypeOK
<1>5. OutboxRows'
  BY DEF OutboxRows, TypeOK, Live, Message
<1>6. SingleProcessing'
  BY DEF SingleProcessing, InOutbox, TypeOK
<1>7. ClosedIffEmbedded'
  BY DEF ClosedIffEmbedded, TypeOK
<1> QED
  BY <1>1, <1>2, <1>3, <1>4, <1>5, <1>6, <1>7 DEF IInv

(* A primary-key conflict rolls the whole transaction back. *)
LEMMA ConflictKeeps ==
  ASSUME IInv, InsertConflict
  PROVE  IInv'
<1> USE ConstantsAssumption, RowTypes DEF IInv, InsertConflict, ReturnError, Forget, store
<1>1. TypeOK'
  BY DEF TypeOK, Busy, Live, Message
<1>2. InHand'
  BY DEF InHand, TypeOK
<1>3. SnapCurrent'
  BY DEF SnapCurrent, OpenFirsts, TypeOK
<1>4. SingleOpen'
  BY DEF SingleOpen, OpenFirsts, TypeOK
<1>5. OutboxRows'
  BY DEF OutboxRows, TypeOK, Live, Message
<1>6. SingleProcessing'
  BY DEF SingleProcessing, InOutbox, TypeOK
<1>7. ClosedIffEmbedded'
  BY DEF ClosedIffEmbedded, TypeOK
<1> QED
  BY <1>1, <1>2, <1>3, <1>4, <1>5, <1>6, <1>7 DEF IInv

(* A model failure returns the event to the queue or dead-letters it. *)
LEMMA ModelFailsKeeps ==
  ASSUME IInv, ModelFails
  PROVE  IInv'
<1> USE ConstantsAssumption, RowTypes DEF IInv, ModelFails, Rescheduled, Fault, ReturnError, Forget, Event
<1>1. TypeOK'
  <2>1. outbox' \in [Live -> Event]
    <3>1. outbox \in [Live -> Event]
      BY DEF TypeOK
    <3>2. Rescheduled(msg) \in [Live -> Event]
      BY <3>1
    <3> QED
      BY <3>1, <3>2
  <2>2. faults' \in 0..MaxFaults
    BY SMTT(30) DEF TypeOK
  <2> QED
    BY <2>1, <2>2 DEF TypeOK
<1>2. InHand'
  BY DEF InHand, TypeOK
<1>3. SnapCurrent'
  BY DEF SnapCurrent, OpenFirsts, TypeOK
<1>4. SingleOpen'
  BY DEF SingleOpen, OpenFirsts, TypeOK
<1>5. OutboxRows'
  <2>1. CASE mode = "building"
    BY <2>1 DEF OutboxRows, TypeOK
  <2>2. CASE mode # "building"
    <3>1. msg \in Live /\ outbox[msg].status = "processing"
      BY <2>2 DEF InHand, TypeOK, Busy
    <3>2. /\ outbox'[msg].attempts = outbox[msg].attempts
          /\ outbox'[msg].status = IF outbox[msg].attempts >= MaxAttempts
                                    THEN "dead_letter" ELSE "pending"
          /\ \A n \in Live \ {msg} : outbox'[n] = outbox[n]
      BY <2>2, <3>1 DEF TypeOK
    <3> QED
      BY SMTT(30), <3>1, <3>2, OneRowStep DEF TypeOK, OutboxRows
  <2> QED
    BY <2>1, <2>2
<1>6. SingleProcessing'
  BY DEF SingleProcessing, InOutbox, TypeOK
<1>7. ClosedIffEmbedded'
  BY DEF ClosedIffEmbedded, TypeOK
<1> QED
  BY <1>1, <1>2, <1>3, <1>4, <1>5, <1>6, <1>7 DEF IInv

(* Completing the event in hand: done for a live message, no change to the  *)
(* outbox for a message of the seed build.                                  *)
LEMMA MarkDoneKeeps ==
  ASSUME IInv, MarkDone, pc \in Busy, sent' = sent
  PROVE  /\ outbox' \in [Live -> Event]
         /\ OutboxRows'
         /\ SingleProcessing'
<1> USE ConstantsAssumption, RowTypes DEF IInv, MarkDone
<1>1. CASE mode = "building"
  BY <1>1 DEF TypeOK, OutboxRows, SingleProcessing, InOutbox
<1>2. CASE mode # "building"
  <2>1. msg \in Live /\ outbox[msg].status = "processing"
    BY <1>2 DEF InHand, TypeOK, Busy
  <2>2. outbox' \in [Live -> Event]
    BY <1>2 DEF TypeOK, Event
  <2>3. /\ outbox'[msg].attempts = outbox[msg].attempts
        /\ outbox'[msg].status = "done"
        /\ \A n \in Live \ {msg} : outbox'[n] = outbox[n]
    BY <1>2, <2>1 DEF TypeOK, Event
  <2>4. OutboxRows'
    BY <2>1, <2>3, OneRowStep DEF OutboxRows
  <2>5. SingleProcessing'
    BY <2>1, <2>3 DEF SingleProcessing, InOutbox
  <2> QED
    BY <2>2, <2>4, <2>5
<1> QED
  BY <1>1, <1>2

(* An ordinary append touches the open chunk only, or inserts the first.    *)
LEMMA CompleteOpenAppendKeeps ==
  ASSUME IInv, CompleteOpenAppend
  PROVE  IInv'
<1> USE ConstantsAssumption, RowTypes DEF IInv, CompleteOpenAppend, Forget
<1>1. /\ msg \in Message /\ pc \in Busy /\ asm \in Assembled
      /\ outbox' \in [Live -> Event] /\ OutboxRows' /\ SingleProcessing'
  BY MarkDoneKeeps DEF InHand, Busy, TypeOK
<1>2. PICK f \in Message :
        /\ \/ OpenFirsts = {} /\ chunks[f].status = "absent"
           \/ OpenFirsts = {f}
        /\ chunks' \in [Message -> Row]
        /\ chunks'[f].status = "open"
        /\ \A g \in Message \ {f} : chunks'[g] = chunks[g]
  <2>1. CASE OpenFirsts = {}
    <3>1. OpenRow(0) \in Row /\ OpenRow(0).status = "open"
      BY <1>1, OpenRowType
    <3>2. chunks[msg].status = "absent" /\ chunks' = [chunks EXCEPT ![msg] = OpenRow(0)]
      BY <2>1
    <3> QED
      BY <1>1, <2>1, <3>1, <3>2 DEF TypeOK
  <2>2. CASE OpenFirsts # {}
    <3>1. PICK f \in OpenFirsts : chunks' = UpdateOpen(f)
      BY <2>2
    <3>2. f \in Message /\ chunks[f].status = "open" /\ chunks[f].index \in Nat
      BY <3>1 DEF OpenFirsts, TypeOK, Row
    <3>3. OpenFirsts = {f}
      BY <3>1 DEF SingleOpen
    <3>4. OpenRow(chunks[f].index) \in Row /\ OpenRow(chunks[f].index).status = "open"
      BY <1>1, <3>2, OpenRowType
    <3> QED
      BY <3>1, <3>2, <3>3, <3>4 DEF UpdateOpen, TypeOK
  <2> QED
    BY <2>1, <2>2
<1>3. TypeOK'
  BY <1>1, <1>2 DEF TypeOK
<1>4. InHand' /\ SnapCurrent'
  BY DEF InHand, SnapCurrent, Busy
<1>5. SingleOpen'
  BY <1>2 DEF SingleOpen, OpenFirsts
<1>6. ClosedIffEmbedded'
  BY <1>2 DEF ClosedIffEmbedded, OpenFirsts
<1> QED
  BY <1>1, <1>3, <1>4, <1>5, <1>6

(* Closing writes the vector of the chunk that was read, which is the open  *)
(* chunk of the table, and inserts a chunk where there was none.            *)
LEMMA CloseAndOpenKeeps ==
  ASSUME IInv, CloseAndOpen
  PROVE  IInv'
<1> USE ConstantsAssumption, RowTypes DEF IInv, CloseAndOpen, Forget
<1>1. /\ msg \in Message /\ pc \in Busy /\ asm \in Assembled
      /\ outbox' \in [Live -> Event] /\ OutboxRows' /\ SingleProcessing'
  BY MarkDoneKeeps DEF InHand, Busy, TypeOK
<1>2. snap.first \in OpenFirsts /\ snap.row = chunks[snap.first]
  BY DEF SnapCurrent, Busy
<1> DEFINE f == snap.first
<1>3. /\ f \in Message /\ msg # f /\ OpenFirsts = {f}
      /\ snap.row \in Row /\ snap.row.index + 1 \in Nat
      /\ embedding[f] = <<>>
  <2>1. f \in Message /\ chunks[f].status = "open" /\ chunks[f] \in Row
    BY <1>2 DEF OpenFirsts, TypeOK
  <2>2. OpenFirsts = {f}
    BY <1>2 DEF SingleOpen
  <2>3. embedding[f] = <<>> /\ msg # f
    BY <2>1 DEF ClosedIffEmbedded
  <2>4. snap.row = chunks[f]
    BY <1>2
  <2>5. snap.row \in Row /\ snap.row.index \in Nat
    BY <2>1, <2>4 DEF Row
  <2>6. snap.row.index + 1 \in Nat
    BY <2>5
  <2> QED
    BY <2>1, <2>2, <2>3, <2>5, <2>6
<1>4. chunks' = [chunks EXCEPT ![f].status = "closed", ![msg] = OpenRow(snap.row.index + 1)]
  OBVIOUS
<1>5. embedding' = [embedding EXCEPT ![f] = chunks[f].ids]
  BY <1>2, <1>3
<1>6. InHand' /\ SnapCurrent'
  BY DEF InHand, SnapCurrent, Busy
<1>7. /\ chunks \in [Message -> Row] /\ embedding \in [Message -> Seq(Message)]
      /\ embedding[msg] = <<>> /\ ClosedIffEmbedded
  BY <1>1 DEF TypeOK, ClosedIffEmbedded
<1>8. ASSUME chunks' \in [Message -> Row], embedding' \in [Message -> Seq(Message)]
      PROVE  TypeOK'
  BY <1>1, <1>8 DEF TypeOK
<1> HIDE ConstantsAssumption, RowTypes DEF IInv, CloseAndOpen, Forget, f
<1>9. /\ chunks' \in [Message -> Row]
      /\ chunks'[msg].status = "open"
      /\ chunks'[f].status = "closed" /\ chunks'[f].ids = chunks[f].ids
      /\ \A g \in Message \ {f, msg} : chunks'[g] = chunks[g]
  <2>1. /\ OpenRow(snap.row.index + 1).status = "open"
        /\ OpenRow(snap.row.index + 1) \in Row
    BY <1>1, <1>3, OpenRowType
  <2>2. /\ [chunks[f] EXCEPT !.status = "closed"] \in Row
        /\ [chunks[f] EXCEPT !.status = "closed"].status = "closed"
        /\ [chunks[f] EXCEPT !.status = "closed"].ids = chunks[f].ids
    <3>1. chunks[f] \in Row
      BY <1>3, <1>7
    <3> QED
      BY <3>1 DEF Row
  <2> DEFINE closed == [chunks[f] EXCEPT !.status = "closed"]
             row == OpenRow(snap.row.index + 1)
  <2>3. chunks' = [chunks EXCEPT ![f] = closed, ![msg] = row]
    BY <1>3, <1>4, <1>7
  <2> HIDE DEF closed, row
  <2>4. /\ chunks'[msg] = row /\ chunks'[f] = closed
        /\ \A g \in Message \ {f, msg} : chunks'[g] = chunks[g]
    BY <1>1, <1>3, <1>7, <2>3
  <2>5. closed \in Row /\ row \in Row
    BY <2>1, <2>2 DEF closed, row
  <2>6. chunks' \in [Message -> Row]
    BY <1>7, <2>3, <2>5
  <2> QED
    BY <2>1, <2>2, <2>4, <2>6 DEF closed, row
<1>10. TypeOK'
  <2>1. chunks[f].ids \in Seq(Message)
    BY <1>3, <1>7 DEF Row
  <2>2. embedding' \in [Message -> Seq(Message)]
    BY <1>5, <1>7, <2>1
  <2> QED
    BY <1>8, <1>9, <2>2
<1>11. SingleOpen'
  <2>1. ASSUME NEW g \in Message, chunks'[g].status = "open" PROVE g = msg
    <3>1. g # f
      BY <1>9, <2>1
    <3>2. CASE g # msg
      <4>1. chunks[g].status = "open"
        BY <1>9, <2>1, <3>1, <3>2
      <4> QED
        BY <1>3, <3>1, <4>1 DEF OpenFirsts
    <3> QED
      BY <3>2
  <2> QED
    BY <2>1 DEF SingleOpen, OpenFirsts
<1>12. ClosedIffEmbedded'
  <2>1. embedding'[f] = chunks'[f].ids /\ embedding'[msg] = <<>>
    BY <1>1, <1>3, <1>5, <1>7, <1>9
  <2>2. \A g \in Message \ {f, msg} : embedding'[g] = embedding[g]
    BY <1>5, <1>7
  <2>3. ASSUME NEW g \in Message
        PROVE  embedding'[g] = IF chunks'[g].status = "closed" THEN chunks'[g].ids ELSE <<>>
    <3>1. CASE g = f
      BY <1>9, <2>1, <3>1
    <3>2. CASE g = msg
      BY <1>9, <2>1, <3>2
    <3>3. CASE g # f /\ g # msg
      BY <1>7, <1>9, <2>2, <3>3 DEF ClosedIffEmbedded
    <3> QED
      BY <3>1, <3>2, <3>3
  <2> QED
    BY <2>3 DEF ClosedIffEmbedded
<1> QED
  BY <1>1, <1>6, <1>10, <1>11, <1>12 DEF IInv

-----------------------------------------------------------------------------

LEMMA StepIInv == IInv /\ [Next]_vars => IInv'
<1> SUFFICES ASSUME IInv, [Next]_vars PROVE IInv'
  OBVIOUS
<1>1. CASE Send
  BY <1>1, SendKeeps
<1>2. ASSUME NEW m \in Live, BackoffElapses(m) PROVE IInv'
  BY <1>2, BackoffKeeps
<1>3. ASSUME NEW build \in BOOLEAN, Start(build) PROVE IInv'
  BY <1>3, StartKeeps
<1>4. CASE TakeUp
  BY <1>4, TakeSeedKeeps, ClaimKeeps, ServeKeeps DEF TakeUp
<1>5. CASE ProcessMessage
  BY <1>5, OpenChunkKeeps, AppendToOpenKeeps, EmbedTextKeeps, AppendToNilKeeps,
     CompleteOpenAppendKeeps, CloseAndOpenKeeps, ConflictKeeps DEF ProcessMessage
<1>6. CASE ModelFails
  BY <1>6, ModelFailsKeeps
<1>7. CASE DatabaseFails
  BY <1>7, DatabaseFailsKeeps
<1>8. CASE Crash
  BY <1>8, CrashKeeps
<1>9. CASE UNCHANGED vars
  BY <1>9 DEF vars, IInv, TypeOK, InHand, SnapCurrent, SingleOpen, OutboxRows,
              SingleProcessing, ClosedIffEmbedded, OpenFirsts, InOutbox
<1> QED
  BY <1>1, <1>2, <1>3, <1>4, <1>5, <1>6, <1>7, <1>8, <1>9 DEF Next

THEOREM InductiveInvariant == Spec => []IInv
BY InitIInv, StepIInv, PTL DEF Spec

(* Every reachable state is well typed.                                     *)
THEOREM TypeCorrect == Spec => []TypeOK
<1>1. IInv => TypeOK
  BY DEF IInv
<1> QED
  BY <1>1, InductiveInvariant, PTL

(* Never two claimed events, whatever crashed or failed.                    *)
THEOREM OneEventAtATime == Spec => []SingleProcessing
<1>1. IInv => SingleProcessing
  BY DEF IInv
<1> QED
  BY <1>1, InductiveInvariant, PTL

(* No event is claimed more than MaxAttempts times, and dead letters were   *)
(* claimed exactly that often.                                              *)
THEOREM RetriesAreBounded == Spec => []AttemptsBounded
<1>1. IInv => AttemptsBounded
  BY ConstantsAssumption DEF IInv, TypeOK, Event, OutboxRows, AttemptsBounded
<1> QED
  BY <1>1, InductiveInvariant, PTL

(* Closed chunks and embeddings agree, on the frozen text.                  *)
THEOREM VectorsDescribeFrozenText == Spec => []ClosedIffEmbedded
<1>1. IInv => ClosedIffEmbedded
  BY DEF IInv
<1> QED
  BY <1>1, InductiveInvariant, PTL
-----------------------------------------------------------------------------

(* The steps that write the chunks, and what they find there.               *)
LEMMA ClosedStay ==
  ASSUME IInv, [Next]_vars
  PROVE  \A f \in Message : chunks[f].status = "closed" => chunks'[f] = chunks[f]
<1> SUFFICES ASSUME NEW f \in Message, chunks[f].status = "closed"
             PROVE  chunks'[f] = chunks[f]
  OBVIOUS
<1> USE DEF IInv
<1>1. CASE CompleteOpenAppend
  <2>1. CASE OpenFirsts = {}
    BY <1>1, <2>1 DEF CompleteOpenAppend, TypeOK
  <2>2. CASE OpenFirsts # {}
    <3>1. PICK g \in OpenFirsts : chunks' = UpdateOpen(g)
      BY <1>1, <2>2 DEF CompleteOpenAppend
    <3>2. g # f
      BY <3>1 DEF OpenFirsts
    <3> QED
      BY <3>1, <3>2 DEF UpdateOpen, TypeOK
  <2> QED
    BY <2>1, <2>2
<1>2. CASE CloseAndOpen
  <2>1. snap.first \in OpenFirsts
    BY <1>2 DEF CloseAndOpen, SnapCurrent, Busy
  <2>2. snap.first # f /\ msg # f
    BY <1>2, <2>1 DEF OpenFirsts, CloseAndOpen
  <2> QED
    BY <1>2, <2>2 DEF CloseAndOpen, TypeOK
<1>3. ASSUME ~CompleteOpenAppend, ~CloseAndOpen
      PROVE  chunks' = chunks
  BY <1>3 DEF Next, vars, store, worker, Send, BackoffElapses, Start, Crash, TakeUp, TakeSeed,
     Serve, NextIndexMessage, ProcessMessage, OpenChunk, AppendToOpen, EmbedText, AppendToNil,
     InsertConflict, ModelFails, DatabaseFails
<1> QED
  BY <1>1, <1>2, <1>3

(* What a retrieval has seen in a closed chunk it will always see: no       *)
(* retry, rebuild or crash rewrites one.                                    *)
THEOREM ClosedChunksNeverChange == Spec => ClosedChunksFrozen
<1>1. IInv /\ [Next]_vars =>
        [\A f \in Message : chunks[f].status = "closed" => chunks'[f] = chunks[f]]_vars
  BY ClosedStay
<1> QED
  BY <1>1, InductiveInvariant, PTL DEF Spec, ClosedChunksFrozen
(* Which steps write an outbox row: sends, backoffs, claims, and the two    *)
(* outcomes of the processing row in hand.                                  *)
LEMMA SettledStay ==
  ASSUME IInv, [Next]_vars
  PROVE  \A m \in Live : outbox[m].status \in {"done", "dead_letter"}
                         => outbox'[m] = outbox[m]
<1> SUFFICES ASSUME NEW m \in Live, outbox[m].status \in {"done", "dead_letter"}
             PROVE  outbox'[m] = outbox[m]
  OBVIOUS
<1> USE ConstantsAssumption DEF IInv
<1>1. CASE Send
  BY <1>1 DEF Send, OutboxRows, TypeOK, Live
<1>2. ASSUME NEW n \in Live, BackoffElapses(n) PROVE outbox'[m] = outbox[m]
  BY <1>2 DEF BackoffElapses, TypeOK
<1>3. ASSUME NEW n \in Live, NextIndexMessage(n) PROVE outbox'[m] = outbox[m]
  BY <1>3 DEF NextIndexMessage, TypeOK
<1>4. ASSUME pc \in Busy, MarkDone \/ (mode # "building" /\ outbox' = Rescheduled(msg))
      PROVE  outbox'[m] = outbox[m]
  <2>1. CASE mode = "building"
    BY <1>4, <2>1 DEF MarkDone
  <2>2. CASE mode # "building"
    <3>1. msg # m
      BY <1>4, <2>2 DEF InHand, TypeOK, Busy
    <3> QED
      BY <1>4, <2>2, <3>1 DEF MarkDone, Rescheduled, TypeOK
  <2> QED
    BY <2>1, <2>2
<1>5. CASE CompleteOpenAppend \/ CloseAndOpen
  BY <1>4, <1>5 DEF CompleteOpenAppend, CloseAndOpen, Busy
<1>6. CASE ModelFails
  BY <1>4, <1>6 DEF ModelFails, Busy
<1>7. CASE \E build \in BOOLEAN : Start(build)
  BY <1>7 DEF Start, store
<1>8. CASE Crash \/ DatabaseFails \/ InsertConflict \/ Serve \/ \E n \in Message : TakeSeed(n)
  BY <1>8 DEF Crash, DatabaseFails, InsertConflict, Serve, TakeSeed, store
<1>9. CASE OpenChunk \/ AppendToOpen \/ EmbedText \/ AppendToNil \/ UNCHANGED vars
  BY <1>9 DEF OpenChunk, AppendToOpen, EmbedText, AppendToNil, vars, store
<1> QED
  BY <1>1, <1>2, <1>3, <1>5, <1>6, <1>7, <1>8, <1>9 DEF Next, TakeUp, ProcessMessage

(* A completed or dead-lettered event is never claimed or rewritten again.  *)
THEOREM SettledNeverChanges == Spec => SettledIsFinal
<1>1. IInv /\ [Next]_vars =>
        [\A m \in Live : outbox[m].status \in {"done", "dead_letter"}
                         => outbox'[m] = outbox[m]]_vars
  BY SettledStay
<1> QED
  BY <1>1, InductiveInvariant, PTL DEF Spec, SettledIsFinal

-----------------------------------------------------------------------------
(* The chunks.                                                              *)

(* The candidate the worker holds is the one it asked for, and it respects  *)
(* the limits when the chunk that was read is going to be extended by it.   *)
CandidateInHand ==
  /\ pc = "complete" => /\ asm = Assemble(snap, msg)
                        /\ snap = NoChunk \/ WithinLimits(asm)
  /\ pc = "close" => asm = Assemble(NoChunk, msg)

ChunkInv == CandidateInHand /\ ChunkChain /\ ChunksWithinLimits

(* The three ways a step writes the chunks: the first chunk is inserted, the *)
(* open one takes the message in hand, the open one is closed and the       *)
(* message opens the next.                                                  *)
Alone == [ids |-> <<msg>>, tokens |-> Tokens[msg]]

Inserts ==
  /\ CompleteOpenAppend
  /\ OpenFirsts = {} /\ chunks[msg].status = "absent"
  /\ asm = Alone
  /\ chunks' = [chunks EXCEPT ![msg] = OpenRow(0)]

Extends(f) ==
  /\ CompleteOpenAppend
  /\ OpenFirsts = {f} /\ chunks[f].last < msg
  /\ asm = [ids |-> Append(chunks[f].ids, msg), tokens |-> chunks[f].tokens + Tokens[msg]]
  /\ WithinLimits(asm)
  /\ chunks' = [chunks EXCEPT ![f] = OpenRow(chunks[f].index)]

Closes(f) ==
  /\ CloseAndOpen
  /\ OpenFirsts = {f} /\ msg # f /\ chunks[msg].status = "absent"
  /\ asm = Alone
  /\ chunks' = [chunks EXCEPT ![f].status = "closed", ![msg] = OpenRow(chunks[f].index + 1)]

LEMMA AppendIsAlone ==
  ASSUME msg \in Message
  PROVE  Assemble(NoChunk, msg) = Alone
BY ConstantsAssumption DEF Assemble, NoChunk, NoRow, Alone

(* What was read is what the table still holds. *)
LEMMA ReadIsOpen ==
  ASSUME IInv, pc \in {"complete", "close"}
  PROVE  /\ msg \in Message /\ asm \in Assembled
         /\ \/ snap = NoChunk /\ OpenFirsts = {}
            \/ /\ snap # NoChunk /\ snap.first \in Message
               /\ OpenFirsts = {snap.first} /\ snap.row = chunks[snap.first]
         /\ pc = "close" => snap # NoChunk
<1> USE RowTypes DEF IInv
<1>1. msg \in Message /\ asm \in Assembled
  BY DEF InHand, Busy, TypeOK
<1>2. CASE snap = NoChunk /\ OpenFirsts = {}
  BY <1>1, <1>2 DEF SnapCurrent
<1>3. CASE snap.first \in OpenFirsts /\ snap.row = chunks[snap.first]
  <2>1. snap.first \in Message /\ OpenFirsts = {snap.first}
    BY <1>3 DEF SingleOpen, OpenFirsts
  <2>2. snap # NoChunk
    BY <2>1 DEF NoChunk
  <2> QED
    BY <1>1, <1>3, <2>1, <2>2 DEF SnapCurrent
<1> QED
  BY <1>2, <1>3 DEF SnapCurrent, Busy

(* What closing leaves in the two rows it writes. *)
LEMMA CloseShape ==
  ASSUME IInv, NEW f \in Message, Closes(f)
  PROVE  /\ chunks'[msg].status = "open" /\ chunks'[msg].index = chunks[f].index + 1
         /\ chunks'[msg].last = msg /\ chunks'[msg].ids = <<msg>>
         /\ chunks[f].status = "open"
         /\ chunks'[f].status = "closed" /\ chunks'[f].index = chunks[f].index
         /\ chunks'[f].ids = chunks[f].ids /\ chunks'[f].tokens = chunks[f].tokens
         /\ chunks'[f].last = chunks[f].last
         /\ \A g \in Message \ {f, msg} : chunks'[g] = chunks[g]
<1>1. /\ chunks \in [Message -> Row] /\ msg \in Message /\ msg # f
  BY ReadIsOpen DEF IInv, TypeOK, Closes, CloseAndOpen
<1>2. /\ chunks' = [chunks EXCEPT ![f].status = "closed", ![msg] = OpenRow(chunks[f].index + 1)]
      /\ asm = Alone /\ chunks[f].status = "open"
  BY DEF Closes, OpenFirsts
<1>3. /\ chunks'[msg] = OpenRow(chunks[f].index + 1)
      /\ chunks'[f] = [chunks[f] EXCEPT !.status = "closed"]
      /\ \A g \in Message \ {f, msg} : chunks'[g] = chunks[g]
  BY <1>1, <1>2
<1>4. chunks[f] \in Row
  BY <1>1
<1>5. LET c == [chunks[f] EXCEPT !.status = "closed"]
      IN  /\ c.status = "closed" /\ c.index = chunks[f].index /\ c.ids = chunks[f].ids
          /\ c.tokens = chunks[f].tokens /\ c.last = chunks[f].last
  BY <1>4 DEF Row
<1>6. LET r == OpenRow(chunks[f].index + 1)
      IN  /\ r.status = "open" /\ r.index = chunks[f].index + 1
          /\ r.last = msg /\ r.ids = <<msg>>
  BY <1>2 DEF OpenRow, Alone
<1>7. /\ chunks'[msg].status = "open" /\ chunks'[msg].index = chunks[f].index + 1
      /\ chunks'[msg].last = msg /\ chunks'[msg].ids = <<msg>>
  BY <1>3, <1>6
<1>8. /\ chunks'[f].status = "closed" /\ chunks'[f].index = chunks[f].index
      /\ chunks'[f].ids = chunks[f].ids /\ chunks'[f].tokens = chunks[f].tokens
      /\ chunks'[f].last = chunks[f].last
  BY <1>3, <1>5
<1> QED
  BY <1>2, <1>3, <1>7, <1>8

LEMMA ChunkWrites ==
  ASSUME IInv, CandidateInHand, [Next]_vars
  PROVE  \/ /\ chunks' = chunks /\ ~CloseAndOpen
            /\ CompleteOpenAppend => \E f \in Chunked : ~(chunks[f].last < msg)
         \/ Inserts
         \/ \E f \in Message : Extends(f)
         \/ \E f \in Message : Closes(f)
<1>1. CASE CompleteOpenAppend
  <2>1. pc = "complete" /\ asm = Assemble(snap, msg) /\ (snap = NoChunk \/ WithinLimits(asm))
    BY <1>1 DEF CompleteOpenAppend, CandidateInHand
  <2>2. CASE snap = NoChunk /\ OpenFirsts = {}
    BY <1>1, <2>1, <2>2, ReadIsOpen, AppendIsAlone DEF CompleteOpenAppend, Inserts
  <2>3. CASE snap # NoChunk /\ snap.first \in Message /\ OpenFirsts = {snap.first}
              /\ snap.row = chunks[snap.first]
    <3> DEFINE f == snap.first
    <3>1. chunks' = UpdateOpen(f)
      BY <1>1, <2>3 DEF CompleteOpenAppend
    <3>2. asm = [ids |-> Append(chunks[f].ids, msg), tokens |-> chunks[f].tokens + Tokens[msg]]
      BY <2>1, <2>3 DEF Assemble
    <3>3. CASE chunks[f].last < msg
      BY <1>1, <2>1, <2>3, <3>1, <3>2, <3>3 DEF UpdateOpen, Extends
    <3>4. CASE ~(chunks[f].last < msg)
      <4>1. f \in Chunked /\ chunks' = chunks
        BY <2>3, <3>1, <3>4 DEF UpdateOpen, OpenFirsts, Chunked
      <4>2. ~CloseAndOpen
        BY <2>1 DEF CloseAndOpen
      <4> QED
        BY <3>4, <4>1, <4>2
    <3> QED
      BY <3>3, <3>4
  <2> QED
    BY <2>1, <2>2, <2>3, ReadIsOpen
<1>2. CASE CloseAndOpen
  <2>1. pc = "close" /\ chunks[msg].status = "absent" /\ asm = Alone
    BY <1>2, ReadIsOpen, AppendIsAlone DEF CloseAndOpen, CandidateInHand
  <2>2. /\ snap.first \in Message /\ OpenFirsts = {snap.first} /\ snap.row = chunks[snap.first]
    BY <2>1, ReadIsOpen
  <2>3. msg # snap.first
    BY <2>1, <2>2 DEF OpenFirsts
  <2> QED
    BY <1>2, <2>1, <2>2, <2>3 DEF CloseAndOpen, Closes
<1>3. ASSUME ~CompleteOpenAppend, ~CloseAndOpen
      PROVE  chunks' = chunks
  BY <1>3 DEF Next, vars, store, worker, Send, BackoffElapses, Start, Crash, TakeUp, TakeSeed,
     Serve, NextIndexMessage, ProcessMessage, OpenChunk, AppendToOpen, EmbedText, AppendToNil,
     InsertConflict, ModelFails, DatabaseFails
<1> QED
  BY <1>1, <1>2, <1>3

LEMMA ChunkedFinite == IsFiniteSet(Chunked) /\ Cardinality(Chunked) \in Nat
<1>1. IsFiniteSet(Message)
  BY ConstantsAssumption, FS_Interval DEF Message
<1>2. Chunked \subseteq Message
  BY DEF Chunked
<1> QED
  BY <1>1, <1>2, FS_Subset, FS_CardinalityType

(* The indices stay a chain: an extension keeps the index it had, a new     *)
(* chunk comes one above the open one, which is the highest.                *)
LEMMA ChainKept ==
  ASSUME IInv, ChunkInv, [Next]_vars
  PROVE  ChunkChain'
<1> DEFINE n == Cardinality(Chunked)
<1> USE DEF IInv
<1>0. /\ chunks \in [Message -> Row] /\ n \in Nat
      /\ {chunks[f].index : f \in Chunked} = 0..(n - 1)
      /\ \A f \in Chunked : chunks[f].status = "open" <=> chunks[f].index = n - 1
  BY ChunkedFinite DEF ChunkInv, ChunkChain, TypeOK
<1>1. CASE chunks' = chunks
  BY <1>1 DEF ChunkInv, ChunkChain, Chunked
<1>2. CASE Inserts
  <2>1. msg \in Message
    BY <1>2, ReadIsOpen DEF Inserts, CompleteOpenAppend
  <2>2. Chunked = {}
    <3>1. n = 0
      <4>1. CASE n > 0
        <5>1. n - 1 \in 0..(n - 1)
          BY <1>0, <4>1
        <5>2. PICK g \in Chunked : chunks[g].index = n - 1
          BY <1>0, <5>1
        <5>3. g \in OpenFirsts
          BY <1>0, <5>2 DEF OpenFirsts, Chunked
        <5> QED
          BY <1>2, <5>3 DEF Inserts
      <4> QED
        BY <1>0, <4>1
    <3> QED
      BY <3>1, ChunkedFinite, FS_EmptySet
  <2>3. /\ chunks'[msg].status = "open" /\ chunks'[msg].index = 0
        /\ \A g \in Message \ {msg} : chunks'[g] = chunks[g]
    BY <1>0, <1>2, <2>1 DEF Inserts, OpenRow
  <2>4. Chunked' = {msg}
    BY <2>1, <2>2, <2>3 DEF Chunked
  <2>5. Cardinality(Chunked') = 1
    BY <2>4, FS_Singleton
  <2> QED
    BY <2>3, <2>4, <2>5 DEF ChunkChain
<1>3. ASSUME NEW f \in Message, Extends(f) PROVE ChunkChain'
  <2>1. f \in Chunked
    BY <1>3 DEF Extends, OpenFirsts, Chunked
  <2>2. /\ chunks'[f].status = "open" /\ chunks'[f].index = chunks[f].index
        /\ chunks[f].status = "open"
        /\ \A g \in Message \ {f} : chunks'[g] = chunks[g]
    BY <1>0, <1>3 DEF Extends, OpenRow, OpenFirsts
  <2>3. Chunked' = Chunked
    BY <2>1, <2>2 DEF Chunked
  <2>4. \A g \in Chunked : chunks'[g].index = chunks[g].index /\ chunks'[g].status = chunks[g].status
    BY <2>2 DEF Chunked
  <2>5. {chunks'[g].index : g \in Chunked'} = {chunks[g].index : g \in Chunked}
    BY <2>3, <2>4
  <2>6. Cardinality(Chunked') = n
    BY <2>3
  <2>7. \A g \in Chunked' : chunks'[g].status = "open" <=> chunks'[g].index = n - 1
    BY <1>0, <2>3, <2>4
  <2> HIDE DEF n
  <2> QED
    BY <1>0, <2>5, <2>6, <2>7 DEF ChunkChain
<1>4. ASSUME NEW f \in Message, Closes(f) PROVE ChunkChain'
  <2>1. msg \in Message
    BY <1>4, ReadIsOpen DEF Closes, CloseAndOpen
  <2>2. f \in Chunked /\ chunks[f].index = n - 1 /\ msg \notin Chunked /\ msg # f
    BY <1>0, <1>4 DEF Closes, OpenFirsts, Chunked
  <2>3. /\ chunks'[msg].status = "open" /\ chunks'[msg].index = n
        /\ chunks'[f].status = "closed" /\ chunks'[f].index = n - 1
        /\ \A g \in Message \ {f, msg} : chunks'[g] = chunks[g]
    BY <1>0, <1>4, <2>1, <2>2, CloseShape
  <2>4. Chunked' = Chunked \cup {msg}
    BY <2>1, <2>2, <2>3 DEF Chunked
  <2>5. Cardinality(Chunked') = n + 1
    BY <2>2, <2>4, ChunkedFinite, FS_AddElement
  <2>6. \A g \in Chunked : chunks'[g].index = chunks[g].index
    BY <2>2, <2>3 DEF Chunked
  <2>7. {chunks'[g].index : g \in Chunked'} = 0..n
    <3>1. {chunks'[g].index : g \in Chunked'} = {chunks[g].index : g \in Chunked} \cup {n}
      BY <2>3, <2>4, <2>6
    <3> QED
      BY <1>0, <3>1
  <2>8. ASSUME NEW g \in Chunked'
        PROVE  chunks'[g].status = "open" <=> chunks'[g].index = n
    <3>1. CASE g = msg
      BY <2>3, <3>1
    <3>2. CASE g = f
      BY <1>0, <2>3, <3>2
    <3>3. CASE g \in Chunked \ {f}
      <4>1. chunks'[g] = chunks[g] /\ chunks[g].status # "open" /\ chunks[g].index \in 0..(n - 1)
        BY <1>0, <1>4, <2>2, <2>3, <3>3 DEF Closes, OpenFirsts, Chunked
      <4> QED
        BY <1>0, <4>1
    <3> QED
      BY <2>4, <3>1, <3>2, <3>3
  <2>9. Cardinality(Chunked') - 1 = n
    BY <1>0, <2>5
  <2> HIDE DEF n
  <2> QED
    BY <2>7, <2>8, <2>9 DEF ChunkChain
<1> QED
  BY <1>1, <1>2, <1>3, <1>4, ChunkWrites DEF ChunkInv

LEMMA CandidateKept ==
  ASSUME IInv, CandidateInHand, [Next]_vars
  PROVE  CandidateInHand'
<1> USE DEF CandidateInHand
<1>1. CASE AppendToOpen
  BY <1>1, RowTypes DEF AppendToOpen
<1>2. CASE AppendToNil
  BY <1>2 DEF AppendToNil
<1>3. CASE UNCHANGED <<pc, msg, snap, asm>>
  BY <1>3 DEF WithinLimits
<1>4. CASE pc' \notin {"complete", "close"}
  BY <1>4
<1>5. CASE Forget
  BY <1>4, <1>5 DEF Forget
<1>6. CASE Send \/ (\E m \in Live : BackoffElapses(m)) \/ (\E build \in BOOLEAN : Start(build))
             \/ Serve \/ UNCHANGED vars
  BY <1>3, <1>6 DEF Send, BackoffElapses, Start, Serve, worker, vars
<1>7. CASE (\E m \in Message : TakeSeed(m)) \/ (\E m \in Live : NextIndexMessage(m))
             \/ OpenChunk \/ EmbedText
  BY <1>4, <1>7 DEF TakeSeed, NextIndexMessage, OpenChunk, EmbedText
<1>8. CASE CompleteOpenAppend \/ CloseAndOpen \/ InsertConflict \/ ModelFails
             \/ DatabaseFails \/ Crash
  BY <1>5, <1>8 DEF CompleteOpenAppend, CloseAndOpen, InsertConflict, ModelFails,
     DatabaseFails, Crash, ReturnError
<1> QED
  BY <1>1, <1>2, <1>6, <1>7, <1>8 DEF Next, TakeUp, ProcessMessage

(* A chunk is extended only within the limits, and starts with one message. *)
LEMMA LimitsKept ==
  ASSUME IInv, ChunkInv, [Next]_vars
  PROVE  ChunksWithinLimits'
<1> USE DEF IInv, ChunkInv
<1>0. chunks \in [Message -> Row]
  BY DEF TypeOK
<1>1. CASE chunks' = chunks
  BY <1>1 DEF ChunksWithinLimits, Chunked
<1>2. ASSUME NEW f \in Message, chunks'[f].status # "absent",
             Len(chunks'[f].ids) = 1 \/ WithinLimits(chunks'[f])
             \/ (/\ chunks'[f].ids = chunks[f].ids /\ chunks'[f].tokens = chunks[f].tokens
                 /\ chunks[f].status # "absent")
      PROVE  Len(chunks'[f].ids) > 1 =>
               Len(chunks'[f].ids) <= MaxMessages /\ chunks'[f].tokens <= MaxTokens
  <2>1. CASE Len(chunks'[f].ids) = 1
    BY <2>1
  <2>2. CASE WithinLimits(chunks'[f])
    BY <2>2 DEF WithinLimits
  <2>3. CASE /\ chunks'[f].ids = chunks[f].ids /\ chunks'[f].tokens = chunks[f].tokens
             /\ chunks[f].status # "absent"
    <3>1. f \in Chunked
      BY <2>3 DEF Chunked
    <3>2. Len(chunks[f].ids) > 1 => Len(chunks[f].ids) <= MaxMessages /\ chunks[f].tokens <= MaxTokens
      BY <3>1 DEF ChunksWithinLimits
    <3> QED
      BY <2>3, <3>2
  <2> QED
    BY <1>2, <2>1, <2>2, <2>3
<1>3. CASE Inserts
  <2>1. \A f \in Message : chunks'[f] = chunks[f] \/ Len(chunks'[f].ids) = 1
    BY <1>0, <1>3 DEF Inserts, OpenRow, Alone
  <2> QED
    BY <1>2, <2>1 DEF ChunksWithinLimits, Chunked
<1>4. ASSUME NEW g \in Message, Extends(g) PROVE ChunksWithinLimits'
  <2>1. \A f \in Message : chunks'[f] = chunks[f] \/ WithinLimits(chunks'[f])
    BY <1>0, <1>4 DEF Extends, OpenRow, WithinLimits
  <2> QED
    BY <1>2, <2>1 DEF ChunksWithinLimits, Chunked
<1>5. ASSUME NEW g \in Message, Closes(g) PROVE ChunksWithinLimits'
  <2>1. \A f \in Message \ {g} : chunks'[f] = chunks[f] \/ Len(chunks'[f].ids) = 1
    BY <1>0, <1>5 DEF Closes, OpenRow, Alone
  <2>2. /\ chunks'[g].ids = chunks[g].ids /\ chunks'[g].tokens = chunks[g].tokens
        /\ chunks[g].status # "absent"
    BY <1>5, CloseShape
  <2> QED
    BY <1>2, <2>1, <2>2 DEF ChunksWithinLimits, Chunked
<1> QED
  BY <1>1, <1>3, <1>4, <1>5, ChunkWrites

LEMMA InitChunkInv == Init => ChunkInv
<1> SUFFICES ASSUME Init PROVE ChunkInv
  OBVIOUS
<1>1. Chunked = {}
  BY DEF Init, Chunked, NoRow
<1>2. Cardinality(Chunked) = 0
  BY <1>1, FS_EmptySet
<1> QED
  BY <1>1, <1>2 DEF Init, ChunkInv, CandidateInHand, ChunkChain, ChunksWithinLimits

(* The chunks of the channel, whatever was retried, rebuilt or restarted:   *)
(* one chain, the last chunk open, within the limits.                       *)
THEOREM ChunksInductive == Spec => [](IInv /\ ChunkInv)
<1>1. Init => IInv /\ ChunkInv
  BY InitIInv, InitChunkInv
<1>2. IInv /\ ChunkInv /\ [Next]_vars => IInv' /\ ChunkInv'
  BY StepIInv, CandidateKept, ChainKept, LimitsKept DEF ChunkInv
<1> QED
  BY <1>1, <1>2, PTL DEF Spec

(* The indices of a channel's chunks are 0, 1, ... and only the last chunk  *)
(* is open (CompleteOpenAppend and CloseAndOpen, indexing.go).              *)
THEOREM OneChain == Spec => []ChunkChain
<1>1. ChunkInv => ChunkChain
  BY DEF ChunkInv
<1> QED
  BY <1>1, ChunksInductive, PTL

(* A chunk of several messages respects max_messages and max_tokens.        *)
THEOREM LimitsRespected == Spec => []ChunksWithinLimits
<1>1. ChunkInv => ChunksWithinLimits
  BY DEF ChunkInv
<1> QED
  BY <1>1, ChunksInductive, PTL

-----------------------------------------------------------------------------
(* No loss without a retry.                                                 *)

(* Only stored messages are loaded, worked on and chunked, and a chunk ends *)
(* with a message it holds.                                                 *)
StoredOnly ==
  /\ queue \subseteq 1..sent
  /\ pc \in Busy => msg <= sent
  /\ \A f \in Chunked : chunks[f].last <= sent /\ chunks[f].last \in Elems(chunks[f].ids)

(* The chunks have not come as far as m.                                    *)
Ahead(m) == \A f \in Chunked : chunks[f].last < m

(* BuildSeed has every message that the chunks have not reached still in    *)
(* front of it, in order.                                                   *)
SeedOrder ==
  mode = "building" =>
    /\ \A m \in 1..sent : Ahead(m) => m \in queue \/ (pc \in Busy /\ m = msg)
    /\ pc \in Busy => \A m \in queue : msg < m

(* Claims follow the order of the outbox: a row that was never claimed is   *)
(* due, and no row before a claimed one was passed over.                    *)
ClaimOrder ==
  \A m \in Live :
    /\ outbox[m].status \in {"processing", "done", "dead_letter"} => outbox[m].attempts > 0
    /\ outbox[m].status = "pending" /\ outbox[m].attempts = 0 => outbox[m].due
    /\ outbox[m].status = "processing" =>
         \A n \in Live : n < m => outbox[n].attempts > 0

(* An event that was never rescheduled: it waits for its first claim or is  *)
(* on it.  The chunks do not pass its message by.                           *)
FirstTry(m) ==
  outbox[m].attempts = 0 \/ (outbox[m].attempts = 1 /\ outbox[m].status = "processing")
NotPassed == \A m \in Live : FirstTry(m) => Covered(m) \/ Ahead(m)

LossInv == StoredOnly /\ SeedOrder /\ ClaimOrder /\ NotPassed /\ LossOnlyAfterRetry

(* A write of the chunks: what they held they hold, what is new is the      *)
(* message in hand, and one chunk now ends with it.                         *)
Writes ==
  /\ CompleteOpenAppend \/ CloseAndOpen
  /\ \A g \in Chunked : /\ g \in Chunked' /\ chunks'[g].last >= chunks[g].last
                        /\ Elems(chunks[g].ids) \subseteq Elems(chunks'[g].ids)
  /\ \A g \in Chunked' :
       \/ g \in Chunked /\ chunks'[g].last = chunks[g].last /\ chunks'[g].ids = chunks[g].ids
       \/ chunks'[g].last = msg /\ msg \in Elems(chunks'[g].ids)
  /\ \E g \in Chunked' : chunks'[g].last = msg /\ msg \in Elems(chunks'[g].ids)

LEMMA OneElem == \A m : m \in Elems(<<m>>)
<1> SUFFICES ASSUME NEW m PROVE m \in Elems(<<m>>)
  OBVIOUS
<1>1. 1 \in 1..Len(<<m>>) /\ <<m>>[1] = m
  OBVIOUS
<1> QED
  BY <1>1 DEF Elems

LEMMA ElemsAppend ==
  ASSUME NEW s \in Seq(Message), NEW m \in Message
  PROVE  Elems(s) \subseteq Elems(Append(s, m)) /\ m \in Elems(Append(s, m))
<1>1. /\ Len(Append(s, m)) = Len(s) + 1 /\ Append(s, m)[Len(s) + 1] = m
      /\ \A i \in 1..Len(s) : Append(s, m)[i] = s[i]
  OBVIOUS
<1>2. Len(s) \in Nat
  OBVIOUS
<1>3. m \in Elems(Append(s, m))
  <2>1. Len(s) + 1 \in 1..Len(Append(s, m))
    BY <1>1, <1>2
  <2> QED
    BY <1>1, <2>1 DEF Elems
<1>4. ASSUME NEW i \in 1..Len(s) PROVE s[i] \in Elems(Append(s, m))
  <2>1. i \in 1..Len(Append(s, m)) /\ Append(s, m)[i] = s[i]
    BY <1>1, <1>2
  <2> QED
    BY <2>1 DEF Elems
<1>5. Elems(s) \subseteq Elems(Append(s, m))
  BY <1>4 DEF Elems
<1> QED
  BY <1>3, <1>5

LEMMA WriteShape ==
  ASSUME IInv, CandidateInHand, [Next]_vars
  PROVE  \/ Writes
         \/ /\ chunks' = chunks /\ ~CloseAndOpen
            /\ CompleteOpenAppend => \E f \in Chunked : ~(chunks[f].last < msg)
<1> USE DEF IInv
<1>0. chunks \in [Message -> Row]
  BY DEF TypeOK
<1>1. CASE Inserts
  <2>1. msg \in Message /\ CompleteOpenAppend
    BY <1>1, ReadIsOpen DEF Inserts, CompleteOpenAppend
  <2>2. /\ chunks'[msg].status = "open" /\ chunks'[msg].last = msg /\ chunks'[msg].ids = <<msg>>
        /\ chunks[msg].status = "absent"
        /\ \A g \in Message \ {msg} : chunks'[g] = chunks[g]
    BY <1>0, <1>1, <2>1 DEF Inserts, OpenRow, Alone
  <2>3. msg \in Elems(<<msg>>)
    BY OneElem
  <2>4. ASSUME NEW g \in Chunked
        PROVE  /\ g \in Chunked' /\ chunks'[g].last >= chunks[g].last
               /\ Elems(chunks[g].ids) \subseteq Elems(chunks'[g].ids)
    <3>1. g \in Message \ {msg} /\ chunks'[g] = chunks[g]
      BY <2>2 DEF Chunked
    <3>2. chunks[g].last \in Nat /\ chunks[g].status # "absent"
      BY <1>0, <3>1 DEF Chunked, Row
    <3> QED
      BY <3>1, <3>2 DEF Chunked
  <2>5. msg \in Chunked'
    BY <2>1, <2>2 DEF Chunked
  <2>6. ASSUME NEW g \in Chunked'
        PROVE  \/ g \in Chunked /\ chunks'[g].last = chunks[g].last /\ chunks'[g].ids = chunks[g].ids
               \/ chunks'[g].last = msg /\ msg \in Elems(chunks'[g].ids)
    BY <2>2, <2>3 DEF Chunked
  <2> QED
    BY <2>1, <2>2, <2>3, <2>4, <2>5, <2>6 DEF Writes
<1>2. ASSUME NEW f \in Message, Extends(f) PROVE Writes
  <2>1. msg \in Message /\ CompleteOpenAppend
    BY <1>2, ReadIsOpen DEF Extends, CompleteOpenAppend
  <2>2. /\ chunks[f] \in Row /\ chunks[f].ids \in Seq(Message) /\ chunks[f].last \in Nat
        /\ chunks[f].status = "open" /\ chunks[f].last < msg
    BY <1>0, <1>2 DEF Extends, Row, OpenFirsts
  <2>3. /\ chunks'[f].status = "open" /\ chunks'[f].last = msg
        /\ chunks'[f].ids = Append(chunks[f].ids, msg)
        /\ \A g \in Message \ {f} : chunks'[g] = chunks[g]
    BY <1>0, <1>2 DEF Extends, OpenRow
  <2>4. Elems(chunks[f].ids) \subseteq Elems(chunks'[f].ids) /\ msg \in Elems(chunks'[f].ids)
    BY <2>1, <2>2, <2>3, ElemsAppend
  <2>5. msg \in Nat /\ msg >= chunks[f].last
    BY <2>1, <2>2, ConstantsAssumption DEF Message
  <2>6. ASSUME NEW g \in Chunked
        PROVE  /\ g \in Chunked' /\ chunks'[g].last >= chunks[g].last
               /\ Elems(chunks[g].ids) \subseteq Elems(chunks'[g].ids)
    <3>1. g \in Message /\ chunks[g].last \in Nat /\ chunks[g].status # "absent"
      BY <1>0 DEF Chunked, Row
    <3>2. CASE g = f
      BY <2>3, <2>4, <2>5, <3>1, <3>2 DEF Chunked
    <3>3. CASE g # f
      BY <2>3, <3>1, <3>3 DEF Chunked
    <3> QED
      BY <3>2, <3>3
  <2>7. f \in Chunked'
    BY <2>3 DEF Chunked
  <2>8. ASSUME NEW g \in Chunked'
        PROVE  \/ g \in Chunked /\ chunks'[g].last = chunks[g].last /\ chunks'[g].ids = chunks[g].ids
               \/ chunks'[g].last = msg /\ msg \in Elems(chunks'[g].ids)
    BY <2>3, <2>4 DEF Chunked
  <2> QED
    BY <2>1, <2>3, <2>4, <2>6, <2>7, <2>8 DEF Writes
<1>3. ASSUME NEW f \in Message, Closes(f) PROVE Writes
  <2>1. msg \in Message /\ CloseAndOpen /\ msg # f
    BY <1>3, ReadIsOpen DEF Closes, CloseAndOpen
  <2>2. /\ chunks'[msg].status = "open" /\ chunks'[msg].last = msg /\ chunks'[msg].ids = <<msg>>
        /\ chunks[msg].status = "absent" /\ chunks[f].status = "open"
        /\ chunks'[f].status = "closed" /\ chunks'[f].last = chunks[f].last
        /\ chunks'[f].ids = chunks[f].ids
        /\ \A g \in Message \ {f, msg} : chunks'[g] = chunks[g]
    BY <1>3, CloseShape DEF Closes
  <2>3. msg \in Elems(<<msg>>)
    BY OneElem
  <2>4. ASSUME NEW g \in Chunked
        PROVE  /\ g \in Chunked' /\ chunks'[g].last >= chunks[g].last
               /\ Elems(chunks[g].ids) \subseteq Elems(chunks'[g].ids)
    <3>1. g \in Message /\ chunks[g].last \in Nat /\ chunks[g].status # "absent" /\ g # msg
      BY <1>0, <2>2 DEF Chunked, Row
    <3>2. /\ chunks'[g].status # "absent" /\ chunks'[g].last = chunks[g].last
          /\ chunks'[g].ids = chunks[g].ids
      BY <2>2, <3>1
    <3> QED
      BY <3>1, <3>2 DEF Chunked
  <2>5. msg \in Chunked'
    BY <2>1, <2>2 DEF Chunked
  <2>6. ASSUME NEW g \in Chunked'
        PROVE  \/ g \in Chunked /\ chunks'[g].last = chunks[g].last /\ chunks'[g].ids = chunks[g].ids
               \/ chunks'[g].last = msg /\ msg \in Elems(chunks'[g].ids)
    BY <2>2, <2>3 DEF Chunked
  <2> QED
    BY <2>1, <2>2, <2>3, <2>4, <2>5, <2>6 DEF Writes
<1> QED
  BY <1>1, <1>2, <1>3, ChunkWrites

(* Who writes the outbox: a send, a backoff, a claim of a pending row, the  *)
(* end of the event in hand.                                                *)
Claims(m) ==
  /\ NextIndexMessage(m) /\ outbox[m].status = "pending" /\ InOutbox("processing") = {}
  /\ outbox[m].due /\ \A n \in InOutbox("pending") : outbox[n].due => m <= n
  /\ outbox' = [outbox EXCEPT ![m] = [status |-> "processing",
                                      attempts |-> @.attempts + 1, due |-> @.due]]

Finishes ==
  /\ mode = "serving" /\ pc \in Busy
  /\ msg \in Live /\ outbox[msg].status = "processing"
  /\ \/ /\ CompleteOpenAppend \/ CloseAndOpen
        /\ outbox' = [outbox EXCEPT ![msg].status = "done"]
     \/ ModelFails /\ outbox' = Rescheduled(msg)

LEMMA OutboxWrites ==
  ASSUME IInv, [Next]_vars
  PROVE  \/ /\ outbox' = outbox /\ sent' = sent
            /\ CompleteOpenAppend \/ CloseAndOpen => mode = "building"
         \/ Send
         \/ /\ sent' = sent
            /\ \/ \E m \in Live : BackoffElapses(m)
               \/ \E m \in Live : Claims(m)
               \/ Finishes
<1> USE DEF IInv
<1>1. CASE CompleteOpenAppend \/ CloseAndOpen \/ ModelFails
  <2>1. pc \in Busy /\ sent' = sent
    BY <1>1 DEF CompleteOpenAppend, CloseAndOpen, ModelFails, Busy
  <2>2. CASE mode = "building"
    BY <1>1, <2>1, <2>2 DEF CompleteOpenAppend, CloseAndOpen, ModelFails, MarkDone
  <2>3. CASE mode # "building"
    <3>1. mode = "serving" /\ msg \in Live /\ outbox[msg].status = "processing"
      BY <2>1, <2>3, RowTypes DEF InHand, TypeOK
    <3> QED
      BY <1>1, <2>1, <2>3, <3>1 DEF CompleteOpenAppend, CloseAndOpen, ModelFails, MarkDone, Finishes
  <2> QED
    BY <2>2, <2>3
<1>2. ASSUME NEW m \in Live, NextIndexMessage(m)
      PROVE  sent' = sent /\ (outbox' = outbox \/ Claims(m)) /\ ~CompleteOpenAppend /\ ~CloseAndOpen
  <2>1. sent' = sent /\ ~CompleteOpenAppend /\ ~CloseAndOpen
    BY <1>2 DEF NextIndexMessage, CompleteOpenAppend, CloseAndOpen
  <2>2. CASE outbox[m].status = "pending"
    <3>1. InOutbox("processing") = {} /\ IsLeast(m, {n \in InOutbox("pending") : outbox[n].due})
      BY <1>2, <2>2 DEF NextIndexMessage, NextEvent, InOutbox, IsLeast
    <3>2. outbox' = [outbox EXCEPT ![m] = [status |-> "processing",
                                           attempts |-> @.attempts + 1, due |-> @.due]]
      BY <1>2, <2>2 DEF NextIndexMessage
    <3> QED
      BY <1>2, <2>1, <2>2, <3>1, <3>2 DEF Claims, IsLeast
  <2>3. CASE outbox[m].status # "pending"
    BY <1>2, <2>1, <2>3 DEF NextIndexMessage
  <2> QED
    BY <2>2, <2>3
<1>3. ASSUME NEW m \in Live, BackoffElapses(m) PROVE sent' = sent
  BY <1>3 DEF BackoffElapses
<1>4. ASSUME ~CompleteOpenAppend, ~CloseAndOpen, ~ModelFails, ~Send,
             ~\E m \in Live : NextIndexMessage(m), ~\E m \in Live : BackoffElapses(m)
      PROVE  outbox' = outbox /\ sent' = sent
  BY <1>4 DEF Next, vars, store, Start, Crash, TakeUp, TakeSeed, Serve, ProcessMessage,
     OpenChunk, AppendToOpen, EmbedText, AppendToNil, InsertConflict, DatabaseFails
<1> QED
  BY <1>1, <1>2, <1>3, <1>4

LEMMA ClaimOrderKept ==
  ASSUME IInv, ClaimOrder, [Next]_vars
  PROVE  ClaimOrder'
<1> USE ConstantsAssumption DEF IInv
<1>0. /\ outbox \in [Live -> Event] /\ \A m \in Live : m \in Nat
      /\ \A m \in Live : outbox[m].attempts \in Nat
  BY DEF TypeOK, Live, Event
<1>1. CASE outbox' = outbox
  BY <1>1 DEF ClaimOrder
<1>2. CASE Send
  <2>1. /\ sent + 1 \in Live /\ outbox[sent + 1].status = "unsent"
        /\ outbox'[sent + 1] = [status |-> "pending", attempts |-> 0, due |-> TRUE]
        /\ \A n \in Live \ {sent + 1} : outbox'[n] = outbox[n]
    BY <1>0, <1>2 DEF Send, TypeOK, Live, OutboxRows
  <2>2. ASSUME NEW m \in Live, outbox'[m].status = "processing"
        PROVE  \A n \in Live : n < m => outbox'[n].attempts > 0
    <3>1. m # sent + 1 /\ outbox[m].status = "processing"
      BY <2>1, <2>2
    <3>2. m <= sent
      BY <3>1, <1>0 DEF OutboxRows, TypeOK
    <3>3. \A n \in Live : n < m => n # sent + 1
      BY <3>2, <1>0 DEF TypeOK
    <3> QED
      BY <2>1, <3>1, <3>3 DEF ClaimOrder
  <2>3. ASSUME NEW m \in Live
        PROVE  /\ outbox'[m].status \in {"processing", "done", "dead_letter"} => outbox'[m].attempts > 0
               /\ outbox'[m].status = "pending" /\ outbox'[m].attempts = 0 => outbox'[m].due
    BY <2>1 DEF ClaimOrder
  <2> QED
    BY <2>2, <2>3 DEF ClaimOrder
<1>3. ASSUME NEW m \in Live, BackoffElapses(m) PROVE ClaimOrder'
  <2>1. /\ \A n \in Live : /\ outbox'[n].status = outbox[n].status
                            /\ outbox'[n].attempts = outbox[n].attempts
        /\ outbox'[m].due = TRUE
        /\ \A n \in Live \ {m} : outbox'[n] = outbox[n]
    BY <1>0, <1>3 DEF BackoffElapses, Event
  <2>2. ASSUME NEW n \in Live
        PROVE  /\ outbox'[n].status \in {"processing", "done", "dead_letter"} => outbox'[n].attempts > 0
               /\ outbox'[n].status = "pending" /\ outbox'[n].attempts = 0 => outbox'[n].due
    <3>1. CASE n = m
      BY <2>1, <3>1 DEF ClaimOrder
    <3>2. CASE n # m
      BY <2>1, <3>2 DEF ClaimOrder
    <3> QED
      BY <3>1, <3>2
  <2>3. ASSUME NEW n \in Live, outbox'[n].status = "processing", NEW k \in Live, k < n
        PROVE  outbox'[k].attempts > 0
    BY <2>1, <2>3 DEF ClaimOrder
  <2> QED
    BY <2>2, <2>3 DEF ClaimOrder
<1>4. ASSUME NEW m \in Live, Claims(m) PROVE ClaimOrder'
  <2>1. /\ outbox'[m] = [status |-> "processing", attempts |-> outbox[m].attempts + 1,
                         due |-> outbox[m].due]
        /\ \A n \in Live \ {m} : outbox'[n] = outbox[n]
    BY <1>0, <1>4 DEF Claims
  <2>2. ASSUME NEW n \in Live, n < m PROVE outbox[n].attempts > 0
    <3>1. outbox[n].status # "unsent"
      BY <1>0, <1>4, <2>2 DEF OutboxRows, Claims, TypeOK
    <3>2. outbox[n].status # "processing"
      BY <1>4 DEF Claims, InOutbox
    <3>3. CASE outbox[n].status = "pending"
      <4>1. ~outbox[n].due
        BY <1>0, <1>4, <2>2, <3>3 DEF Claims, InOutbox
      <4> QED
        BY <1>0, <3>3, <4>1 DEF ClaimOrder
    <3>4. CASE outbox[n].status \in {"done", "dead_letter"}
      BY <1>0, <3>4 DEF ClaimOrder
    <3> QED
      BY <1>0, <3>1, <3>2, <3>3, <3>4 DEF Event
  <2>3. \A n \in Live \ {m} : outbox'[n].status # "processing"
    BY <1>4, <2>1 DEF Claims, InOutbox
  <2>4. \A n \in Live : n < m => outbox'[n].attempts > 0
    BY <1>0, <2>1, <2>2
  <2>5. outbox'[m].attempts > 0 /\ outbox'[m].status = "processing"
    BY <1>0, <2>1
  <2> QED
    BY <2>1, <2>3, <2>4, <2>5 DEF ClaimOrder
<1>5. CASE Finishes
  <2>1. /\ msg \in Live /\ outbox'[msg].status # "processing"
        /\ outbox'[msg].attempts = outbox[msg].attempts /\ outbox[msg].attempts > 0
        /\ \A n \in Live \ {msg} : outbox'[n] = outbox[n]
    BY <1>0, <1>5 DEF Finishes, Rescheduled, Event, ClaimOrder
  <2>2. \A n \in Live : outbox'[n].attempts = outbox[n].attempts
    BY <2>1
  <2>3. ASSUME NEW n \in Live
        PROVE  /\ outbox'[n].status \in {"processing", "done", "dead_letter"} => outbox'[n].attempts > 0
               /\ outbox'[n].status = "pending" /\ outbox'[n].attempts = 0 => outbox'[n].due
               /\ outbox'[n].status = "processing" =>
                     \A k \in Live : k < n => outbox'[k].attempts > 0
    <3>1. CASE n = msg
      BY <1>0, <2>1, <2>2, <3>1
    <3>2. CASE n # msg
      BY <2>1, <2>2, <3>2 DEF ClaimOrder
    <3> QED
      BY <3>1, <3>2
  <2> QED
    BY <2>3 DEF ClaimOrder
<1> QED
  BY <1>1, <1>2, <1>3, <1>4, <1>5, OutboxWrites

(* What a message in hand, and the ones still loaded, come from. *)
LEMMA Taken ==
  ASSUME IInv, StoredOnly, [Next]_vars
  PROVE  /\ queue' \subseteq 1..sent
         /\ pc' \in Busy => msg' <= sent
         /\ sent' \in {sent, sent + 1}
<1> USE ConstantsAssumption, RowTypes DEF IInv
<1>1. sent \in Nat
  BY DEF TypeOK
<1>2. CASE \E build \in BOOLEAN : Start(build)
  <2>1. SeedIndexMessages \subseteq 1..sent
    BY DEF SeedIndexMessages
  <2> QED
    BY <1>2, <2>1 DEF Start, store, StoredOnly
<1>3. CASE \E m \in Message : TakeSeed(m)
  BY <1>3 DEF TakeSeed, IsLeast, store, StoredOnly, TypeOK
<1>4. ASSUME NEW m \in Live, NextIndexMessage(m)
      PROVE  queue' \subseteq 1..sent /\ sent' = sent /\ (pc' \in Busy => msg' <= sent)
  <2>1. outbox[m].status # "unsent"
    BY <1>4 DEF NextIndexMessage, NextEvent, IsLeast, InOutbox
  <2> QED
    BY <1>1, <1>4, <2>1 DEF NextIndexMessage, StoredOnly, OutboxRows, Live
<1>5. CASE Send \/ (\E m \in Live : BackoffElapses(m)) \/ Serve \/ UNCHANGED vars
  BY <1>5 DEF Send, BackoffElapses, Serve, worker, store, vars, StoredOnly
<1>6. CASE OpenChunk \/ AppendToOpen \/ EmbedText \/ AppendToNil
  BY <1>6 DEF OpenChunk, AppendToOpen, EmbedText, AppendToNil, store, StoredOnly, Busy
<1>7. CASE CompleteOpenAppend \/ CloseAndOpen \/ InsertConflict \/ ModelFails
             \/ DatabaseFails \/ Crash
  <2>1. pc' = "idle" /\ queue' \subseteq queue /\ sent' = sent
    BY <1>7 DEF CompleteOpenAppend, CloseAndOpen, InsertConflict, ModelFails,
       DatabaseFails, Crash, ReturnError, Forget, store
  <2> QED
    BY <2>1 DEF StoredOnly
<1> QED
  BY <1>2, <1>3, <1>4, <1>5, <1>6, <1>7 DEF Next, TakeUp, ProcessMessage

LEMMA StoredOnlyKept ==
  ASSUME IInv, CandidateInHand, StoredOnly, [Next]_vars
  PROVE  StoredOnly'
<1>1. sent \in Nat /\ sent' \in Nat /\ sent <= sent'
  BY Taken, ConstantsAssumption DEF IInv, TypeOK
<1>2. queue' \subseteq 1..sent'
  BY <1>1, Taken
<1>3. pc' \in Busy => msg' \in Message /\ msg' <= sent'
  <2>1. IInv'
    BY StepIInv
  <2>2. pc' \in Busy => msg' \in Message
    BY <2>1 DEF IInv, InHand
  <2>3. \A m \in Message : m <= sent => m <= sent'
    BY <1>1, ConstantsAssumption DEF Message
  <2> QED
    BY <2>2, <2>3, Taken
<1>4. \A k \in Nat : k <= sent => k <= sent'
  BY <1>1
<1>5. \A g \in Chunked : chunks[g].last \in Nat
  BY DEF IInv, TypeOK, Row, Chunked
<1>6. CASE chunks' = chunks
  BY <1>2, <1>3, <1>4, <1>5, <1>6 DEF StoredOnly, Chunked
<1>7. CASE Writes
  <2>1. msg \in Nat /\ msg <= sent
    BY <1>7, RowTypes, ConstantsAssumption
       DEF Writes, CompleteOpenAppend, CloseAndOpen, StoredOnly, IInv, InHand, Busy, Message
  <2>2. ASSUME NEW g \in Chunked'
        PROVE  chunks'[g].last <= sent' /\ chunks'[g].last \in Elems(chunks'[g].ids)
    <3>1. CASE g \in Chunked /\ chunks'[g].last = chunks[g].last /\ chunks'[g].ids = chunks[g].ids
      BY <1>4, <1>5, <3>1 DEF StoredOnly
    <3>2. CASE chunks'[g].last = msg /\ msg \in Elems(chunks'[g].ids)
      BY <1>4, <2>1, <3>2
    <3> QED
      BY <1>7, <3>1, <3>2 DEF Writes
  <2>3. (\A f \in Chunked : chunks[f].last <= sent /\ chunks[f].last \in Elems(chunks[f].ids))'
    BY <2>2
  <2> QED
    BY <1>2, <1>3, <2>3 DEF StoredOnly
<1> QED
  BY <1>6, <1>7, WriteShape

(* A message the chunks have not reached after a step they had not reached  *)
(* before it.                                                               *)
LEMMA AheadBefore ==
  ASSUME IInv, CandidateInHand, [Next]_vars, NEW m \in Nat, Ahead(m)'
  PROVE  Ahead(m)
<1>1. CASE chunks' = chunks
  BY <1>1 DEF Ahead, Chunked
<1>2. CASE Writes
  <2>1. ASSUME NEW g \in Chunked PROVE chunks[g].last < m
    <3>1. g \in Chunked' /\ chunks'[g].last >= chunks[g].last
      BY <1>2 DEF Writes
    <3>2. chunks'[g].last < m
      BY <3>1 DEF Ahead
    <3>3. chunks[g].last \in Nat /\ chunks'[g].last \in Nat
      <4>1. IInv' /\ g \in Message
        BY StepIInv DEF Chunked
      <4> QED
        BY <4>1 DEF IInv, TypeOK, Row
    <3> QED
      BY <3>1, <3>2, <3>3
  <2> QED
    BY <2>1 DEF Ahead
<1> QED
  BY <1>1, <1>2, WriteShape

LEMMA SeedOrderKept ==
  ASSUME IInv, CandidateInHand, StoredOnly, SeedOrder, [Next]_vars
  PROVE  SeedOrder'
<1> USE ConstantsAssumption, RowTypes
<1>0. sent \in Nat /\ queue \subseteq Message /\ (pc \in Busy => msg \in Message)
  BY DEF IInv, TypeOK, InHand
<1>1. CASE \E build \in BOOLEAN : Start(build)
  <2>1. mode' = "building" => queue' = SeedIndexMessages
    BY <1>1 DEF Start
  <2>2. chunks' = chunks /\ sent' = sent /\ pc' = pc /\ pc = "idle"
    BY <1>1 DEF Start, store, IInv, InHand
  <2> QED
    BY <2>1, <2>2 DEF SeedOrder, SeedIndexMessages, Ahead, Chunked
<1>2. ASSUME NEW m \in Message, TakeSeed(m) PROVE SeedOrder'
  <2>1. /\ IsLeast(m, queue) /\ queue' = queue \ {m} /\ msg' = m /\ pc' = "open"
        /\ chunks' = chunks /\ sent' = sent /\ mode = "building" /\ pc = "idle"
    BY <1>2 DEF TakeSeed, store
  <2>2. ASSUME NEW n \in queue' PROVE msg' < n
    BY <1>0, <2>1 DEF IsLeast, Message
  <2>3. ASSUME NEW n \in 1..sent', Ahead(n)' PROVE n \in queue' \/ (pc' \in Busy /\ n = msg')
    <3>1. Ahead(n) /\ n \in 1..sent
      BY <2>1, <2>3 DEF Ahead, Chunked
    <3>2. n \in queue
      BY <2>1, <3>1 DEF SeedOrder
    <3> QED
      BY <2>1, <3>2 DEF Busy
  <2> QED
    BY <2>2, <2>3 DEF SeedOrder
<1>3. CASE CompleteOpenAppend \/ CloseAndOpen
  <2>1. /\ pc \in Busy /\ pc' = "idle" /\ queue' = queue /\ sent' = sent /\ mode' = mode
    BY <1>3 DEF CompleteOpenAppend, CloseAndOpen, Forget, Busy
  <2>2. ASSUME NEW n \in Nat, Ahead(n)' PROVE n # msg
    <3>1. CASE Writes
      <4>1. PICK g \in Chunked' : chunks'[g].last = msg
        BY <3>1 DEF Writes
      <4>2. chunks'[g].last < n
        BY <2>2, <4>1 DEF Ahead
      <4> QED
        BY <2>2, <4>1, <4>2
    <3>2. CASE chunks' = chunks /\ \E f \in Chunked : ~(chunks[f].last < msg)
      <4>1. Ahead(n)
        BY <2>2, AheadBefore
      <4> QED
        BY <3>2, <4>1 DEF Ahead
    <3> QED
      BY <1>3, <3>1, <3>2, WriteShape
  <2>3. ASSUME mode = "building", NEW n \in 1..sent', Ahead(n)' PROVE n \in queue'
    <3>1. n \in 1..sent /\ n \in Nat
      BY <2>1
    <3>2. Ahead(n)
      BY <2>3, <3>1, AheadBefore
    <3>3. n # msg
      BY <2>2, <2>3, <3>1
    <3> QED
      BY <2>1, <2>3, <3>1, <3>2, <3>3 DEF SeedOrder
  <2> QED
    BY <2>1, <2>3 DEF SeedOrder
<1>4. ASSUME UNCHANGED <<mode, queue, sent, chunks, msg>>, pc' \in Busy <=> pc \in Busy
      PROVE  SeedOrder'
  BY <1>4 DEF SeedOrder, Ahead, Chunked
<1>5. CASE OpenChunk \/ AppendToOpen \/ EmbedText \/ AppendToNil
  <2>1. UNCHANGED <<mode, queue, sent, chunks, msg>> /\ (pc' \in Busy <=> pc \in Busy)
    BY <1>5 DEF OpenChunk, AppendToOpen, EmbedText, AppendToNil, store, Busy
  <2> QED
    BY <1>4, <2>1
<1>6. CASE (\E m \in Live : BackoffElapses(m)) \/ UNCHANGED vars
  <2>1. UNCHANGED <<mode, queue, sent, chunks, msg, pc>>
    BY <1>6 DEF BackoffElapses, vars, worker
  <2> QED
    BY <1>4, <2>1
<1>7. CASE Send \/ Serve \/ (\E m \in Live : NextIndexMessage(m))
  <2>1. mode' # "building"
    BY <1>7 DEF Send, Serve, NextIndexMessage, worker
  <2> QED
    BY <2>1 DEF SeedOrder
<1>8. CASE InsertConflict \/ ModelFails \/ DatabaseFails \/ Crash
  <2>1. mode' # "building"
    BY <1>8 DEF InsertConflict, ModelFails, DatabaseFails, Crash, ReturnError
  <2> QED
    BY <2>1 DEF SeedOrder
<1> QED
  BY <1>1, <1>2, <1>3, <1>5, <1>6, <1>7, <1>8 DEF Next, TakeUp, ProcessMessage

(* An event on its first try after a step was on it before, or is new.      *)
LEMMA FirstTryBefore ==
  ASSUME IInv, [Next]_vars, NEW m \in Live, FirstTry(m)'
  PROVE  FirstTry(m) \/ m = sent + 1
<1> USE DEF IInv
<1>0. outbox \in [Live -> Event] /\ \A n \in Live : outbox[n].attempts \in Nat
  BY DEF TypeOK, Event
<1>1. CASE outbox' = outbox
  BY <1>1 DEF FirstTry
<1>2. CASE Send
  BY <1>0, <1>2 DEF Send, FirstTry
<1>3. ASSUME NEW n \in Live, BackoffElapses(n) PROVE FirstTry(m)
  BY <1>0, <1>3 DEF BackoffElapses, FirstTry, Event
<1>4. ASSUME NEW n \in Live, Claims(n) PROVE FirstTry(m)
  <2>1. /\ outbox'[n] = [status |-> "processing", attempts |-> outbox[n].attempts + 1,
                         due |-> outbox[n].due]
        /\ \A k \in Live \ {n} : outbox'[k] = outbox[k]
    BY <1>0, <1>4 DEF Claims
  <2> QED
    BY <1>0, <2>1 DEF FirstTry
<1>5. CASE Finishes
  <2>1. /\ outbox'[msg].attempts = outbox[msg].attempts /\ outbox[msg].status = "processing"
        /\ \A k \in Live \ {msg} : outbox'[k] = outbox[k]
    BY <1>0, <1>5 DEF Finishes, Rescheduled, Event
  <2> QED
    BY <2>1 DEF FirstTry
<1> QED
  BY <1>1, <1>2, <1>3, <1>4, <1>5, OutboxWrites

LEMMA CoveredStays ==
  ASSUME IInv, CandidateInHand, [Next]_vars, NEW m \in Message, Covered(m)
  PROVE  Covered(m)'
<1>1. PICK f \in Chunked : m \in Elems(chunks[f].ids)
  BY DEF Covered
<1>2. CASE chunks' = chunks
  BY <1>1, <1>2 DEF Covered, Chunked
<1>3. CASE Writes
  <2>1. f \in Chunked' /\ m \in Elems(chunks'[f].ids)
    BY <1>1, <1>3 DEF Writes
  <2> QED
    BY <2>1 DEF Covered
<1> QED
  BY <1>2, <1>3, WriteShape

(* The message the chunks are extended by is the first they have not come   *)
(* to, unless another one before it has been rescheduled.                   *)
LEMMA NotPassedKept ==
  ASSUME IInv, CandidateInHand, StoredOnly, SeedOrder, ClaimOrder, NotPassed, [Next]_vars
  PROVE  NotPassed'
<1> SUFFICES ASSUME NEW m \in Live, FirstTry(m)' PROVE Covered(m)' \/ Ahead(m)'
  BY DEF NotPassed
<1> USE ConstantsAssumption, RowTypes
<1>0. m \in Message /\ m \in Nat /\ sent \in Nat
  BY DEF IInv, TypeOK, Live
<1>1. CASE m = sent + 1
  <2>1. StoredOnly' /\ sent' \in {sent, sent + 1}
    BY StoredOnlyKept, Taken
  <2>2. CASE sent' = sent
    <3>1. ASSUME NEW g \in Chunked' PROVE chunks'[g].last < m
      <4>1. chunks'[g].last <= sent
        BY <2>1, <2>2 DEF StoredOnly
      <4>2. chunks'[g].last \in Nat
        BY StepIInv DEF IInv, TypeOK, Row, Chunked
      <4> QED
        BY <1>0, <1>1, <4>1, <4>2
    <3> QED
      BY <3>1 DEF Ahead
  <2>3. CASE sent' # sent
    <3>1. Send
      BY <2>3, OutboxWrites
    <3>2. chunks' = chunks
      BY <3>1 DEF Send
    <3>3. ASSUME NEW g \in Chunked PROVE chunks[g].last < m
      <4>1. chunks[g].last <= sent /\ chunks[g].last \in Nat
        BY DEF StoredOnly, IInv, TypeOK, Row, Chunked
      <4> QED
        BY <1>0, <1>1, <4>1
    <3> QED
      BY <3>2, <3>3 DEF Ahead, Chunked
  <2> QED
    BY <2>2, <2>3
<1>2. CASE FirstTry(m)
  <2>1. CASE Covered(m)
    BY <1>0, <2>1, CoveredStays
  <2>2. CASE Ahead(m) /\ chunks' = chunks
    BY <2>2 DEF Ahead, Chunked
  <2>3. CASE Ahead(m) /\ Writes
    <3>1. pc \in Busy /\ msg \in Message /\ msg \in Nat /\ msg <= sent
      BY <2>3 DEF Writes, CompleteOpenAppend, CloseAndOpen, Busy, IInv, InHand, StoredOnly, Message
    <3>2. CASE m = msg
      BY <2>3, <3>2 DEF Writes, Covered
    <3>3. CASE msg < m
      <4>1. ASSUME NEW g \in Chunked' PROVE chunks'[g].last < m
        BY <2>3, <3>3 DEF Writes, Ahead
      <4> QED
        BY <4>1 DEF Ahead
    <3>4. CASE m < msg
      <4>1. CASE mode = "building"
        <5>1. m \in 1..sent
          BY <1>0, <3>1, <3>4 DEF Message
        <5>2. m \in queue /\ msg < m
          BY <2>3, <3>1, <3>4, <4>1, <5>1 DEF SeedOrder
        <5> QED
          BY <1>0, <3>1, <3>4, <5>2
      <4>2. CASE mode # "building"
        <5>1. msg \in Live /\ outbox[msg].status = "processing"
          BY <3>1, <4>2 DEF IInv, InHand, TypeOK
        <5>2. outbox[m].attempts > 0 /\ outbox[m].attempts \in Nat
          BY <3>4, <5>1 DEF ClaimOrder, IInv, TypeOK, Event
        <5>3. outbox[m].status = "processing"
          BY <1>2, <5>2 DEF FirstTry
        <5>4. m = msg
          BY <5>1, <5>3 DEF IInv, SingleProcessing, InOutbox
        <5> QED
          BY <3>1, <3>4, <5>4
      <4> QED
        BY <4>1, <4>2
    <3> QED
      BY <1>0, <3>1, <3>2, <3>3, <3>4
  <2> QED
    BY <1>2, <2>1, <2>2, <2>3, WriteShape DEF NotPassed
<1> QED
  BY <1>1, <1>2, FirstTryBefore

LEMMA LossKept ==
  ASSUME IInv, CandidateInHand, LossInv, [Next]_vars
  PROVE  LossOnlyAfterRetry'
<1> SUFFICES ASSUME NEW m \in Live, outbox'[m].status = "done", ~Covered(m)'
             PROVE  /\ outbox'[m].attempts > 1
                    /\ \E f \in Chunked' : chunks'[f].last > m
  BY DEF LossOnlyAfterRetry
<1> USE ConstantsAssumption, RowTypes DEF LossInv
<1>0. /\ m \in Message /\ m \in Nat /\ outbox \in [Live -> Event]
      /\ outbox[m].attempts \in Nat
      /\ \A g \in Chunked : chunks[g].last \in Nat
      /\ \A g \in Chunked' : chunks'[g].last \in Nat
  <2>1. m \in Message /\ m \in Nat
    BY DEF Live, Message
  <2>2. outbox \in [Live -> Event] /\ chunks \in [Message -> Row]
    BY DEF IInv, TypeOK
  <2>3. chunks' \in [Message -> Row]
    BY StepIInv DEF IInv, TypeOK
  <2> QED
    BY <2>1, <2>2, <2>3 DEF Event, Row, Chunked
<1>1. ~Covered(m)
  BY <1>0, CoveredStays
<1>2. CASE outbox[m].status = "done"
  <2>1. outbox'[m] = outbox[m]
    BY <1>2, SettledStay
  <2>2. PICK f \in Chunked : chunks[f].last > m
    BY <1>1, <1>2 DEF LossOnlyAfterRetry
  <2>3. f \in Chunked' /\ chunks'[f].last > m
    <3>1. CASE chunks' = chunks
      BY <2>2, <3>1 DEF Chunked
    <3>2. CASE Writes
      <4>1. f \in Chunked' /\ chunks'[f].last >= chunks[f].last
        BY <3>2 DEF Writes
      <4> QED
        BY <1>0, <2>2, <4>1
    <3> QED
      BY <3>1, <3>2, WriteShape
  <2> QED
    BY <1>1, <1>2, <2>1, <2>3 DEF LossOnlyAfterRetry
<1>3. CASE outbox[m].status # "done"
  <2>1. /\ m = msg /\ outbox[m].status = "processing" /\ outbox'[m].attempts = outbox[m].attempts
        /\ CompleteOpenAppend \/ CloseAndOpen
    <3>1. ~(outbox' = outbox)
      BY <1>3
    <3>2. ~Send
      BY <1>0, <1>3 DEF Send
    <3>3. ASSUME NEW n \in Live PROVE ~BackoffElapses(n) /\ ~Claims(n)
      BY <1>0, <1>3 DEF BackoffElapses, Claims, Event
    <3>4. Finishes
      BY <3>1, <3>2, <3>3, OutboxWrites
    <3>5. ~(outbox' = Rescheduled(msg))
      BY <1>0, <1>3, <3>4 DEF Finishes, Rescheduled, Event
    <3>6. outbox' = [outbox EXCEPT ![msg].status = "done"] /\ (CompleteOpenAppend \/ CloseAndOpen)
      BY <3>4, <3>5 DEF Finishes
    <3>7. m = msg
      BY <1>0, <1>3, <3>6
    <3> QED
      BY <1>0, <3>4, <3>6, <3>7 DEF Finishes, Event
  <2>2. chunks' = chunks /\ \E f \in Chunked : ~(chunks[f].last < m)
    <3>1. ~Writes
      BY <2>1 DEF Writes, Covered
    <3> QED
      BY <2>1, <3>1, WriteShape
  <2>3. PICK f \in Chunked : ~(chunks[f].last < m)
    BY <2>2
  <2>4. chunks[f].last # m
    BY <1>1 DEF Covered, StoredOnly
  <2>5. chunks[f].last > m
    BY <1>0, <2>3, <2>4
  <2>6. ~FirstTry(m)
    BY <1>1, <2>3 DEF NotPassed, Ahead
  <2>7. outbox[m].attempts > 1
    BY <1>0, <2>1, <2>6 DEF FirstTry
  <2> QED
    BY <2>1, <2>2, <2>5, <2>7 DEF Chunked
<1> QED
  BY <1>2, <1>3

LEMMA InitLossInv == Init => LossInv
<1> SUFFICES ASSUME Init PROVE LossInv
  OBVIOUS
<1>1. Chunked = {} /\ queue = {} /\ pc \notin Busy /\ mode = "down"
  BY DEF Init, Chunked, NoRow, Busy
<1>2. \A m \in Live : outbox[m] = NoEvent
  BY DEF Init
<1>3. StoredOnly /\ SeedOrder
  BY <1>1 DEF StoredOnly, SeedOrder
<1>4. ClaimOrder /\ LossOnlyAfterRetry
  BY <1>2 DEF ClaimOrder, LossOnlyAfterRetry, NoEvent
<1>5. NotPassed
  BY <1>1 DEF NotPassed, Ahead
<1> QED
  BY <1>3, <1>4, <1>5 DEF LossInv

THEOREM LossInductive == Spec => [](IInv /\ CandidateInHand /\ LossInv)
<1>1. Init => IInv /\ CandidateInHand /\ LossInv
  BY InitIInv, InitChunkInv, InitLossInv DEF ChunkInv
<1>2. IInv /\ CandidateInHand /\ LossInv /\ [Next]_vars => IInv' /\ CandidateInHand' /\ LossInv'
  BY StepIInv, CandidateKept, StoredOnlyKept, SeedOrderKept, ClaimOrderKept, NotPassedKept,
     LossKept DEF LossInv
<1> QED
  BY <1>1, <1>2, PTL DEF Spec

(* A message is completed without being chunked only after its event failed *)
(* and was rescheduled, whatever crashed, restarted or was rebuilt between. *)
THEOREM OnlyARetryLoses == Spec => []LossOnlyAfterRetry
<1>1. LossInv => LossOnlyAfterRetry
  BY DEF LossInv
<1> QED
  BY <1>1, LossInductive, PTL

-----------------------------------------------------------------------------
(* The refinement of IndexLog.                                              *)

(* The model service answers, and a seed build precedes live traffic.       *)
Quiet == AnyRebuild = FALSE /\ "model" \notin FaultKinds

(* The chunks hold the messages 1..n: the open chunk ends with n.           *)
HoldUpTo(n) ==
  /\ Chunked = {} => n = 0
  /\ \A f \in Chunked : chunks[f].last <= n
  /\ \A f \in OpenFirsts : chunks[f].last = n /\ chunks[f].ids # <<>> /\ chunks[f].ids[Len(chunks[f].ids)] = n

(* The outbox agrees: it is done up to n, at most n + 1 is being processed. *)
DoneUpTo(n) ==
  \A m \in Live :
    /\ m <= n => outbox[m].status = "done"
    /\ n < m /\ m <= sent => outbox[m].status \in {"pending", "processing"}
    /\ outbox[m].status = "pending" => outbox[m].due
    /\ outbox[m].status = "processing" => m = n + 1

(* The process goes on with n + 1: first through the canonical messages,    *)
(* before any live one is stored, then through the outbox.                  *)
NextInHand(n) ==
  /\ n < Seeded => sent = Seeded /\ mode # "serving"
  /\ mode = "building" =>
       /\ sent = Seeded
       /\ queue = IF pc = "idle" THEN (n + 1)..Seeded ELSE (n + 2)..Seeded
  /\ pc \in Busy => msg = n + 1

DistinctIndices == \A f, g \in Chunked : chunks[f].index = chunks[g].index => f = g

QuietInv ==
  /\ DistinctIndices
  /\ \E n \in 0..sent : HoldUpTo(n) /\ DoneUpTo(n) /\ NextInHand(n)

(* The parts of the log that a table of chunks makes up, whose indices are  *)
(* 0, 1, ... once each.                                                     *)
KeysOf(c) == {f \in Message : c[f].status # "absent"}
PartsOf(c) == [i \in 1..Cardinality(KeysOf(c)) |-> c[CHOOSE f \in KeysOf(c) : c[f].index = i - 1].ids]

Numbered(c) ==
  /\ c \in [Message -> Row] /\ Cardinality(KeysOf(c)) \in Nat
  /\ {c[f].index : f \in KeysOf(c)} = 0..(Cardinality(KeysOf(c)) - 1)
  /\ \A f, g \in KeysOf(c) : c[f].index = c[g].index => f = g

LEMMA PartsAt ==
  ASSUME NEW c, Numbered(c)
  PROVE  /\ PartsOf(c) \in Seq(Seq(Message)) /\ Len(PartsOf(c)) = Cardinality(KeysOf(c))
         /\ \A f \in KeysOf(c) : /\ c[f].index + 1 \in 1..Len(PartsOf(c))
                                 /\ PartsOf(c)[c[f].index + 1] = c[f].ids
         /\ \A i \in 1..Len(PartsOf(c)) : \E f \in KeysOf(c) : c[f].index + 1 = i
<1> DEFINE n == Cardinality(KeysOf(c))
           at(i) == CHOOSE f \in KeysOf(c) : c[f].index = i - 1
<1>1. /\ n \in Nat /\ KeysOf(c) \subseteq Message /\ {c[f].index : f \in KeysOf(c)} = 0..(n - 1)
      /\ \A f \in KeysOf(c) : c[f].index \in Nat /\ c[f].ids \in Seq(Message)
  BY DEF Numbered, KeysOf, Row
<1>2. \A i \in 1..n : i - 1 \in 0..(n - 1)
  BY <1>1
<1>3. \A i \in 1..n : \E f \in KeysOf(c) : c[f].index = i - 1
  BY <1>1, <1>2
<1>4. \A i \in 1..n : at(i) \in KeysOf(c) /\ c[at(i)].index = i - 1
  BY <1>3
<1>5. PartsOf(c) = [i \in 1..n |-> c[at(i)].ids]
  BY DEF PartsOf
<1> HIDE DEF n, at
<1>6. PartsOf(c) \in Seq(Seq(Message)) /\ Len(PartsOf(c)) = n
  BY <1>1, <1>4, <1>5
<1>7. ASSUME NEW f \in KeysOf(c)
      PROVE  c[f].index + 1 \in 1..n /\ PartsOf(c)[c[f].index + 1] = c[f].ids
  <2>1. c[f].index \in 0..(n - 1)
    BY <1>1
  <2>2. c[f].index + 1 \in 1..n /\ (c[f].index + 1) - 1 = c[f].index
    <3>1. n \in Nat
      BY <1>1
    <3> QED
      BY <2>1, <3>1
  <2>3. at(c[f].index + 1) = f
    BY <1>4, <2>2 DEF Numbered
  <2> QED
    BY <1>5, <2>2, <2>3
<1>8. ASSUME NEW i \in 1..n PROVE \E f \in KeysOf(c) : c[f].index + 1 = i
  <2>1. PICK f \in KeysOf(c) : c[f].index = i - 1
    BY <1>3
  <2>2. n \in Nat
    BY <1>1
  <2>3. (i - 1) + 1 = i
    BY <2>2
  <2> QED
    BY <2>1, <2>3
<1> QED
  BY <1>6, <1>7, <1>8 DEF n

LEMMA ChunksNumbered ==
  ASSUME IInv, ChunkChain, DistinctIndices
  PROVE  Numbered(chunks) /\ Parts = PartsOf(chunks) /\ Chunked = KeysOf(chunks)
<1>1. Chunked = KeysOf(chunks)
  BY DEF Chunked, KeysOf
<1>2. Numbered(chunks)
  BY <1>1, ChunkedFinite DEF Numbered, IInv, TypeOK, ChunkChain, DistinctIndices
<1> QED
  BY <1>1, <1>2 DEF Parts, ByIndex, PartsOf

(* If no chunk is open there is none. *)
LEMMA SomeOpen ==
  ASSUME IInv, ChunkChain, OpenFirsts = {}
  PROVE  Chunked = {}
<1> DEFINE n == Cardinality(Chunked)
<1>1. /\ n \in Nat /\ {chunks[f].index : f \in Chunked} = 0..(n - 1)
      /\ \A f \in Chunked : chunks[f].status = "open" <=> chunks[f].index = n - 1
  BY ChunkedFinite DEF ChunkChain
<1>2. CASE n > 0
  <2>1. n - 1 \in 0..(n - 1)
    BY <1>1, <1>2
  <2>2. PICK g \in Chunked : chunks[g].index = n - 1
    BY <1>1, <2>1
  <2>3. g \in OpenFirsts
    BY <1>1, <2>2 DEF OpenFirsts, Chunked
  <2> QED
    BY <2>3
<1>3. CASE n = 0
  BY <1>3, ChunkedFinite, FS_EmptySet
<1> QED
  BY <1>1, <1>2, <1>3

(* The number the log has reached is the one the chunks hold up to.         *)
LEMMA IndexedIs ==
  ASSUME IInv, ChunkChain, DistinctIndices, NEW n \in Nat, HoldUpTo(n)
  PROVE  Log!Indexed = n /\ (Parts = <<>> <=> Chunked = {})
<1>1. Numbered(chunks) /\ Parts = PartsOf(chunks) /\ Chunked = KeysOf(chunks)
  BY ChunksNumbered
<1>2. /\ Parts \in Seq(Seq(Message)) /\ Len(Parts) = Cardinality(Chunked)
      /\ \A f \in Chunked : /\ chunks[f].index + 1 \in 1..Len(Parts)
                            /\ Parts[chunks[f].index + 1] = chunks[f].ids
  BY <1>1, PartsAt
<1>3. CASE Chunked = {}
  <2>1. Parts = <<>>
    BY <1>2, <1>3, FS_EmptySet
  <2> QED
    BY <1>3, <2>1 DEF Log!Indexed, HoldUpTo
<1>4. CASE Chunked # {}
  <2>1. PICK f \in OpenFirsts : TRUE
    BY <1>4, SomeOpen
  <2>2. /\ f \in Chunked /\ chunks[f].index = Cardinality(Chunked) - 1
        /\ chunks[f].ids[Len(chunks[f].ids)] = n
    BY <2>1 DEF OpenFirsts, Chunked, ChunkChain, HoldUpTo
  <2>3. Parts # <<>> /\ Parts[Len(Parts)] = chunks[f].ids
    BY <1>2, <2>2, ChunkedFinite
  <2> QED
    BY <1>4, <2>2, <2>3 DEF Log!Indexed, Log!LastOf
<1> QED
  BY <1>3, <1>4

LEMMA DistinctKept ==
  ASSUME IInv, ChunkInv, DistinctIndices, [Next]_vars
  PROVE  DistinctIndices'
<1> USE DEF IInv
<1>0. chunks \in [Message -> Row] /\ ChunkChain
  BY DEF TypeOK, ChunkInv
<1>1. CASE chunks' = chunks
  BY <1>1 DEF DistinctIndices, Chunked
<1>2. CASE Inserts
  <2>1. msg \in Message /\ Chunked = {}
    BY <1>0, <1>2, ReadIsOpen, SomeOpen DEF Inserts, CompleteOpenAppend
  <2>2. \A g \in Message \ {msg} : chunks'[g] = chunks[g]
    BY <1>0, <1>2, <2>1 DEF Inserts
  <2>3. Chunked' \subseteq {msg}
    BY <2>1, <2>2 DEF Chunked
  <2> QED
    BY <2>3 DEF DistinctIndices
<1>3. ASSUME NEW f \in Message, Extends(f) PROVE DistinctIndices'
  <2>1. f \in Chunked
    BY <1>3 DEF Extends, OpenFirsts, Chunked
  <2>2. /\ chunks'[f].index = chunks[f].index
        /\ \A g \in Message \ {f} : chunks'[g] = chunks[g]
    BY <1>0, <1>3 DEF Extends, OpenRow
  <2>3. \A g \in Chunked' : g \in Chunked /\ chunks'[g].index = chunks[g].index
    BY <2>1, <2>2 DEF Chunked
  <2> QED
    BY <2>3 DEF DistinctIndices
<1>4. ASSUME NEW f \in Message, Closes(f) PROVE DistinctIndices'
  <2>1. f \in Chunked /\ chunks[f].index = Cardinality(Chunked) - 1 /\ msg \notin Chunked
    BY <1>0, <1>4 DEF Closes, OpenFirsts, Chunked, ChunkChain
  <2>2. /\ chunks'[msg].index = chunks[f].index + 1
        /\ \A g \in Chunked : chunks'[g].index = chunks[g].index
        /\ Chunked' \subseteq Chunked \cup {msg}
    BY <1>4, <2>1, CloseShape DEF Chunked
  <2>3. \A g \in Chunked : chunks[g].index \in 0..(Cardinality(Chunked) - 1)
    BY <1>0 DEF ChunkChain
  <2>4. \A g \in Chunked : chunks'[g].index # chunks'[msg].index
    BY <2>1, <2>2, <2>3, ChunkedFinite
  <2> QED
    BY <2>2, <2>4 DEF DistinctIndices
<1> QED
  BY <1>1, <1>2, <1>3, <1>4, ChunkWrites DEF ChunkInv

(* A step that writes the chunks indexes the next message.                  *)
LEMMA WriteIndexes ==
  ASSUME IInv, ChunkInv, DistinctIndices, [Next]_vars, CompleteOpenAppend \/ CloseAndOpen,
         NEW n \in Nat, HoldUpTo(n), msg = n + 1
  PROVE  HoldUpTo(n + 1)' /\ (Log!Join(n + 1) \/ Log!Begin(n + 1))
<1> USE DEF IInv
<1>1. /\ Numbered(chunks) /\ Parts = PartsOf(chunks) /\ Chunked = KeysOf(chunks)
  BY ChunksNumbered DEF ChunkInv
<1>2. /\ Numbered(chunks') /\ Parts' = PartsOf(chunks') /\ Chunked' = KeysOf(chunks')
  <2>1. IInv' /\ ChunkChain' /\ DistinctIndices'
    BY StepIInv, ChainKept, DistinctKept
  <2>2. Chunked' = KeysOf(chunks')
    BY DEF Chunked, KeysOf
  <2>3. Cardinality(Chunked') \in Nat
    <3>1. Chunked' \subseteq Message /\ IsFiniteSet(Message)
      BY ConstantsAssumption, FS_Interval DEF Message, Chunked
    <3> QED
      BY <3>1, FS_Subset, FS_CardinalityType
  <2>4. Numbered(chunks')
    BY <2>1, <2>2, <2>3 DEF Numbered, TypeOK, ChunkChain, DistinctIndices
  <2> QED
    BY <2>2, <2>4 DEF Parts, ByIndex, PartsOf
<1>3. /\ Parts \in Seq(Seq(Message)) /\ Len(Parts) = Cardinality(Chunked)
      /\ \A f \in Chunked : /\ chunks[f].index + 1 \in 1..Len(Parts)
                            /\ Parts[chunks[f].index + 1] = chunks[f].ids
      /\ \A i \in 1..Len(Parts) : \E f \in Chunked : chunks[f].index + 1 = i
  BY <1>1, PartsAt
<1>4. /\ Parts' \in Seq(Seq(Message)) /\ Len(Parts') = Cardinality(Chunked')
      /\ \A f \in Chunked' : /\ chunks'[f].index + 1 \in 1..Len(Parts')
                             /\ Parts'[chunks'[f].index + 1] = chunks'[f].ids
      /\ \A i \in 1..Len(Parts') : \E f \in Chunked' : chunks'[f].index + 1 = i
  BY <1>2, PartsAt
<1>5. chunks \in [Message -> Row] /\ msg \in Message
  BY ReadIsOpen DEF TypeOK, CompleteOpenAppend, CloseAndOpen
<1>6. CASE Inserts
  <2>1. Chunked = {}
    BY <1>6, SomeOpen DEF Inserts, ChunkInv
  <2>2. /\ chunks'[msg].status = "open" /\ chunks'[msg].index = 0
        /\ chunks'[msg].last = n + 1 /\ chunks'[msg].ids = <<n + 1>>
        /\ \A g \in Message \ {msg} : chunks'[g] = chunks[g]
    BY <1>5, <1>6 DEF Inserts, OpenRow, Alone
  <2>3. Chunked' = {msg} /\ OpenFirsts' = {msg}
    <3>1. \A g \in Message \ {msg} : chunks'[g].status = "absent"
      BY <2>1, <2>2 DEF Chunked
    <3> QED
      BY <1>5, <2>2, <3>1 DEF Chunked, OpenFirsts
  <2>4. HoldUpTo(n + 1)'
    BY <2>2, <2>3 DEF HoldUpTo
  <2>5. Parts = <<>>
    BY <1>3, <2>1, FS_EmptySet
  <2>6. Len(Parts') = 1 /\ Parts'[1] = <<n + 1>>
    <3>1. Cardinality(Chunked') = 1 /\ msg \in Chunked'
      BY <2>3, FS_Singleton
    <3>2. Parts'[chunks'[msg].index + 1] = chunks'[msg].ids /\ chunks'[msg].index + 1 = 1
      BY <1>4, <2>2, <3>1
    <3> QED
      BY <1>4, <2>2, <3>1, <3>2
  <2>7. Parts' = Append(Parts, <<n + 1>>)
    BY <1>4, <2>5, <2>6
  <2> QED
    BY <2>4, <2>7 DEF Log!Begin
<1>7. ASSUME NEW f \in Message, Extends(f)
      PROVE  HoldUpTo(n + 1)' /\ Log!Join(n + 1)
  <2>1. /\ f \in Chunked /\ OpenFirsts = {f} /\ chunks[f].index = Cardinality(Chunked) - 1
        /\ chunks[f].ids \in Seq(Message) /\ chunks[f].last \in Nat
    BY <1>5, <1>7 DEF Extends, OpenFirsts, Chunked, ChunkInv, ChunkChain, Row
  <2>2. /\ chunks'[f].status = "open" /\ chunks'[f].index = chunks[f].index
        /\ chunks'[f].last = n + 1 /\ chunks'[f].ids = Append(chunks[f].ids, n + 1)
        /\ \A g \in Message \ {f} : chunks'[g] = chunks[g]
    BY <1>5, <1>7 DEF Extends, OpenRow
  <2>3. Chunked' = Chunked /\ OpenFirsts' = {f}
    BY <2>1, <2>2 DEF Chunked, OpenFirsts
  <2>4. HoldUpTo(n + 1)'
    <3>1. \A g \in Chunked' : chunks'[g].last <= n + 1
      <4> SUFFICES ASSUME NEW g \in Chunked' PROVE chunks'[g].last <= n + 1
        OBVIOUS
      <4>1. CASE g = f
        BY <2>2, <4>1
      <4>2. CASE g # f
        <5>1. chunks'[g] = chunks[g] /\ chunks[g].last \in Nat /\ chunks[g].last <= n
          BY <1>5, <2>2, <2>3, <4>2 DEF HoldUpTo, Chunked, Row
        <5> QED
          BY <5>1
      <4> QED
        BY <4>1, <4>2
    <3>2. chunks'[f].ids # <<>> /\ chunks'[f].ids[Len(chunks'[f].ids)] = n + 1
      <4>1. msg \in Message /\ n + 1 \in Message
        BY <1>5
      <4> QED
        BY <2>1, <2>2, <4>1
    <3>3. Chunked' # {}
      BY <2>1, <2>3
    <3> QED
      BY <2>2, <2>3, <3>1, <3>2, <3>3 DEF HoldUpTo
  <2>5. /\ Len(Parts') = Len(Parts) /\ chunks[f].index + 1 = Len(Parts) /\ Parts # <<>>
    BY <1>3, <1>4, <2>1, <2>3, ChunkedFinite
  <2>6. ASSUME NEW i \in 1..Len(Parts)
        PROVE  Parts'[i] = IF i = Len(Parts) THEN Append(Parts[i], n + 1) ELSE Parts[i]
    <3>1. PICK g \in Chunked : chunks[g].index + 1 = i
      BY <1>3
    <3>2. chunks'[g].index = chunks[g].index
      BY <2>2 DEF Chunked
    <3>3. Parts'[i] = chunks'[g].ids /\ Parts[i] = chunks[g].ids
      BY <1>3, <1>4, <2>3, <3>1, <3>2
    <3>4. CASE g = f
      BY <2>2, <2>5, <3>1, <3>3, <3>4
    <3>5. CASE g # f
      <4>1. i # Len(Parts)
        <5>1. chunks[g].index \in Nat /\ chunks[f].index \in Nat
          BY <1>5, <2>1 DEF Chunked, Row
        <5>2. chunks[g].index # chunks[f].index
          BY <2>1, <3>5 DEF DistinctIndices
        <5> QED
          BY <2>5, <3>1, <5>1, <5>2
      <4> QED
        BY <2>2, <3>3, <3>5, <4>1 DEF Chunked
    <3> QED
      BY <3>4, <3>5
  <2>7. Parts' = [Parts EXCEPT ![Len(Parts)] = Append(@, n + 1)]
    BY <1>3, <1>4, <2>5, <2>6
  <2> QED
    BY <2>4, <2>5, <2>7 DEF Log!Join
<1>8. ASSUME NEW f \in Message, Closes(f)
      PROVE  HoldUpTo(n + 1)' /\ Log!Begin(n + 1)
  <2>1. /\ f \in Chunked /\ OpenFirsts = {f} /\ msg \notin Chunked /\ msg # f
        /\ chunks[f].index = Cardinality(Chunked) - 1
    BY <1>8 DEF Closes, OpenFirsts, Chunked, ChunkInv, ChunkChain
  <2>2. /\ chunks'[msg].status = "open" /\ chunks'[msg].index = chunks[f].index + 1
        /\ chunks'[msg].last = n + 1 /\ chunks'[msg].ids = <<n + 1>>
        /\ chunks'[f].status = "closed" /\ chunks'[f].index = chunks[f].index
        /\ chunks'[f].ids = chunks[f].ids /\ chunks'[f].last = chunks[f].last
        /\ \A g \in Message \ {f, msg} : chunks'[g] = chunks[g]
    BY <1>8, CloseShape
  <2>3. Chunked' = Chunked \cup {msg} /\ OpenFirsts' = {msg}
    <3>1. Chunked' = Chunked \cup {msg}
      BY <1>5, <2>1, <2>2 DEF Chunked
    <3>2. \A g \in Message \ {f, msg} : chunks[g].status # "open"
      BY <2>1 DEF OpenFirsts
    <3>3. OpenFirsts' = {msg}
      BY <1>5, <2>2, <3>2 DEF OpenFirsts
    <3> QED
      BY <3>1, <3>3
  <2>4. \A g \in Chunked : /\ chunks'[g].index = chunks[g].index /\ chunks'[g].ids = chunks[g].ids
                           /\ chunks'[g].last = chunks[g].last
    BY <2>1, <2>2 DEF Chunked
  <2>5. HoldUpTo(n + 1)'
    <3>1. \A g \in Chunked' : chunks'[g].last <= n + 1
      <4> SUFFICES ASSUME NEW g \in Chunked' PROVE chunks'[g].last <= n + 1
        OBVIOUS
      <4>1. CASE g = msg
        BY <2>2, <4>1
      <4>2. CASE g \in Chunked
        <5>1. chunks'[g].last = chunks[g].last /\ chunks[g].last \in Nat /\ chunks[g].last <= n
          BY <1>5, <2>4, <4>2 DEF HoldUpTo, Chunked, Row
        <5> QED
          BY <5>1
      <4> QED
        BY <2>3, <4>1, <4>2
    <3>2. <<n + 1>> # <<>> /\ Len(<<n + 1>>) = 1 /\ <<n + 1>>[1] = n + 1
      OBVIOUS
    <3>3. Chunked' # {}
      BY <2>3
    <3> QED
      BY <2>2, <2>3, <3>1, <3>2, <3>3 DEF HoldUpTo
  <2>6. Cardinality(Chunked') = Cardinality(Chunked) + 1
    BY <2>1, <2>3, ChunkedFinite, FS_AddElement
  <2>7. Len(Parts') = Len(Parts) + 1 /\ chunks'[msg].index + 1 = Len(Parts')
    BY <1>3, <1>4, <2>1, <2>2, <2>6, ChunkedFinite
  <2>8. Parts'[Len(Parts) + 1] = <<n + 1>>
    <3>1. msg \in Chunked'
      BY <2>3
    <3>2. Parts'[chunks'[msg].index + 1] = chunks'[msg].ids
      BY <1>4, <3>1
    <3> QED
      BY <2>2, <2>7, <3>2
  <2>9. ASSUME NEW i \in 1..Len(Parts) PROVE Parts'[i] = Parts[i]
    <3>1. PICK g \in Chunked : chunks[g].index + 1 = i
      BY <1>3
    <3> QED
      <4>1. g \in Chunked' /\ chunks'[g].index = chunks[g].index /\ chunks'[g].ids = chunks[g].ids
        BY <2>3, <2>4
      <4>2. Parts'[chunks'[g].index + 1] = chunks'[g].ids
        BY <1>4, <4>1
      <4>3. Parts[chunks[g].index + 1] = chunks[g].ids
        BY <1>3
      <4> QED
        BY <3>1, <4>1, <4>2, <4>3
  <2>10. Parts' = Append(Parts, <<n + 1>>)
    BY <1>3, <1>4, <2>7, <2>8, <2>9
  <2> QED
    BY <2>5, <2>10 DEF Log!Begin
<1>9. ~(chunks' = chunks /\ ~CloseAndOpen /\ (CompleteOpenAppend => \E f \in Chunked : ~(chunks[f].last < msg)))
  <2>1. \A f \in Chunked : chunks[f].last \in Nat /\ chunks[f].last <= n
    BY <1>5 DEF HoldUpTo, Chunked, Row
  <2> QED
    BY <2>1
<1> QED
  BY <1>6, <1>7, <1>8, <1>9, ChunkWrites DEF ChunkInv

(* Any other step leaves the chunks and what is done as they are, and what   *)
(* is next stays next.                                                      *)
LEMMA OthersWait ==
  ASSUME IInv, ChunkInv, [Next]_vars, Quiet, ~CompleteOpenAppend, ~CloseAndOpen,
         NEW n \in 0..sent, HoldUpTo(n), DoneUpTo(n), NextInHand(n)
  PROVE  /\ chunks' = chunks /\ InOutbox("done")' = InOutbox("done")
         /\ sent' = sent \/ Send
         /\ DoneUpTo(n)' /\ NextInHand(n)'
<1> USE ConstantsAssumption, RowTypes DEF IInv
<1>0. /\ outbox \in [Live -> Event] /\ sent \in Nat /\ n \in Nat /\ n <= sent
      /\ \A m \in Live : m \in Nat /\ m > Seeded
  BY DEF TypeOK, Live
<1>1. chunks' = chunks
  BY ChunkWrites DEF Inserts, Extends, Closes, ChunkInv
<1>2. ~ModelFails
  BY DEF Quiet, ModelFails, Fault
<1>3. \A m \in Live : ~BackoffElapses(m)
  BY DEF BackoffElapses, DoneUpTo
<1>4. CASE Send
  <2>1. /\ sent + 1 \in Live /\ outbox[sent + 1].status = "unsent" /\ sent' = sent + 1
        /\ outbox'[sent + 1] = [status |-> "pending", attempts |-> 0, due |-> TRUE]
        /\ \A m \in Live \ {sent + 1} : outbox'[m] = outbox[m]
    BY <1>0, <1>4 DEF Send, TypeOK, Live, OutboxRows
  <2>2. InOutbox("done")' = InOutbox("done")
    BY <2>1 DEF InOutbox
  <2>3. ASSUME NEW m \in Live
        PROVE  (/\ m <= n => outbox[m].status = "done"
                /\ n < m /\ m <= sent => outbox[m].status \in {"pending", "processing"}
                /\ outbox[m].status = "pending" => outbox[m].due
                /\ outbox[m].status = "processing" => m = n + 1)'
    <3>1. CASE m = sent + 1
      BY <1>0, <2>1, <3>1
    <3>2. CASE m # sent + 1
      <4>1. m <= sent + 1 => m <= sent
        BY <1>0, <3>2
      <4> QED
        BY <1>0, <2>1, <3>2, <4>1 DEF DoneUpTo
    <3> QED
      BY <3>1, <3>2
  <2>4. DoneUpTo(n)'
    BY <2>3 DEF DoneUpTo
  <2>5. NextInHand(n)'
    BY <1>0, <1>4 DEF Send, worker, NextInHand
  <2> QED
    BY <1>1, <1>4, <2>2, <2>4, <2>5
<1>5. CASE UNCHANGED <<sent, outbox>>
  <2>1. InOutbox("done")' = InOutbox("done")
    BY <1>5 DEF InOutbox
  <2>2. DoneUpTo(n)'
    BY <1>5 DEF DoneUpTo
  <2>3. NextInHand(n)'
    <3>1. ASSUME NEW build \in BOOLEAN, Start(build) PROVE NextInHand(n)'
      <4>1. pc = "idle" /\ pc' = "idle" /\ mode' = (IF build THEN "building" ELSE "serving")
            /\ build = (sent = Seeded) /\ queue' = IF build THEN SeedIndexMessages ELSE {}
        BY <3>1 DEF Start, InHand, Quiet
      <4>2. CASE build
        <5>1. SeedIndexMessages = (n + 1)..Seeded
          <6>1. sent = Seeded
            BY <4>1, <4>2
          <6>2. ASSUME NEW m \in 1..sent PROVE (\A f \in Chunked : chunks[f].last < m) <=> n < m
            <7>1. CASE Chunked = {}
              BY <1>0, <7>1 DEF HoldUpTo
            <7>2. CASE Chunked # {}
              <8>1. PICK f \in OpenFirsts : TRUE
                BY <7>2, SomeOpen DEF ChunkInv
              <8>2. f \in Chunked /\ chunks[f].last = n
                BY <8>1 DEF HoldUpTo, OpenFirsts, Chunked
              <8>3. \A g \in Chunked : chunks[g].last \in Nat /\ chunks[g].last <= n
                BY DEF HoldUpTo, TypeOK, Row, Chunked
              <8> QED
                BY <1>0, <8>2, <8>3
            <7> QED
              BY <7>1, <7>2
          <6>3. SeedIndexMessages = {m \in 1..sent : n < m}
            BY <6>2 DEF SeedIndexMessages
          <6> QED
            BY <1>0, <6>1, <6>3
        <5> QED
          BY <1>5, <4>1, <4>2, <5>1 DEF NextInHand
      <4>3. CASE ~build
        BY <1>5, <4>1, <4>3 DEF NextInHand
      <4> QED
        BY <4>2, <4>3
    <3>2. ASSUME NEW m \in Message, TakeSeed(m) PROVE NextInHand(n)'
      <4>1. /\ mode = "building" /\ mode' = mode /\ pc = "idle" /\ pc' = "open" /\ msg' = m
            /\ IsLeast(m, queue) /\ queue' = queue \ {m}
        BY <3>2 DEF TakeSeed
      <4>2. queue = (n + 1)..Seeded /\ sent = Seeded
        BY <4>1 DEF NextInHand
      <4>3. m = n + 1
        BY <1>0, <4>1, <4>2 DEF IsLeast
      <4>4. queue' = (n + 2)..Seeded
        BY <1>0, <4>1, <4>2, <4>3
      <4> QED
        BY <1>5, <4>1, <4>2, <4>3, <4>4 DEF NextInHand
    <3>3. CASE Serve
      <4>1. mode = "building" /\ pc = "idle" /\ pc' = "idle" /\ mode' = "serving" /\ queue = {}
        BY <3>3 DEF Serve
      <4>2. (n + 1)..Seeded = {}
        BY <4>1 DEF NextInHand
      <4>3. ~(n < Seeded)
        BY <1>0, <4>2
      <4> QED
        BY <1>5, <4>1, <4>3 DEF NextInHand
    <3>4. ASSUME NEW m \in Live, NextIndexMessage(m) PROVE NextInHand(n)'
      <4>1. /\ mode = "serving" /\ mode' = mode /\ msg' = m /\ pc' = "open"
            /\ outbox[m].status = "processing"
        <5>1. outbox[m].status \in {"processing", "pending"}
          BY <3>4 DEF NextIndexMessage, NextEvent, IsLeast, InOutbox
        <5>2. outbox[m].status # "pending"
          <6>1. ASSUME outbox[m].status = "pending" PROVE FALSE
            <7>1. outbox' = [outbox EXCEPT ![m] = [status |-> "processing",
                                                  attempts |-> @.attempts + 1, due |-> @.due]]
              BY <3>4, <6>1 DEF NextIndexMessage
            <7>2. outbox'[m].status = "processing"
              BY <1>0, <7>1
            <7> QED
              BY <1>5, <6>1, <7>2
          <6> QED
            BY <6>1
        <5> QED
          BY <3>4, <5>1, <5>2 DEF NextIndexMessage
      <4>2. m = n + 1
        BY <4>1 DEF DoneUpTo
      <4> QED
        BY <1>5, <4>1, <4>2 DEF NextInHand
    <3>5. CASE OpenChunk \/ AppendToOpen \/ EmbedText \/ AppendToNil
      <4>1. pc \in Busy /\ pc' \in Busy /\ UNCHANGED <<mode, queue, msg>>
        BY <3>5 DEF OpenChunk, AppendToOpen, EmbedText, AppendToNil, Busy
      <4> QED
        BY <1>5, <4>1 DEF NextInHand
    <3>6. CASE InsertConflict \/ DatabaseFails \/ Crash
      <4>1. pc' = "idle" /\ (mode' = "down" \/ (mode' = mode /\ mode # "building"))
        BY <3>6 DEF InsertConflict, DatabaseFails, Crash, ReturnError, Forget
      <4> QED
        BY <1>5, <4>1 DEF NextInHand
    <3>7. CASE UNCHANGED vars
      BY <3>7 DEF vars, NextInHand
    <3> QED
      BY <1>2, <1>3, <1>4, <3>1, <3>2, <3>3, <3>4, <3>5, <3>6, <3>7
         DEF Next, TakeUp, ProcessMessage, Send
  <2> QED
    BY <1>1, <1>5, <2>1, <2>2, <2>3
<1>6. ASSUME NEW m \in Live, Claims(m), sent' = sent
      PROVE  InOutbox("done")' = InOutbox("done") /\ DoneUpTo(n)' /\ NextInHand(n)'
  <2>1. /\ outbox'[m] = [status |-> "processing", attempts |-> outbox[m].attempts + 1, due |-> outbox[m].due]
        /\ \A k \in Live \ {m} : outbox'[k] = outbox[k]
        /\ outbox[m].status = "pending"
        /\ mode = "serving" /\ mode' = mode /\ pc' = "open" /\ msg' = m
    BY <1>0, <1>6 DEF Claims, NextIndexMessage
  <2>2. m = n + 1
    <3>1. n >= Seeded /\ n < m /\ m <= sent
      <4>1. ~(n < Seeded)
        BY <2>1 DEF NextInHand
      <4>2. ~(m <= n)
        BY <1>6, <2>1 DEF DoneUpTo
      <4>3. ~(m > sent)
        BY <1>6, <2>1 DEF OutboxRows
      <4> QED
        BY <1>0, <1>6, <4>1, <4>2, <4>3
    <3>2. n + 1 \in Live /\ n + 1 <= sent
      BY <1>0, <3>1 DEF Live, TypeOK
    <3>3. n + 1 \in InOutbox("pending") /\ outbox[n + 1].due
      BY <1>0, <1>6, <3>2 DEF DoneUpTo, InOutbox, Claims
    <3>4. m <= n + 1
      BY <1>6, <3>3 DEF Claims
    <3> QED
      BY <1>0, <3>1, <3>4
  <2>3. InOutbox("done")' = InOutbox("done")
    BY <2>1 DEF InOutbox
  <2>4. DoneUpTo(n)'
    BY <1>0, <1>6, <2>1, <2>2 DEF DoneUpTo
  <2>5. NextInHand(n)'
    BY <1>6, <2>1, <2>2 DEF NextInHand
  <2> QED
    BY <2>3, <2>4, <2>5
<1>7. ~Finishes
  BY <1>2 DEF Finishes
<1> QED
  BY <1>1, <1>3, <1>4, <1>5, <1>6, <1>7, OutboxWrites

(* The transaction that writes the chunks completes the event of the very    *)
(* message it indexes.                                                      *)
LEMMA WriteCompletes ==
  ASSUME IInv, StoredOnly, [Next]_vars, CompleteOpenAppend \/ CloseAndOpen,
         NEW n \in 0..sent, DoneUpTo(n), NextInHand(n)
  PROVE  /\ msg = n + 1 /\ n + 1 <= sent /\ sent' = sent
         /\ InOutbox("done")' = IF n + 1 > Seeded THEN InOutbox("done") \cup {n + 1} ELSE InOutbox("done")
         /\ DoneUpTo(n + 1)' /\ NextInHand(n + 1)'
<1> USE ConstantsAssumption, RowTypes DEF IInv
<1>0. /\ outbox \in [Live -> Event] /\ sent \in Nat /\ n \in Nat
      /\ \A m \in Live : m \in Nat /\ m > Seeded
  BY DEF TypeOK, Live
<1>1. /\ pc \in Busy /\ pc' = "idle" /\ UNCHANGED <<sent, mode, queue>>
  BY DEF CompleteOpenAppend, CloseAndOpen, Forget, Busy
<1>2. msg = n + 1 /\ n + 1 <= sent
  BY <1>1 DEF NextInHand, StoredOnly
<1>3. CASE mode = "building"
  <2>1. outbox' = outbox /\ sent = Seeded /\ queue = (n + 2)..Seeded
    BY <1>1, <1>3 DEF CompleteOpenAppend, CloseAndOpen, MarkDone, NextInHand
  <2>2. n + 1 <= Seeded
    BY <1>2, <2>1
  <2>3. InOutbox("done")' = InOutbox("done")
    BY <2>1 DEF InOutbox
  <2>4. DoneUpTo(n + 1)'
    BY <1>0, <1>1, <2>1, <2>2 DEF DoneUpTo, OutboxRows
  <2>5. (n + 1) + 1 = n + 2
    BY <1>0
  <2>6. NextInHand(n + 1)'
    BY <1>1, <1>3, <2>1, <2>5 DEF NextInHand
  <2> QED
    BY <1>0, <1>1, <1>2, <2>2, <2>3, <2>4, <2>6
<1>4. CASE mode # "building"
  <2>1. /\ mode = "serving" /\ n + 1 \in Live /\ outbox[n + 1].status = "processing"
    BY <1>1, <1>2, <1>4 DEF InHand, TypeOK
  <2>2. outbox' = [outbox EXCEPT ![n + 1].status = "done"]
    BY <1>2, <1>4 DEF CompleteOpenAppend, CloseAndOpen, MarkDone
  <2>3. outbox'[n + 1].status = "done" /\ \A m \in Live \ {n + 1} : outbox'[m] = outbox[m]
    BY <1>0, <2>1, <2>2 DEF Event
  <2>4. InOutbox("done")' = InOutbox("done") \cup {n + 1} /\ n + 1 > Seeded
    BY <1>0, <2>1, <2>3 DEF InOutbox
  <2>5. DoneUpTo(n + 1)'
    <3> SUFFICES ASSUME NEW m \in Live
                 PROVE  (/\ m <= n + 1 => outbox[m].status = "done"
                         /\ n + 1 < m /\ m <= sent => outbox[m].status \in {"pending", "processing"}
                         /\ outbox[m].status = "pending" => outbox[m].due
                         /\ outbox[m].status = "processing" => m = (n + 1) + 1)'
      BY DEF DoneUpTo
    <3>1. CASE m = n + 1
      BY <1>0, <2>3, <3>1
    <3>2. CASE m # n + 1
      <4>1. /\ m <= n + 1 => m <= n
            /\ n + 1 < m => n < m
        BY <1>0, <3>2
      <4> QED
        BY <1>1, <2>3, <3>2, <4>1 DEF DoneUpTo
    <3> QED
      BY <3>1, <3>2
  <2>6. ~(n < Seeded)
    BY <2>1 DEF NextInHand
  <2>7. NextInHand(n + 1)'
    BY <1>0, <1>1, <2>1, <2>6 DEF NextInHand
  <2> QED
    BY <1>1, <1>2, <2>4, <2>5, <2>7
<1> QED
  BY <1>3, <1>4

LEMMA RefinementStep ==
  ASSUME IInv, ChunkInv, StoredOnly, QuietInv, Quiet, [Next]_vars
  PROVE  QuietInv' /\ [Log!Next]_Log!vars
<1> USE DEF IInv, QuietInv
<1>1. PICK n \in 0..sent : HoldUpTo(n) /\ DoneUpTo(n) /\ NextInHand(n)
  OBVIOUS
<1>2. DistinctIndices' /\ n \in Nat /\ sent \in Nat
  BY DistinctKept, ConstantsAssumption DEF TypeOK
<1>3. CASE CompleteOpenAppend \/ CloseAndOpen
  <2>1. /\ msg = n + 1 /\ n + 1 <= sent /\ sent' = sent
        /\ InOutbox("done")' = IF n + 1 > Seeded THEN InOutbox("done") \cup {n + 1} ELSE InOutbox("done")
        /\ DoneUpTo(n + 1)' /\ NextInHand(n + 1)'
    BY <1>1, <1>3, WriteCompletes
  <2>2. HoldUpTo(n + 1)' /\ (Log!Join(n + 1) \/ Log!Begin(n + 1))
    BY <1>1, <1>2, <1>3, <2>1, WriteIndexes
  <2>3. n + 1 \in 0..sent'
    BY <1>2, <2>1
  <2>4. Log!Indexed = n
    BY <1>1, <1>2, IndexedIs DEF ChunkInv
  <2>5. Log!Index
    BY <1>2, <2>1, <2>2, <2>4 DEF Log!Index
  <2> QED
    BY <1>2, <2>1, <2>2, <2>3, <2>5 DEF Log!Next
<1>4. CASE ~CompleteOpenAppend /\ ~CloseAndOpen
  <2>1. /\ chunks' = chunks /\ InOutbox("done")' = InOutbox("done")
        /\ (sent' = sent \/ Send) /\ DoneUpTo(n)' /\ NextInHand(n)'
    BY <1>1, <1>4, OthersWait
  <2>2. HoldUpTo(n)' /\ Parts' = Parts
    BY <1>1, <2>1 DEF HoldUpTo, Parts, ByIndex, Chunked, OpenFirsts
  <2>3. n \in 0..sent'
    BY <1>2, <2>1 DEF Send
  <2>4. (sent' = sent /\ UNCHANGED Log!vars) \/ Log!Store
    BY <2>1, <2>2 DEF Send, Log!vars, Log!Store
  <2> QED
    BY <1>2, <2>1, <2>2, <2>3, <2>4 DEF Log!Next
<1> QED
  BY <1>3, <1>4

LEMMA RefinementInit ==
  ASSUME Init
  PROVE  QuietInv /\ Log!Init
<1> USE ConstantsAssumption, RowTypes DEF Init
<1>1. Chunked = {} /\ OpenFirsts = {} /\ InOutbox("done") = {}
  BY DEF Chunked, OpenFirsts, InOutbox, NoRow, NoEvent
<1>2. Parts = <<>>
  BY <1>1, FS_EmptySet DEF Parts
<1>3. HoldUpTo(0)
  BY <1>1 DEF HoldUpTo
<1>4. DoneUpTo(0)
  BY DEF DoneUpTo, NoEvent, Live
<1>5. NextInHand(0)
  BY DEF NextInHand
<1>6. 0 \in 0..sent
  OBVIOUS
<1> QED
  BY <1>1, <1>2, <1>3, <1>4, <1>5, <1>6 DEF QuietInv, DistinctIndices, Log!Init

(* The index is a correct implementation of the log, step by step: while the *)
(* model service answers and a seed build precedes live traffic, every step - *)
(* of the worker, a sender, a crash, a failed transaction - stores a message, *)
(* indexes the next one and completes its event, or changes nothing that the *)
(* log tells of.                                                            *)
THEOREM StepsOfTheLog == ASSUME Quiet PROVE Spec => Log!Safety
<1>1. Init => QuietInv /\ Log!Init
  BY RefinementInit
<1>2. /\ IInv /\ ChunkInv
      /\ IInv /\ CandidateInHand /\ LossInv
      /\ QuietInv /\ [Next]_vars
      => QuietInv' /\ [Log!Next]_Log!vars
  BY RefinementStep DEF LossInv
<1> QED
  BY <1>1, <1>2, ChunksInductive, LossInductive, PTL DEF Spec, Log!Safety
=============================================================================
