---------------------------- MODULE IndexWorker ----------------------------
(***************************************************************************)
(* The text-indexing pipeline of the Go server: the outbox, the chunks     *)
(* table and its embeddings in Postgres, the one sequential worker loop    *)
(* that moves messages from the first to the second through the model      *)
(* service, and the seed build that runs before the server starts to       *)
(* listen.                                                                 *)
(*                                                                         *)
(*   internal/service/index_worker.go   the loop and one message's steps   *)
(*   internal/repository/indexing.go    the statements and transactions    *)
(*   internal/client/model_service.go   the calls to the model service     *)
(*   cmd/vsf-server/main.go             the order of a start               *)
(*                                                                         *)
(* A message is its feed ordinal.  Messages 1..Seeded are the canonical    *)
(* rows imported before the server starts; they have no outbox row.  The   *)
(* later ones are live: the transaction that stores one also inserts its   *)
(* outbox row, and event ids and feed ordinals are assigned in the same    *)
(* order (module SendTx), so "lowest event id" is "lowest ordinal" here.   *)
(* Every route of the server sends to the one demo channel, hence there is *)
(* one sequence of chunks.                                                 *)
(***************************************************************************)
EXTENDS Integers, Sequences, FiniteSets

CONSTANTS
  Seeded,       \* number of canonical messages imported by the seed
  MaxSent,      \* bound: messages ever stored, canonical ones included
  MaxMessages,  \* chunking.max_messages of the canonical config
  MaxTokens,    \* chunking.max_tokens of the canonical config
  Tokens,       \* token count that each message adds to a chunk
  MaxAttempts,  \* claims after which a failing event is dead-lettered (5)
  FaultKinds,   \* what may go wrong: subset of {"crash", "model", "db"}
  MaxFaults,    \* bound: how often something goes wrong
  AnyRebuild    \* TRUE: PHASE3_SEED_BUILD=1 may be set at any start; FALSE: it is set
                \* exactly as long as no live message has been stored

Message == 1..MaxSent
Live    == (Seeded + 1)..MaxSent

ASSUME ConstantsAssumption ==
  /\ Seeded \in Nat /\ MaxSent \in Nat /\ Seeded <= MaxSent
  /\ MaxMessages \in Nat /\ MaxTokens \in Nat /\ MaxAttempts \in Nat \ {0}
  /\ Tokens \in [Message -> Nat]
  /\ FaultKinds \subseteq {"crash", "model", "db"} /\ MaxFaults \in Nat
  /\ AnyRebuild \in BOOLEAN

VARIABLES
  sent,       \* messages 1..sent are stored
  outbox,     \* [Live -> row]: status, attempt_count, and "next_attempt_at <= now()"
  chunks,     \* [Message -> row] keyed by first_message_id, the primary key
  embedding,  \* [Message -> ids the closing embedding was computed from], <<>> for no row
  mode,       \* the process: "down", "building" (BuildSeed) or "serving"
  queue,      \* messages BuildSeed has loaded and not yet processed
  pc,         \* next step of the message being processed; "idle" between messages
  msg,        \* the message being processed
  snap,       \* the open chunk as OpenChunk returned it, or NoChunk
  asm,        \* the last AssembledChunk the model service returned
  faults      \* faults so far

store  == <<sent, outbox, chunks, embedding>>
worker == <<mode, queue, pc, msg, snap, asm>>
vars   == <<sent, outbox, chunks, embedding, mode, queue, pc, msg, snap, asm, faults>>

Assembled == [ids : Seq(Message), tokens : Nat]
Row   == [status : {"absent", "open", "closed"}, index : Nat,
          ids : Seq(Message), tokens : Nat, last : Nat]
Event == [status : {"unsent", "pending", "processing", "done", "dead_letter"},
          attempts : Nat, due : BOOLEAN]

NoRow   == [status |-> "absent", index |-> 0, ids |-> <<>>, tokens |-> 0, last |-> 0]
NoEvent == [status |-> "unsent", attempts |-> 0, due |-> TRUE]
NoChunk == [first |-> 0, row |-> NoRow]
NoAsm   == [ids |-> <<>>, tokens |-> 0]

Busy == {"open", "append", "embed", "fresh", "complete", "close"}

-----------------------------------------------------------------------------
(* What the queries select.                                                *)

InOutbox(s)  == {m \in Live : outbox[m].status = s}
Chunked      == {f \in Message : chunks[f].status # "absent"}
OpenFirsts   == {f \in Message : chunks[f].status = "open"}
Elems(ids)   == {ids[i] : i \in 1..Len(ids)}
Covered(m)   == \E f \in Chunked : m \in Elems(chunks[f].ids)
IsLeast(m, S) == m \in S /\ \A n \in S : m <= n

\* Mutants of NextEvent: new events first; claimed rows never resumed.
NextEvent_PendingFirst(m) ==
  LET due == {n \in InOutbox("pending") : outbox[n].due}
  IN  IsLeast(m, IF due # {} THEN due ELSE InOutbox("processing"))

NextEvent_NoResume(m) == IsLeast(m, {n \in InOutbox("pending") : outbox[n].due})

\* ORDER BY event_id LIMIT 1 over the processing rows, else over the due pending ones.
NextEvent(m) ==
  IF InOutbox("processing") # {}
  THEN IsLeast(m, InOutbox("processing"))
  ELSE IsLeast(m, {n \in InOutbox("pending") : outbox[n].due})

\* Stored messages of the channel that no chunk's last_feed_ordinal has reached.
SeedIndexMessages ==
  {m \in 1..sent : \A f \in Chunked : chunks[f].last < m}

\* POST /v1/chunk/append: the message added to a chunk, or to an empty one.
Assemble(open, m) ==
  [ids |-> Append(open.row.ids, m), tokens |-> open.row.tokens + Tokens[m]]

\* Mutant of WithinLimits: the token limit is forgotten.
WithinLimits_MessagesOnly(a) == Len(a.ids) <= MaxMessages

WithinLimits(a) == Len(a.ids) <= MaxMessages /\ a.tokens <= MaxTokens

-----------------------------------------------------------------------------
Init ==
  /\ sent = Seeded
  /\ outbox = [m \in Live |-> NoEvent]
  /\ chunks = [m \in Message |-> NoRow]
  /\ embedding = [m \in Message |-> <<>>]
  /\ mode = "down" /\ queue = {}
  /\ pc = "idle" /\ msg = 0 /\ snap = NoChunk /\ asm = NoAsm
  /\ faults = 0

(* Dropping everything the process held in memory. *)
Forget ==
  /\ pc' = "idle" /\ msg' = 0 /\ snap' = NoChunk /\ asm' = NoAsm

(* Leaving processMessage with an error: the worker loop logs it and goes   *)
(* on, BuildSeed hands it to main, which exits.                            *)
ReturnError ==
  /\ Forget
  /\ IF mode = "building" THEN mode' = "down" /\ queue' = {}
                          ELSE UNCHANGED <<mode, queue>>

Fault(kind) ==
  /\ kind \in FaultKinds /\ faults < MaxFaults
  /\ faults' = faults + 1

-----------------------------------------------------------------------------
(* The environment: senders, time, the operator, crashes.                  *)

\* A send commits: the message and its outbox row appear together.
Send ==
  /\ mode = "serving" /\ sent < MaxSent
  /\ sent' = sent + 1
  /\ outbox' = [outbox EXCEPT ![sent + 1] =
                  [status |-> "pending", attempts |-> 0, due |-> TRUE]]
  /\ UNCHANGED <<chunks, embedding, worker, faults>>

\* next_attempt_at of a rescheduled event passes.
BackoffElapses(m) ==
  /\ outbox[m].status = "pending" /\ ~outbox[m].due
  /\ outbox' = [outbox EXCEPT ![m].due = TRUE]
  /\ UNCHANGED <<sent, chunks, embedding, worker, faults>>

\* The process starts, with or without PHASE3_SEED_BUILD=1.
Start(build) ==
  /\ mode = "down"
  /\ AnyRebuild \/ build = (sent = Seeded)
  /\ mode' = IF build THEN "building" ELSE "serving"
  /\ queue' = IF build THEN SeedIndexMessages ELSE {}
  /\ UNCHANGED <<store, pc, msg, snap, asm, faults>>

Crash ==
  /\ mode # "down" /\ Fault("crash")
  /\ mode' = "down" /\ queue' = {} /\ Forget
  /\ UNCHANGED store

-----------------------------------------------------------------------------
(* Taking up a message.                                                    *)

\* BuildSeed takes the next loaded message (event id 0, no outbox row touched).
TakeSeed(m) ==
  /\ mode = "building" /\ pc = "idle" /\ IsLeast(m, queue)
  /\ queue' = queue \ {m}
  /\ msg' = m /\ pc' = "open"
  /\ UNCHANGED <<store, mode, snap, asm, faults>>

\* BuildSeed is done: main starts the worker and listens.
Serve ==
  /\ mode = "building" /\ pc = "idle" /\ queue = {}
  /\ mode' = "serving"
  /\ UNCHANGED <<store, queue, pc, msg, snap, asm, faults>>

\* NextIndexMessage: only a pending row is marked processing and counted.
NextIndexMessage(m) ==
  /\ mode = "serving" /\ pc = "idle" /\ NextEvent(m)
  /\ outbox' = IF outbox[m].status = "pending"
               THEN [outbox EXCEPT ![m] = [status |-> "processing",
                                           attempts |-> @.attempts + 1, due |-> @.due]]
               ELSE outbox
  /\ msg' = m /\ pc' = "open"
  /\ UNCHANGED <<sent, chunks, embedding, mode, queue, snap, asm, faults>>

-----------------------------------------------------------------------------
(* processMessage, one step per call.                                      *)

OpenChunk ==
  /\ pc = "open"
  /\ \/ OpenFirsts = {} /\ snap' = NoChunk
     \/ \E f \in OpenFirsts : snap' = [first |-> f, row |-> chunks[f]]
  /\ pc' = "append"
  /\ UNCHANGED <<store, mode, queue, msg, asm, faults>>

AppendToOpen ==
  /\ pc = "append"
  /\ asm' = Assemble(snap, msg)
  /\ pc' = IF snap = NoChunk \/ WithinLimits(Assemble(snap, msg))
           THEN "complete" ELSE "embed"
  /\ UNCHANGED <<store, mode, queue, msg, snap, faults>>

EmbedText ==
  /\ pc = "embed"
  /\ pc' = "fresh"
  /\ UNCHANGED <<store, mode, queue, msg, snap, asm, faults>>

AppendToNil ==
  /\ pc = "fresh"
  /\ asm' = Assemble(NoChunk, msg)
  /\ pc' = "close"
  /\ UNCHANGED <<store, mode, queue, msg, snap, faults>>

\* Mutants of MarkDone: the status of the retired lexical publish step; every event
\* up to this one.
MarkDone_Legacy ==
  outbox' = IF mode = "building" THEN outbox
            ELSE [outbox EXCEPT ![msg].status = "lexical_pending"]

MarkDone_UpTo ==
  outbox' = IF mode = "building" THEN outbox
            ELSE [m \in DOMAIN outbox |->
                    IF m <= msg /\ m <= sent THEN [outbox[m] EXCEPT !.status = "done"]
                    ELSE outbox[m]]

(* UPDATE outbox SET status='done', unless the event id is 0. *)
MarkDone ==
  outbox' = IF mode = "building" THEN outbox
            ELSE [outbox EXCEPT ![msg].status = "done"]

OpenRow(i) ==
  [status |-> "open", index |-> i, ids |-> asm.ids, tokens |-> asm.tokens, last |-> msg]

\* Mutants of UpdateOpen: the ordinals compared the wrong way round; status='open'
\* missing from the WHERE clause.
UpdateOpen_Swapped(f) ==
  IF msg < chunks[f].last THEN [chunks EXCEPT ![f] = OpenRow(chunks[f].index)] ELSE chunks

UpdateOpen_EveryChunk(f) ==
  IF chunks[f].last < msg
  THEN [g \in Message |-> IF g \in Chunked
                          THEN [OpenRow(chunks[g].index) EXCEPT !.status = chunks[g].status]
                          ELSE NoRow]
  ELSE chunks

\* The open chunk's row after CompleteOpenAppend's conditional UPDATE.
UpdateOpen(f) ==
  IF chunks[f].last < msg THEN [chunks EXCEPT ![f] = OpenRow(chunks[f].index)] ELSE chunks

\* Mutant of CompleteOpenAppend: the completion left to a later statement.
CompleteOpenAppend_NotDone ==
  /\ pc = "complete"
  /\ IF OpenFirsts = {}
     THEN chunks[msg].status = "absent" /\ chunks' = [chunks EXCEPT ![msg] = OpenRow(0)]
     ELSE \E f \in OpenFirsts : chunks' = UpdateOpen(f)
  /\ Forget
  /\ UNCHANGED <<sent, outbox, embedding, mode, queue, faults>>

\* CompleteOpenAppend: insert the first chunk, or update the open one unless it
\* has already reached this ordinal; either way the event is done.
CompleteOpenAppend ==
  /\ pc = "complete"
  /\ IF OpenFirsts = {}
     THEN chunks[msg].status = "absent" /\ chunks' = [chunks EXCEPT ![msg] = OpenRow(0)]
     ELSE \E f \in OpenFirsts : chunks' = UpdateOpen(f)
  /\ MarkDone
  /\ Forget
  /\ UNCHANGED <<sent, embedding, mode, queue, faults>>

\* Mutants of CloseAndOpen: chunk_index not advanced; the vector of the over-limit
\* candidate stored instead of the frozen text's.
CloseAndOpen_SameIndex ==
  /\ pc = "close" /\ chunks[msg].status = "absent"
  /\ chunks' = [chunks EXCEPT ![snap.first].status = "closed",
                              ![msg] = OpenRow(snap.row.index)]
  /\ embedding' = [embedding EXCEPT ![snap.first] = snap.row.ids]
  /\ MarkDone
  /\ Forget
  /\ UNCHANGED <<sent, mode, queue, faults>>

CloseAndOpen_CandidateVector ==
  /\ pc = "close" /\ chunks[msg].status = "absent"
  /\ chunks' = [chunks EXCEPT ![snap.first].status = "closed",
                              ![msg] = OpenRow(snap.row.index + 1)]
  /\ embedding' = [embedding EXCEPT ![snap.first] = Append(snap.row.ids, msg)]
  /\ MarkDone
  /\ Forget
  /\ UNCHANGED <<sent, mode, queue, faults>>

\* CloseAndOpen: freeze the chunk that was read, store its embedding unless there
\* is one, and open a chunk whose primary key is the triggering message.
CloseAndOpen ==
  /\ pc = "close" /\ chunks[msg].status = "absent"
  /\ chunks' = [chunks EXCEPT ![snap.first].status = "closed",
                              ![msg] = OpenRow(snap.row.index + 1)]
  /\ embedding' = IF embedding[snap.first] = <<>>
                  THEN [embedding EXCEPT ![snap.first] = snap.row.ids]
                  ELSE embedding
  /\ MarkDone
  /\ Forget
  /\ UNCHANGED <<sent, mode, queue, faults>>

\* The INSERT meets a chunk with the same primary key: the transaction rolls back.
InsertConflict ==
  /\ \/ pc = "close"
     \/ pc = "complete" /\ OpenFirsts = {}
  /\ chunks[msg].status # "absent"
  /\ ReturnError
  /\ UNCHANGED <<store, faults>>

\* Mutant of Rescheduled: one attempt too many.
Rescheduled_OneMore(m) ==
  [outbox EXCEPT ![m].status = IF outbox[m].attempts > MaxAttempts
                               THEN "dead_letter" ELSE "pending",
                 ![m].due = FALSE]

\* Reschedule: dead-letter or retry, after the backoff.
Rescheduled(m) ==
  [outbox EXCEPT ![m].status = IF outbox[m].attempts >= MaxAttempts
                               THEN "dead_letter" ELSE "pending",
                 ![m].due = FALSE]

\* A call to the model service fails (after the client's own attempts): a live
\* event is rescheduled or dead-lettered, a seed build gives up.
ModelFails ==
  /\ pc \in {"append", "embed", "fresh"} /\ Fault("model")
  /\ outbox' = IF mode = "building" THEN outbox ELSE Rescheduled(msg)
  /\ ReturnError
  /\ UNCHANGED <<sent, chunks, embedding>>

\* A statement or transaction of processMessage fails, RescheduleIndex included:
\* nothing is written and the row keeps its status.
DatabaseFails ==
  /\ pc \in Busy /\ Fault("db")
  /\ ReturnError
  /\ UNCHANGED store

-----------------------------------------------------------------------------
ProcessMessage ==
  \/ OpenChunk \/ AppendToOpen \/ EmbedText \/ AppendToNil
  \/ CompleteOpenAppend \/ CloseAndOpen \/ InsertConflict

TakeUp ==
  \/ \E m \in Message : TakeSeed(m)
  \/ \E m \in Live : NextIndexMessage(m)
  \/ Serve

Next ==
  \/ Send
  \/ \E m \in Live : BackoffElapses(m)
  \/ \E build \in BOOLEAN : Start(build)
  \/ TakeUp
  \/ ProcessMessage
  \/ ModelFails
  \/ DatabaseFails
  \/ Crash

Spec == Init /\ [][Next]_vars

(* The worker is one goroutine whose every call returns, the process is     *)
(* restarted when it is down, and time passes.                             *)
Fairness ==
  /\ WF_vars(TakeUp)
  /\ WF_vars(ProcessMessage)
  /\ WF_vars(\E build \in BOOLEAN : Start(build))
  /\ \A m \in Live : WF_vars(BackoffElapses(m))

FairSpec == Spec /\ Fairness

-----------------------------------------------------------------------------
(* Type invariant: the rows, the worker's registers and the bounds.        *)
TypeOK ==
  /\ sent \in Seeded..MaxSent
  /\ outbox \in [Live -> Event]
  /\ chunks \in [Message -> Row]
  /\ embedding \in [Message -> Seq(Message)]
  /\ mode \in {"down", "building", "serving"}
  /\ queue \subseteq Message
  /\ pc \in Busy \cup {"idle"}
  /\ msg \in Message \cup {0}
  /\ snap \in [first : Message \cup {0}, row : Row]
  /\ asm \in Assembled
  /\ faults \in 0..MaxFaults

(* NextIndexMessage resumes the processing row before it claims another, so *)
(* crashes and failed transactions never leave two events claimed at once. *)
SingleProcessing ==
  \A m, n \in InOutbox("processing") : m = n

(* Reschedule gives up on an event exactly when it has been claimed         *)
(* MaxAttempts times: no event is claimed more often, none is dead-lettered *)
(* earlier, and a pending one always has a claim left.                      *)
AttemptsBounded ==
  \A m \in Live :
    /\ outbox[m].attempts <= MaxAttempts
    /\ outbox[m].status = "dead_letter" => outbox[m].attempts = MaxAttempts
    /\ outbox[m].status = "pending" => outbox[m].attempts < MaxAttempts

(* A chunk is searchable by vector exactly when it is closed, and the       *)
(* vector was computed from the messages it was frozen with: the text read  *)
(* before two calls to the model service is the text CloseAndOpen freezes.  *)
ClosedIffEmbedded ==
  \A f \in Message :
    embedding[f] = IF chunks[f].status = "closed" THEN chunks[f].ids ELSE <<>>

(* The chunks form one chain: indices 0, 1, ... without a gap or a          *)
(* duplicate, the last one open and all before it closed.                   *)
ChunkChain ==
  /\ {chunks[f].index : f \in Chunked} = 0..(Cardinality(Chunked) - 1)
  /\ \A f \in Chunked : chunks[f].status = "open"
                          <=> chunks[f].index = Cardinality(Chunked) - 1

(* A chunk that holds more than one message respects both limits.           *)
ChunksWithinLimits ==
  \A f \in Chunked : Len(chunks[f].ids) > 1 =>
    Len(chunks[f].ids) <= MaxMessages /\ chunks[f].tokens <= MaxTokens

(* A closed chunk never changes, whichever message is retried or rebuilt.   *)
ClosedChunksFrozen ==
  [][\A f \in Message : chunks[f].status = "closed" => chunks'[f] = chunks[f]]_vars

(* A settled event is never taken up again: done and dead_letter are final. *)
SettledIsFinal ==
  [][\A m \in Live : outbox[m].status \in {"done", "dead_letter"}
                        => outbox'[m] = outbox[m]]_vars

(* An event done without its message in any chunk has failed and been       *)
(* rescheduled before, and the chunks had moved past it meanwhile.          *)
LossOnlyAfterRetry ==
  \A m \in Live :
    outbox[m].status = "done" /\ ~Covered(m) =>
      /\ outbox[m].attempts > 1
      /\ \E f \in Chunked : chunks[f].last > m

(* Reschedule "preserves failed work for the same worker": an event that is *)
(* done has its message in a chunk.                                         *)
DoneIsChunked ==
  \A m \in Live : outbox[m].status = "done" => Covered(m)

(* Bounded retry with a dead letter: every stored live message is           *)
(* eventually settled.                                                      *)
EventuallySettled ==
  \A m \in Live :
    (m <= sent) ~> (outbox[m].status \in {"done", "dead_letter"})
=============================================================================
