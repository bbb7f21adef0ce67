------------------------------ MODULE SendTx -------------------------------
(***************************************************************************)
(* Concurrent sends and uploads against the store, statement by statement. *)
(*                                                                         *)
(*   internal/repository/persistence.go   Send, bindDrafts, attachments,   *)
(*                                        CreateDraft, EventsAfter         *)
(*                                                                         *)
(* Postgres runs the transactions at READ COMMITTED: an UPDATE takes the   *)
(* row's lock, waits while another transaction holds it, then sees the     *)
(* last committed value; the lock is held to the end of the transaction.   *)
(* What a transaction has written stays in its registers until it commits. *)
(* A sequence (outbox.event_id) is not transactional: a value taken by a   *)
(* transaction that rolls back is lost.  now() is the transaction's start. *)
(***************************************************************************)
EXTENDS Integers, Sequences, FiniteSets

CONSTANTS
  Requests,   \* the send requests
  Channels,
  Drafts,     \* the uploads
  ChannelOf,  \* channel of a request
  MediaIDs,   \* media_ids of a request, in order
  Uploads,    \* drafts whose uploader and channel are those of a request
  NoOne       \* no transaction, no message

ASSUME RequestsAssumption ==
  /\ NoOne \notin Requests
  /\ ChannelOf \in [Requests -> Channels]
  /\ MediaIDs \in [Requests -> Seq(Drafts)]
  /\ Uploads \in [Requests -> SUBSET Drafts]

VARIABLES
  channelLast,  \* channels.last_ordinal
  feedLast,     \* feed_state.last_feed_ordinal
  channelLock,  \* transaction that holds the lock of a channels row, or NoOne
  feedLock,     \* transaction that holds the lock of the feed_state row, or NoOne
  nextEvent,    \* the sequence behind outbox.event_id: last value taken
  rows,         \* the committed message and outbox row of a request, or NoRow
  object,       \* drafts whose bytes are in the object store
  media,        \* drafts that have a media row
  parent,       \* parent_message_id of a media row: a request's message, or NoOne
  expired,      \* drafts older than the configured TTL
  pc,           \* step of each request's transaction
  reg,          \* registers of each transaction
  upload,       \* step of each upload
  reply,        \* what the client was told: "none", "created" or "error"
  cursor,       \* a reader's last event id (EventsAfter)
  seen          \* the requests whose events the reader has been given

table == <<channelLast, feedLast, rows, media, parent>>
locks == <<channelLock, feedLock>>
files == <<object, upload>>
other == <<expired, cursor, seen>>
vars  == <<channelLast, feedLast, channelLock, feedLock, nextEvent, rows, object,
           media, parent, expired, pc, reg, upload, reply, cursor, seen>>

Row == [ordinal : Nat \ {0}, feed : Nat \ {0}, event : Nat \ {0}]
Reg == [ordinal : Nat, feed : Nat, event : Nat, stale : SUBSET Drafts,
        bound : SUBSET Drafts, next : Nat \ {0}]

NoRow == [ordinal |-> 0, feed |-> 0, event |-> 0]
NoReg == [ordinal |-> 0, feed |-> 0, event |-> 0, stale |-> {}, bound |-> {}, next |-> 1]

InTx == {"channel", "feed", "bind", "commit"}

Stored == {t \in Requests : rows[t] # NoRow}
\* Mutant of RowOf: the event id of the outbox row is not the one it was given.
RowOf_NoEvent(t) == [ordinal |-> reg[t].ordinal, feed |-> reg[t].feed, event |-> 0]

RowOf(t) == [ordinal |-> reg[t].ordinal, feed |-> reg[t].feed, event |-> reg[t].event]

-----------------------------------------------------------------------------
Init ==
  /\ channelLast = [c \in Channels |-> 0] /\ feedLast = 0
  /\ channelLock = [c \in Channels |-> NoOne] /\ feedLock = NoOne
  /\ nextEvent = 0
  /\ rows = [t \in Requests |-> NoRow]
  /\ object = {} /\ expired = {}
  /\ media = {} /\ parent = [d \in Drafts |-> NoOne]
  /\ pc = [t \in Requests |-> "new"] /\ reg = [t \in Requests |-> NoReg]
  /\ upload = [d \in Drafts |-> "new"]
  /\ reply = [t \in Requests |-> "none"]
  /\ cursor = 0 /\ seen = {}

-----------------------------------------------------------------------------
(* CreateDraft: the bytes first, the row second.                           *)

\* Mutant of PutObject: its error is ignored.
PutObject_Unchecked(d) ==
  /\ upload[d] = "new"
  /\ object' \in {object, object \cup {d}}
  /\ upload' = [upload EXCEPT ![d] = "insert"]
  /\ UNCHANGED <<table, locks, nextEvent, other, pc, reg, reply>>

PutObject(d) ==
  /\ upload[d] = "new"
  /\ object' = object \cup {d}
  /\ upload' = [upload EXCEPT ![d] = "insert"]
  /\ UNCHANGED <<table, locks, nextEvent, other, pc, reg, reply>>

InsertMedia(d) ==
  /\ upload[d] = "insert"
  /\ media' = media \cup {d}
  /\ upload' = [upload EXCEPT ![d] = "done"]
  /\ UNCHANGED <<channelLast, feedLast, rows, parent, locks, nextEvent, object, other, pc, reg, reply>>

\* PutObject returns an error, whether or not the bytes have arrived.
PutObjectFails(d) ==
  /\ upload[d] = "new"
  /\ object' \in {object, object \cup {d}}
  /\ upload' = [upload EXCEPT ![d] = "failed"]
  /\ UNCHANGED <<table, locks, nextEvent, other, pc, reg, reply>>

\* The INSERT returns an error, whether or not the row is there; RemoveObject is
\* tried once and its own error is ignored.
InsertMediaFails(d) ==
  /\ upload[d] = "insert"
  /\ media' \in {media, media \cup {d}}
  /\ object' \in {object, object \ {d}}
  /\ upload' = [upload EXCEPT ![d] = "failed"]
  /\ UNCHANGED <<channelLast, feedLast, rows, parent, locks, nextEvent, other, pc, reg, reply>>

\* Time: an upload outlives draft_media_ttl.
Expire(d) ==
  /\ d \in media /\ d \notin expired
  /\ expired' = expired \cup {d}
  /\ UNCHANGED <<table, locks, nextEvent, files, pc, reg, reply, cursor, seen>>

-----------------------------------------------------------------------------
(* Send, one step per statement.                                           *)

\* BeginTx and the membership check; now() is fixed here.  A client names only
\* media ids that CreateDraft has given it.
Begin(t) ==
  /\ pc[t] = "new"
  /\ \A i \in 1..Len(MediaIDs[t]) : upload[MediaIDs[t][i]] = "done"
  /\ pc' = [pc EXCEPT ![t] = "channel"]
  /\ reg' = [reg EXCEPT ![t] = [NoReg EXCEPT !.stale = expired]]
  /\ UNCHANGED <<table, locks, nextEvent, files, other, reply>>

\* UPDATE channels SET last_ordinal = last_ordinal + 1 ... RETURNING.
NextChannelOrdinal(t) ==
  LET c == ChannelOf[t]
  IN  /\ pc[t] = "channel" /\ channelLock[c] = NoOne
      /\ channelLock' = [channelLock EXCEPT ![c] = t]
      /\ reg' = [reg EXCEPT ![t] = [@ EXCEPT !.ordinal = channelLast[c] + 1]]
      /\ pc' = [pc EXCEPT ![t] = "feed"]
      /\ UNCHANGED <<table, feedLock, nextEvent, files, other, reply>>

\* Mutants of NextFeedOrdinal: SELECT MAX(feed_ordinal) + 1, which locks nothing; a
\* sequence, whose values are taken at once and by nobody else.
NextFeedOrdinal_Maximum(t) ==
  /\ pc[t] = "feed"
  /\ reg' = [reg EXCEPT ![t] = [@ EXCEPT !.feed = feedLast + 1]]
  /\ pc' = [pc EXCEPT ![t] = "bind"]
  /\ UNCHANGED <<table, locks, nextEvent, files, other, reply>>

NextFeedOrdinal_Sequence(t) ==
  /\ pc[t] = "feed"
  /\ feedLast' = feedLast + 1
  /\ reg' = [reg EXCEPT ![t] = [@ EXCEPT !.feed = feedLast + 1]]
  /\ pc' = [pc EXCEPT ![t] = "bind"]
  /\ UNCHANGED <<channelLast, rows, media, parent, locks, nextEvent, files, other, reply>>

\* UPDATE feed_state SET last_feed_ordinal = last_feed_ordinal + 1 ... RETURNING,
\* and the INSERT of the message with both ordinals.
NextFeedOrdinal(t) ==
  /\ pc[t] = "feed" /\ feedLock = NoOne
  /\ feedLock' = t
  /\ reg' = [reg EXCEPT ![t] = [@ EXCEPT !.feed = feedLast + 1]]
  /\ pc' = [pc EXCEPT ![t] = "bind"]
  /\ UNCHANGED <<table, channelLock, nextEvent, files, other, reply>>

\* Mutant of Bindable: parent_message_id IS NULL is missing from the WHERE clause.
Bindable_Rebinds(t, d) ==
  d \in media /\ d \in Uploads[t] /\ d \notin reg[t].bound /\ d \notin reg[t].stale

\* bindDrafts' UPDATE matches one unbound, owned, unexpired row.
Bindable(t, d) ==
  /\ d \in media /\ d \in Uploads[t] /\ parent[d] = NoOne
  /\ d \notin reg[t].bound /\ d \notin reg[t].stale

WithDraft(r, d) == [r EXCEPT !.bound = @ \cup {d}, !.next = @ + 1]

\* The next media id is bound; another transaction's binding of it is awaited.
BindDraft(t) ==
  /\ pc[t] = "bind" /\ reg[t].next <= Len(MediaIDs[t])
  /\ LET d == MediaIDs[t][reg[t].next]
     IN  /\ \A u \in Requests \ {t} : d \notin reg[u].bound
         /\ Bindable(t, d)
         /\ reg' = [reg EXCEPT ![t] = WithDraft(reg[t], d)]
  /\ UNCHANGED <<table, locks, nextEvent, files, other, pc, reply>>

\* INSERT INTO outbox ... RETURNING event_id takes the next sequence value.
InsertOutbox(t) ==
  /\ pc[t] = "bind" /\ reg[t].next > Len(MediaIDs[t])
  /\ nextEvent' = nextEvent + 1
  /\ reg' = [reg EXCEPT ![t] = [@ EXCEPT !.event = nextEvent + 1]]
  /\ pc' = [pc EXCEPT ![t] = "commit"]
  /\ UNCHANGED <<table, locks, files, other, reply>>

\* Mutant of Release: the channel row's lock outlives the transaction.
Release_FeedOnly(t) ==
  /\ channelLock' = channelLock
  /\ feedLock' = IF feedLock = t THEN NoOne ELSE feedLock

Release(t) ==
  /\ channelLock' = [c \in Channels |-> IF channelLock[c] = t THEN NoOne ELSE channelLock[c]]
  /\ feedLock' = IF feedLock = t THEN NoOne ELSE feedLock

Commit(t) ==
  /\ pc[t] = "commit"
  /\ channelLast' = [channelLast EXCEPT ![ChannelOf[t]] = reg[t].ordinal]
  /\ feedLast' = reg[t].feed
  /\ rows' = [rows EXCEPT ![t] = RowOf(t)]
  /\ parent' = [d \in Drafts |-> IF d \in reg[t].bound THEN t ELSE parent[d]]
  /\ Release(t)
  /\ reg' = [reg EXCEPT ![t] = NoReg]
  /\ pc' = [pc EXCEPT ![t] = "committed"]
  /\ UNCHANGED <<media, nextEvent, files, other, reply>>

Rollback(t) ==
  /\ Release(t)
  /\ reg' = [reg EXCEPT ![t] = NoReg]
  /\ pc' = [pc EXCEPT ![t] = "rolled back"]
  /\ reply' = [reply EXCEPT ![t] = "error"]
  /\ UNCHANGED <<table, nextEvent, files, other>>

\* bindDrafts updated no row: the send is refused and everything undone.
DraftUnavailable(t) ==
  /\ pc[t] = "bind" /\ reg[t].next <= Len(MediaIDs[t])
  /\ ~Bindable(t, MediaIDs[t][reg[t].next])
  /\ Rollback(t)

\* A failed statement or a cancelled request, at any point before the commit.
Abort(t) ==
  /\ pc[t] \in InTx
  /\ Rollback(t)

\* After the commit the attachments are read; if that fails the client is told
\* of an error although the message is stored.
Respond(t) ==
  /\ pc[t] = "committed" /\ reply[t] = "none"
  /\ \E answer \in {"created", "error"} : reply' = [reply EXCEPT ![t] = answer]
  /\ UNCHANGED <<table, locks, nextEvent, files, other, pc, reg>>

-----------------------------------------------------------------------------
(* EventsAfter: a reader resumes from its last event id and takes what is   *)
(* committed after it.                                                      *)
EventsAfter ==
  LET new == {t \in Stored : rows[t].event > cursor}
  IN  /\ new # {}
      /\ seen' = seen \cup new
      /\ cursor' \in {rows[t].event : t \in new}
      /\ \A t \in new : rows[t].event <= cursor'
      /\ UNCHANGED <<table, locks, nextEvent, files, expired, pc, reg, reply>>

SendStep(t) ==
  \/ Begin(t) \/ NextChannelOrdinal(t) \/ NextFeedOrdinal(t) \/ BindDraft(t)
  \/ DraftUnavailable(t) \/ InsertOutbox(t) \/ Commit(t) \/ Respond(t)

UploadStep(d) == PutObject(d) \/ PutObjectFails(d) \/ InsertMedia(d) \/ InsertMediaFails(d)

Next ==
  \/ \E t \in Requests : SendStep(t) \/ Abort(t)
  \/ \E d \in Drafts : UploadStep(d) \/ Expire(d)
  \/ EventsAfter

Spec == Init /\ [][Next]_vars

(* Every transaction's statements return once the locks they wait for are   *)
(* free; Postgres grants a row lock in the order it was asked for.          *)
FairSpec == Spec /\ \A t \in Requests : WF_vars(SendStep(t))
-----------------------------------------------------------------------------
(* Type invariant.                                                         *)
TypeOK ==
  /\ channelLast \in [Channels -> Nat] /\ feedLast \in Nat /\ nextEvent \in Nat
  /\ channelLock \in [Channels -> Requests \cup {NoOne}]
  /\ feedLock \in Requests \cup {NoOne}
  /\ rows \in [Requests -> Row \cup {NoRow}]
  /\ object \subseteq Drafts /\ media \subseteq Drafts /\ expired \subseteq Drafts
  /\ parent \in [Drafts -> Requests \cup {NoOne}]
  /\ pc \in [Requests -> InTx \cup {"new", "committed", "rolled back"}]
  /\ reg \in [Requests -> Reg]
  /\ upload \in [Drafts -> {"new", "insert", "done", "failed"}]
  /\ reply \in [Requests -> {"none", "created", "error"}]
  /\ cursor \in Nat /\ seen \subseteq Requests

(* Ordinals have no gap and no duplicate, in the feed and in every channel, *)
(* whichever transactions rolled back: the client's gap detection takes a   *)
(* missing ordinal for a missing message.                                   *)
OrdinalsGapless ==
  /\ {rows[t].feed : t \in Stored} = 1..feedLast
  /\ \A c \in Channels :
       {rows[t].ordinal : t \in {u \in Stored : ChannelOf[u] = c}} = 1..channelLast[c]
  /\ \A t, u \in Stored :
       \/ rows[t].feed = rows[u].feed
       \/ ChannelOf[t] = ChannelOf[u] /\ rows[t].ordinal = rows[u].ordinal
       => t = u

(* Event ids, feed ordinals and channel ordinals put the messages in the    *)
(* same order, although the event ids come from a sequence.                 *)
OrdersAgree ==
  \A t, u \in Stored : rows[t].feed < rows[u].feed =>
    /\ rows[t].event < rows[u].event
    /\ ChannelOf[t] = ChannelOf[u] => rows[t].ordinal < rows[u].ordinal

(* No event commits behind a cursor: a reader that resumes after the last   *)
(* event id it was given has been given every event up to it.               *)
ReaderMissesNothing ==
  \A t \in Stored : rows[t].event <= cursor => t \in seen

(* A stored message has all the media of its request, and a bound draft     *)
(* belongs to the one stored message that asked for it.                     *)
DraftsBoundWhole ==
  /\ \A t \in Stored : \A i \in 1..Len(MediaIDs[t]) : parent[MediaIDs[t][i]] = t
  /\ \A d \in Drafts : parent[d] # NoOne =>
       parent[d] \in Stored /\ \E i \in 1..Len(MediaIDs[parent[d]]) :
                                 MediaIDs[parent[d]][i] = d

(* An upload the client was told of has its row and its bytes, and so has   *)
(* every attachment of a stored message.                                    *)
DraftsReadable ==
  \A d \in Drafts : upload[d] = "done" \/ parent[d] # NoOne => d \in media \cap object

(* Sends do not wait on each other for ever: each one is answered.          *)
EventuallyAnswered ==
  \A t \in Requests : pc[t] # "new" ~> reply[t] # "none"
=============================================================================
