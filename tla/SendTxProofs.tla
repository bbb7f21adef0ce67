---------------------------- MODULE SendTxProofs ----------------------------
(***************************************************************************)
(* Theorems about SendTx, for any requests, channels, media lists and      *)
(* uploads.                                                                *)
(***************************************************************************)
EXTENDS SendTx, TLAPS

HoldsChannel == {"feed", "bind", "commit"}
HoldsFeed    == {"bind", "commit"}

(* A row lock is held exactly by the transaction whose statement took it,   *)
(* up to its end.                                                           *)
Locks ==
  /\ \A c \in Channels, t \in Requests :
       channelLock[c] = t <=> ChannelOf[t] = c /\ pc[t] \in HoldsChannel
  /\ \A t \in Requests : feedLock = t <=> pc[t] \in HoldsFeed

(* What a transaction has read under a lock stays one above the committed   *)
(* value, and its event id above every committed event.                     *)
RegistersOf(t) ==
  /\ pc[t] \in HoldsChannel => reg[t].ordinal = channelLast[ChannelOf[t]] + 1
  /\ pc[t] \in HoldsFeed => reg[t].feed = feedLast + 1
  /\ pc[t] = "commit" =>
       /\ reg[t].event \in 1..nextEvent
       /\ \A u \in Stored : rows[u].event < reg[t].event

Registers == \A t \in Requests : RegistersOf(t)

(* The committed rows lie within the counters and fill them.                *)
RowsInRange ==
  \A t \in Requests :
    /\ t \in Stored <=> pc[t] = "committed"
    /\ t \in Stored =>
         /\ rows[t].event \in 1..nextEvent
         /\ rows[t].feed \in 1..feedLast
         /\ rows[t].ordinal \in 1..channelLast[ChannelOf[t]]

Dense ==
  /\ \A n \in 1..feedLast : \E t \in Stored : rows[t].feed = n
  /\ \A c \in Channels : \A n \in 1..channelLast[c] :
       \E t \in Stored : ChannelOf[t] = c /\ rows[t].ordinal = n

Unique == \A t, u \in Stored : rows[t].feed = rows[u].feed => t = u

(* A cursor is the id of an event the reader was given.                     *)
CursorIsEvent == cursor = 0 \/ \E t \in Stored : rows[t].event = cursor

Core ==
  /\ Locks /\ Registers /\ RowsInRange /\ Dense /\ Unique
  /\ OrdersAgree /\ CursorIsEvent /\ ReaderMissesNothing

IInv == TypeOK /\ Core

coreVars == <<channelLast, feedLast, channelLock, feedLock, nextEvent, rows, pc,
              reg, cursor, seen>>
-----------------------------------------------------------------------------
LEMMA EmptyRegister == NoReg \in Reg
BY DEF Reg, NoReg

LEMMA InitIInv == Init => IInv
<1> SUFFICES ASSUME Init PROVE IInv
  OBVIOUS
<1> USE RequestsAssumption DEF Init
<1>0. Stored = {}
  BY DEF Stored
<1>1. TypeOK
  BY EmptyRegister DEF TypeOK, InTx
<1>2. Locks
  BY DEF Locks, HoldsChannel, HoldsFeed
<1>3. Registers
  BY DEF Registers, RegistersOf, HoldsChannel, HoldsFeed
<1>4. RowsInRange
  BY <1>0 DEF RowsInRange
<1>5. Dense /\ Unique /\ OrdersAgree
  BY <1>0 DEF Dense, Unique, OrdersAgree
<1>6. CursorIsEvent /\ ReaderMissesNothing
  BY <1>0 DEF CursorIsEvent, ReaderMissesNothing
<1> QED
  BY <1>1, <1>2, <1>3, <1>4, <1>5, <1>6 DEF IInv, Core

-----------------------------------------------------------------------------
(* Type correctness, one step per action.                                   *)

LEMMA CountUpdate ==
  ASSUME NEW r \in Reg, NEW n \in Nat
  PROVE  /\ [r EXCEPT !.ordinal = n] \in Reg
         /\ [r EXCEPT !.feed = n] \in Reg
         /\ [r EXCEPT !.event = n] \in Reg
BY DEF Reg

LEMMA StaleUpdate ==
  ASSUME NEW r \in Reg, NEW D \in SUBSET Drafts
  PROVE  [r EXCEPT !.stale = D] \in Reg
BY DEF Reg

LEMMA BoundUpdate ==
  ASSUME NEW r \in Reg, NEW D \in SUBSET Drafts, NEW n \in Nat \ {0}
  PROVE  [r EXCEPT !.bound = D, !.next = n] \in Reg
BY DEF Reg

LEMMA FieldTypes ==
  ASSUME NEW r \in Reg
  PROVE  r.ordinal \in Nat /\ r.feed \in Nat /\ r.event \in Nat /\ r.next \in Nat \ {0}
         /\ r.bound \in SUBSET Drafts /\ r.stale \in SUBSET Drafts
BY DEF Reg

LEMMA Types ==
  ASSUME TypeOK, NEW t \in Requests
  PROVE  /\ reg[t] \in Reg /\ rows[t] \in Row \cup {NoRow}
         /\ ChannelOf[t] \in Channels /\ channelLast[ChannelOf[t]] \in Nat
         /\ feedLast \in Nat /\ nextEvent \in Nat /\ cursor \in Nat
         /\ MediaIDs[t] \in Seq(Drafts)
         /\ expired \in SUBSET Drafts
BY RequestsAssumption DEF TypeOK

LEMMA RegisterTypes ==
  ASSUME TypeOK, NEW t \in Requests, NEW r \in Reg
  PROVE  [reg EXCEPT ![t] = r] \in [Requests -> Reg]
BY DEF TypeOK

LEMMA PcTypes ==
  ASSUME TypeOK, NEW t \in Requests,
         NEW s \in InTx \cup {"new", "committed", "rolled back"}
  PROVE  [pc EXCEPT ![t] = s] \in [Requests -> InTx \cup {"new", "committed", "rolled back"}]
BY DEF TypeOK

LEMMA StoredRows ==
  ASSUME TypeOK, NEW t \in Stored
  PROVE  /\ t \in Requests /\ rows[t] \in Row
         /\ rows[t].event \in Nat \ {0} /\ rows[t].feed \in Nat \ {0}
         /\ rows[t].ordinal \in Nat \ {0}
<1>1. t \in Requests /\ rows[t] # NoRow
  BY DEF Stored
<1>2. rows[t] \in Row
  BY <1>1, Types
<1> QED
  BY <1>1, <1>2 DEF Row

LEMMA UploadType ==
  ASSUME TypeOK, NEW d \in Drafts, UploadStep(d) \/ Expire(d)
  PROVE  TypeOK'
<1>1. CASE PutObject(d)
  BY <1>1 DEF PutObject, TypeOK, table, locks, other
<1>2. CASE PutObjectFails(d)
  BY <1>2 DEF PutObjectFails, TypeOK, table, locks, other
<1>3. CASE InsertMedia(d)
  BY <1>3 DEF InsertMedia, TypeOK, locks, other
<1>4. CASE InsertMediaFails(d)
  BY <1>4 DEF InsertMediaFails, TypeOK, locks, other
<1>5. CASE Expire(d)
  BY <1>5 DEF Expire, TypeOK, table, locks, files
<1> QED
  BY <1>1, <1>2, <1>3, <1>4, <1>5 DEF UploadStep

LEMMA SendType ==
  ASSUME TypeOK, Core, NEW t \in Requests, SendStep(t) \/ Abort(t)
  PROVE  TypeOK'
<1>1. CASE Begin(t)
  <2>1. [NoReg EXCEPT !.stale = expired] \in Reg
    BY EmptyRegister, StaleUpdate, Types
  <2>2. reg' \in [Requests -> Reg]
    BY <1>1, <2>1, RegisterTypes DEF Begin
  <2> QED
    BY <1>1, <2>2 DEF Begin, TypeOK, table, locks, files, other, InTx
<1>2. CASE NextChannelOrdinal(t)
  <2>0. reg[t] \in Reg /\ channelLast[ChannelOf[t]] + 1 \in Nat
    BY Types
  <2>1. [reg[t] EXCEPT !.ordinal = channelLast[ChannelOf[t]] + 1] \in Reg
    BY <2>0, CountUpdate
  <2>2. reg' = [reg EXCEPT ![t] = [reg[t] EXCEPT !.ordinal = channelLast[ChannelOf[t]] + 1]]
    BY <1>2, Types DEF NextChannelOrdinal, TypeOK
  <2>3. reg' \in [Requests -> Reg]
    BY <2>1, <2>2, RegisterTypes
  <2>4. channelLock' \in [Channels -> Requests \cup {NoOne}]
    BY <1>2 DEF NextChannelOrdinal, TypeOK
  <2> QED
    BY <1>2, <2>3, <2>4 DEF NextChannelOrdinal, TypeOK, table, files, other, InTx
<1>3. CASE NextFeedOrdinal(t)
  <2>0. reg[t] \in Reg /\ feedLast + 1 \in Nat
    BY Types
  <2>1. [reg[t] EXCEPT !.feed = feedLast + 1] \in Reg
    BY <2>0, CountUpdate
  <2>2. reg' = [reg EXCEPT ![t] = [reg[t] EXCEPT !.feed = feedLast + 1]]
    BY <1>3 DEF NextFeedOrdinal, TypeOK
  <2>3. reg' \in [Requests -> Reg]
    BY <2>1, <2>2, RegisterTypes
  <2> QED
    BY <1>3, <2>3 DEF NextFeedOrdinal, TypeOK, table, files, other, InTx
<1>4. CASE BindDraft(t)
  <2> DEFINE d == MediaIDs[t][reg[t].next]
  <2>1. reg[t] \in Reg /\ reg[t].next \in Nat \ {0} /\ reg[t].bound \in SUBSET Drafts
    BY Types, FieldTypes
  <2>2. MediaIDs[t] \in Seq(Drafts) /\ reg[t].next <= Len(MediaIDs[t])
    BY <1>4, Types DEF BindDraft
  <2>3. d \in Drafts
    BY <2>1, <2>2
  <2>4. reg[t].bound \cup {d} \in SUBSET Drafts /\ reg[t].next + 1 \in Nat \ {0}
    BY <2>1, <2>3
  <2>5. WithDraft(reg[t], d) \in Reg
    BY <2>1, <2>4, BoundUpdate DEF WithDraft
  <2>6. reg' = [reg EXCEPT ![t] = WithDraft(reg[t], d)]
    BY <1>4 DEF BindDraft
  <2>7. reg' \in [Requests -> Reg]
    BY <2>5, <2>6, RegisterTypes
  <2> QED
    BY <1>4, <2>7 DEF BindDraft, TypeOK, table, locks, files, other
<1>5. CASE InsertOutbox(t)
  <2>0. reg[t] \in Reg /\ nextEvent + 1 \in Nat
    BY Types
  <2>1. [reg[t] EXCEPT !.event = nextEvent + 1] \in Reg
    BY <2>0, CountUpdate
  <2>2. reg' = [reg EXCEPT ![t] = [reg[t] EXCEPT !.event = nextEvent + 1]]
    BY <1>5 DEF InsertOutbox, TypeOK
  <2>3. reg' \in [Requests -> Reg]
    BY <2>1, <2>2, RegisterTypes
  <2> QED
    BY <1>5, <2>0, <2>3 DEF InsertOutbox, TypeOK, table, locks, files, other, InTx
<1>6. CASE Commit(t)
  <2>1. pc[t] = "commit"
    BY <1>6 DEF Commit
  <2>2. /\ reg[t].ordinal = channelLast[ChannelOf[t]] + 1 /\ reg[t].feed = feedLast + 1
        /\ reg[t].event \in 1..nextEvent
    BY <2>1 DEF Core, Registers, RegistersOf, HoldsFeed, HoldsChannel
  <2>3. reg[t].ordinal \in Nat \ {0} /\ reg[t].feed \in Nat \ {0} /\ reg[t].event \in Nat \ {0}
    BY <2>2, Types
  <2>4. RowOf(t) \in Row
    BY <2>3 DEF RowOf, Row
  <2>5. rows' \in [Requests -> Row \cup {NoRow}]
    BY <1>6, <2>4 DEF Commit, TypeOK
  <2>6. channelLast' \in [Channels -> Nat] /\ feedLast' \in Nat
    BY <1>6, <2>3 DEF Commit, TypeOK
  <2>7. reg' \in [Requests -> Reg]
    BY <1>6, EmptyRegister, RegisterTypes DEF Commit
  <2>8. parent' \in [Drafts -> Requests \cup {NoOne}]
    BY <1>6 DEF Commit, TypeOK
  <2>9. /\ channelLock' \in [Channels -> Requests \cup {NoOne}]
        /\ feedLock' \in Requests \cup {NoOne}
    BY <1>6 DEF Commit, Release, TypeOK
  <2> QED
    BY <1>6, <2>5, <2>6, <2>7, <2>8, <2>9 DEF Commit, TypeOK, files, other
<1>7. CASE Rollback(t)
  <2>1. reg' \in [Requests -> Reg]
    BY <1>7, EmptyRegister, RegisterTypes DEF Rollback
  <2>2. /\ channelLock' \in [Channels -> Requests \cup {NoOne}]
        /\ feedLock' \in Requests \cup {NoOne}
    BY <1>7 DEF Rollback, Release, TypeOK
  <2> QED
    BY <1>7, <2>1, <2>2 DEF Rollback, TypeOK, table, files, other
<1>8. CASE Respond(t)
  BY <1>8 DEF Respond, TypeOK, table, locks, files, other
<1> QED
  BY <1>1, <1>2, <1>3, <1>4, <1>5, <1>6, <1>7, <1>8 DEF SendStep, DraftUnavailable, Abort

LEMMA TypeStep == ASSUME TypeOK, Core, [Next]_vars PROVE TypeOK'
<1>1. CASE \E t \in Requests : SendStep(t) \/ Abort(t)
  BY <1>1, SendType
<1>2. CASE \E d \in Drafts : UploadStep(d) \/ Expire(d)
  BY <1>2, UploadType
<1>3. CASE EventsAfter
  <2>1. cursor' \in Nat
    BY <1>3, StoredRows DEF EventsAfter
  <2>2. seen' \in SUBSET Requests
    BY <1>3 DEF EventsAfter, Stored, TypeOK
  <2> QED
    BY <1>3, <2>1, <2>2 DEF EventsAfter, TypeOK, table, locks, files
<1>4. CASE UNCHANGED vars
  BY <1>4 DEF vars, TypeOK
<1> QED
  BY <1>1, <1>2, <1>3, <1>4 DEF Next

-----------------------------------------------------------------------------
(* The core invariant, one step per action.                                 *)

(* A step that leaves the committed rows, their counters and the reader     *)
(* alone keeps what is said of them.                                        *)
CommittedFacts ==
  RowsInRange /\ Dense /\ Unique /\ OrdersAgree /\ CursorIsEvent /\ ReaderMissesNothing

LEMMA CommittedQuiet ==
  ASSUME TypeOK, CommittedFacts,
         UNCHANGED <<channelLast, feedLast, rows, cursor, seen>>,
         nextEvent' \in {nextEvent, nextEvent + 1},
         \A t \in Requests : pc'[t] = "committed" <=> pc[t] = "committed"
  PROVE  CommittedFacts'
<1> USE DEF CommittedFacts
<1>1. Stored' = Stored
  BY DEF Stored
<1>2. \A t \in Requests : rows[t].event \in 1..nextEvent => rows[t].event \in 1..nextEvent'
  BY Types
<1>3. RowsInRange'
  BY <1>1, <1>2 DEF RowsInRange
<1>4. Dense'
  BY <1>1 DEF Dense
<1>5. Unique' /\ OrdersAgree'
  BY <1>1 DEF Unique, OrdersAgree
<1>6. CursorIsEvent' /\ ReaderMissesNothing'
  BY <1>1 DEF CursorIsEvent, ReaderMissesNothing
<1> QED
  BY <1>3, <1>4, <1>5, <1>6

LEMMA Quiet ==
  ASSUME TypeOK, Core, UNCHANGED coreVars
  PROVE  Core'
<1>1. CommittedFacts'
  BY CommittedQuiet DEF coreVars, Core, CommittedFacts, TypeOK
<1>2. Stored' = Stored
  BY DEF Stored, coreVars
<1>3. Locks' /\ Registers'
  BY <1>2 DEF Core, Locks, Registers, RegistersOf, coreVars
<1> QED
  BY <1>1, <1>3 DEF Core, CommittedFacts

LEMMA BeginStep == ASSUME TypeOK, Core, NEW t \in Requests, Begin(t) PROVE Core'
<1> USE DEF table, locks, files, other
<1>1. /\ pc[t] = "new" /\ pc' = [pc EXCEPT ![t] = "channel"]
      /\ UNCHANGED <<channelLast, feedLast, rows, cursor, seen, channelLock, feedLock, nextEvent>>
      /\ \A u \in Requests \ {t} : reg'[u] = reg[u]
  BY DEF Begin, TypeOK
<1>2. \A u \in Requests : pc'[u] = IF u = t THEN "channel" ELSE pc[u]
  BY <1>1 DEF TypeOK
<1>3. CommittedFacts'
  BY <1>1, <1>2, CommittedQuiet DEF Core, CommittedFacts
<1>4. Locks'
  BY <1>1, <1>2 DEF Core, Locks, HoldsChannel, HoldsFeed
<1>5. Stored' = Stored
  BY <1>1 DEF Stored
<1>6. Registers'
  BY <1>1, <1>2, <1>5 DEF Core, Registers, RegistersOf, HoldsChannel, HoldsFeed
<1> QED
  BY <1>3, <1>4, <1>6 DEF Core, CommittedFacts

LEMMA ChannelStep ==
  ASSUME TypeOK, Core, NEW t \in Requests, NextChannelOrdinal(t)
  PROVE  Core'
<1> USE DEF table, files, other
<1> DEFINE c == ChannelOf[t]
<1>0. c \in Channels /\ reg[t] \in Reg
  BY Types
<1>1. /\ pc[t] = "channel" /\ pc' = [pc EXCEPT ![t] = "feed"]
      /\ channelLock[c] = NoOne /\ channelLock' = [channelLock EXCEPT ![c] = t]
      /\ UNCHANGED <<channelLast, feedLast, rows, cursor, seen, feedLock, nextEvent>>
  BY DEF NextChannelOrdinal
<1>2. \A u \in Requests : pc'[u] = IF u = t THEN "feed" ELSE pc[u]
  BY <1>1 DEF TypeOK
<1>3. CommittedFacts'
  BY <1>1, <1>2, CommittedQuiet DEF Core, CommittedFacts
<1>4. Locks'
  <2>1. \A d \in Channels : channelLock'[d] = IF d = c THEN t ELSE channelLock[d]
    BY <1>0, <1>1 DEF TypeOK
  <2>2. \A u \in Requests : ~ (ChannelOf[u] = c /\ pc[u] \in HoldsChannel)
    BY <1>0, <1>1, RequestsAssumption DEF Core, Locks
  <2> QED
    BY <1>1, <1>2, <2>1, <2>2 DEF Core, Locks, HoldsChannel, HoldsFeed
<1>5. Stored' = Stored
  BY <1>1 DEF Stored
<1>6. reg'[t] = [reg[t] EXCEPT !.ordinal = channelLast[c] + 1]
      /\ \A u \in Requests \ {t} : reg'[u] = reg[u]
  BY DEF NextChannelOrdinal, TypeOK
<1>7. reg'[t].ordinal = channelLast[c] + 1
  BY <1>0, <1>6 DEF Reg
<1>8. Registers'
  <2>1. RegistersOf(t)'
    BY <1>1, <1>2, <1>7 DEF RegistersOf, HoldsChannel, HoldsFeed
  <2>2. ASSUME NEW u \in Requests \ {t} PROVE RegistersOf(u)'
    <3>1. RegistersOf(u)
      BY DEF Core, Registers
    <3> QED
      BY <1>1, <1>2, <1>5, <1>6, <3>1 DEF RegistersOf
  <2> QED
    BY <2>1, <2>2 DEF Registers
<1> QED
  BY <1>3, <1>4, <1>8 DEF Core, CommittedFacts

LEMMA FeedStep ==
  ASSUME TypeOK, Core, NEW t \in Requests, NextFeedOrdinal(t)
  PROVE  Core'
<1> USE DEF table, files, other
<1>0. reg[t] \in Reg
  BY Types
<1>1. /\ pc[t] = "feed" /\ pc' = [pc EXCEPT ![t] = "bind"]
      /\ feedLock = NoOne /\ feedLock' = t
      /\ UNCHANGED <<channelLast, feedLast, rows, cursor, seen, channelLock, nextEvent>>
  BY DEF NextFeedOrdinal
<1>2. \A u \in Requests : pc'[u] = IF u = t THEN "bind" ELSE pc[u]
  BY <1>1 DEF TypeOK
<1>3. CommittedFacts'
  BY <1>1, <1>2, CommittedQuiet DEF Core, CommittedFacts
<1>4. Locks'
  <2>1. \A u \in Requests : pc[u] \notin HoldsFeed
    BY <1>1, RequestsAssumption DEF Core, Locks
  <2> QED
    BY <1>1, <1>2, <2>1 DEF Core, Locks, HoldsChannel, HoldsFeed
<1>5. Stored' = Stored
  BY <1>1 DEF Stored
<1>6. reg'[t] = [reg[t] EXCEPT !.feed = feedLast + 1]
      /\ \A u \in Requests \ {t} : reg'[u] = reg[u]
  BY DEF NextFeedOrdinal, TypeOK
<1>7. reg'[t].feed = feedLast + 1 /\ reg'[t].ordinal = reg[t].ordinal
  BY <1>0, <1>6 DEF Reg
<1>8. Registers'
  <2>1. RegistersOf(t)
    BY DEF Core, Registers
  <2>2. RegistersOf(t)'
    BY <1>1, <1>2, <1>7, <2>1 DEF RegistersOf, HoldsChannel, HoldsFeed
  <2>3. ASSUME NEW u \in Requests \ {t} PROVE RegistersOf(u)'
    <3>1. RegistersOf(u)
      BY DEF Core, Registers
    <3> QED
      BY <1>1, <1>2, <1>5, <1>6, <3>1 DEF RegistersOf
  <2> QED
    BY <2>2, <2>3 DEF Registers
<1> QED
  BY <1>3, <1>4, <1>8 DEF Core, CommittedFacts

LEMMA BindStep == ASSUME TypeOK, Core, NEW t \in Requests, BindDraft(t) PROVE Core'
<1> USE DEF table, locks, files, other
<1> DEFINE d == MediaIDs[t][reg[t].next]
<1>0. reg[t] \in Reg
  BY Types
<1>1. /\ UNCHANGED <<channelLast, feedLast, rows, cursor, seen, channelLock, feedLock,
                     nextEvent, pc>>
      /\ reg' = [reg EXCEPT ![t] = WithDraft(reg[t], d)]
  BY DEF BindDraft
<1>2. CommittedFacts'
  BY <1>1, CommittedQuiet DEF Core, CommittedFacts
<1>3. Locks'
  BY <1>1 DEF Core, Locks
<1>4. reg'[t] = WithDraft(reg[t], d) /\ \A u \in Requests \ {t} : reg'[u] = reg[u]
  BY <1>1 DEF TypeOK
<1>5. /\ reg'[t].ordinal = reg[t].ordinal /\ reg'[t].feed = reg[t].feed
      /\ reg'[t].event = reg[t].event
  BY <1>0, <1>4 DEF WithDraft, Reg
<1>6. Stored' = Stored
  BY <1>1 DEF Stored
<1>7. Registers'
  BY <1>1, <1>4, <1>5, <1>6 DEF Core, Registers, RegistersOf
<1> QED
  BY <1>2, <1>3, <1>7 DEF Core, CommittedFacts

LEMMA OutboxStep == ASSUME TypeOK, Core, NEW t \in Requests, InsertOutbox(t) PROVE Core'
<1> USE DEF table, locks, files, other
<1>0. reg[t] \in Reg /\ nextEvent \in Nat
  BY Types
<1>1. /\ pc[t] = "bind" /\ pc' = [pc EXCEPT ![t] = "commit"]
      /\ nextEvent' = nextEvent + 1
      /\ UNCHANGED <<channelLast, feedLast, rows, cursor, seen, channelLock, feedLock>>
  BY DEF InsertOutbox
<1>2. \A u \in Requests : pc'[u] = IF u = t THEN "commit" ELSE pc[u]
  BY <1>1 DEF TypeOK
<1>4. CommittedFacts'
  BY <1>1, <1>2, CommittedQuiet DEF Core, CommittedFacts
<1>5. Locks'
  BY <1>1, <1>2 DEF Core, Locks, HoldsChannel, HoldsFeed
<1>6. reg'[t] = [reg[t] EXCEPT !.event = nextEvent + 1]
      /\ \A u \in Requests \ {t} : reg'[u] = reg[u]
  BY DEF InsertOutbox, TypeOK
<1>7. /\ reg'[t].event = nextEvent + 1 /\ reg'[t].ordinal = reg[t].ordinal
      /\ reg'[t].feed = reg[t].feed
  BY <1>0, <1>6 DEF Reg
<1>8. Stored' = Stored
  BY <1>1 DEF Stored
<1>9. \A u \in Stored : rows[u].event < reg'[t].event
  BY <1>0, <1>7 DEF Core, RowsInRange, Stored
<1>10. reg'[t].event \in 1..nextEvent'
  BY <1>0, <1>1, <1>7
<1>11. \A u \in Requests \ {t} : pc[u] \notin HoldsFeed
  BY <1>1 DEF Core, Locks, HoldsFeed
<1>12. Registers'
  <2>1. RegistersOf(t) /\ \A u \in Requests : RegistersOf(u)
    BY DEF Core, Registers
  <2>2. RegistersOf(t)'
    BY <1>1, <1>2, <1>7, <1>8, <1>9, <1>10, <2>1 DEF RegistersOf, HoldsChannel, HoldsFeed
  <2>3. ASSUME NEW u \in Requests \ {t} PROVE RegistersOf(u)'
    <3>1. pc'[u] = pc[u] /\ reg'[u] = reg[u] /\ pc[u] # "commit"
      BY <1>2, <1>6, <1>11, <2>3 DEF HoldsFeed
    <3> QED
      BY <1>1, <2>1, <3>1 DEF RegistersOf
  <2> QED
    BY <2>2, <2>3 DEF Registers
<1> QED
  BY <1>4, <1>5, <1>12 DEF Core, CommittedFacts

(* What every end of a transaction does: its locks are free, its registers  *)
(* empty and it holds nothing.                                              *)
LEMMA ReleaseLocks ==
  ASSUME TypeOK, Core, NEW t \in Requests, Release(t),
         NEW s \in {"committed", "rolled back"}, pc' = [pc EXCEPT ![t] = s]
  PROVE  Locks'
<1>1. pc'[t] \notin HoldsChannel /\ pc'[t] \notin HoldsFeed
      /\ \A u \in Requests \ {t} : pc'[u] = pc[u]
  BY DEF TypeOK, HoldsChannel, HoldsFeed
<1>2. \A c \in Channels : channelLock'[c] = IF channelLock[c] = t THEN NoOne ELSE channelLock[c]
  BY DEF Release
<1>3. feedLock' = IF feedLock = t THEN NoOne ELSE feedLock
  BY DEF Release
<1>4. NoOne \notin Requests
  BY RequestsAssumption
<1>5. ASSUME NEW c \in Channels, NEW u \in Requests
      PROVE  channelLock'[c] = u <=> ChannelOf[u] = c /\ pc'[u] \in HoldsChannel
  <2>1. channelLock[c] = u <=> ChannelOf[u] = c /\ pc[u] \in HoldsChannel
    BY DEF Core, Locks
  <2>2. channelLock'[c] = u <=> channelLock[c] = u /\ u # t
    BY <1>2, <1>4
  <2> QED
    BY <1>1, <2>1, <2>2
<1>6. ASSUME NEW u \in Requests PROVE feedLock' = u <=> pc'[u] \in HoldsFeed
  <2>1. feedLock = u <=> pc[u] \in HoldsFeed
    BY DEF Core, Locks
  <2>2. feedLock' = u <=> feedLock = u /\ u # t
    BY <1>3, <1>4
  <2> QED
    BY <1>1, <2>1, <2>2
<1> QED
  BY <1>5, <1>6 DEF Locks

LEMMA RollbackStep ==
  ASSUME TypeOK, Core, NEW t \in Requests, Rollback(t), pc[t] \in InTx
  PROVE  Core'
<1>1. /\ pc' = [pc EXCEPT ![t] = "rolled back"] /\ reg' = [reg EXCEPT ![t] = NoReg]
      /\ UNCHANGED <<channelLast, feedLast, rows, cursor, seen, nextEvent>>
  BY DEF Rollback, table, other
<1>2. \A u \in Requests : pc'[u] = IF u = t THEN "rolled back" ELSE pc[u]
  BY <1>1 DEF TypeOK
<1>3. \A u \in Requests : pc'[u] = "committed" <=> pc[u] = "committed"
  BY <1>2 DEF InTx
<1>4. CommittedFacts'
  BY <1>1, <1>3, CommittedQuiet DEF Core, CommittedFacts
<1>5. Locks'
  BY <1>1, ReleaseLocks DEF Rollback
<1>6. Stored' = Stored
  BY <1>1 DEF Stored
<1>7. Registers'
  <2>1. RegistersOf(t)'
    BY <1>2 DEF RegistersOf, HoldsChannel, HoldsFeed
  <2>2. ASSUME NEW u \in Requests \ {t} PROVE RegistersOf(u)'
    <3>1. RegistersOf(u) /\ reg'[u] = reg[u]
      BY <1>1 DEF Core, Registers, TypeOK
    <3> QED
      BY <1>1, <1>2, <1>6, <3>1 DEF RegistersOf
  <2> QED
    BY <2>1, <2>2 DEF Registers
<1> QED
  BY <1>4, <1>5, <1>7 DEF Core, CommittedFacts

(* A commit adds the row that is one above every other: in the feed, in its *)
(* channel and, because the feed lock is held since before the event id was *)
(* taken, in the order of event ids.                                        *)
LEMMA CommitStep == ASSUME TypeOK, Core, NEW t \in Requests, Commit(t) PROVE Core'
<1> DEFINE c == ChannelOf[t]
<1>1. /\ pc[t] = "commit" /\ pc' = [pc EXCEPT ![t] = "committed"]
      /\ channelLast' = [channelLast EXCEPT ![c] = reg[t].ordinal]
      /\ feedLast' = reg[t].feed
      /\ rows' = [rows EXCEPT ![t] = RowOf(t)]
      /\ reg' = [reg EXCEPT ![t] = NoReg]
      /\ UNCHANGED <<cursor, seen, nextEvent>>
  BY DEF Commit, other
<1>2. /\ reg[t].ordinal = channelLast[c] + 1 /\ reg[t].feed = feedLast + 1
      /\ reg[t].event \in 1..nextEvent
      /\ \A u \in Stored : rows[u].event < reg[t].event
  BY <1>1 DEF Core, Registers, RegistersOf, HoldsChannel, HoldsFeed
<1>3. /\ c \in Channels /\ channelLast[c] \in Nat /\ feedLast \in Nat
      /\ nextEvent \in Nat /\ cursor \in Nat
  BY Types
<1>4. \A u \in Requests : pc'[u] = IF u = t THEN "committed" ELSE pc[u]
  BY <1>1 DEF TypeOK
<1>5. \A u \in Requests : rows'[u] = IF u = t THEN RowOf(t) ELSE rows[u]
  BY <1>1 DEF TypeOK
<1>6. /\ RowOf(t).ordinal = channelLast[c] + 1 /\ RowOf(t).feed = feedLast + 1
      /\ RowOf(t).event = reg[t].event
  BY <1>2 DEF RowOf
<1>7. t \notin Stored /\ Stored' = Stored \cup {t}
  <2>1. RowOf(t).feed # 0 /\ NoRow.feed = 0
    BY <1>3, <1>6 DEF NoRow
  <2>2. t \notin Stored
    BY <1>1 DEF Core, RowsInRange
  <2> QED
    BY <1>5, <2>1, <2>2 DEF Stored
<1>8. \A d \in Channels : channelLast'[d] = IF d = c THEN channelLast[c] + 1 ELSE channelLast[d]
  BY <1>1, <1>2, <1>3 DEF TypeOK
<1>9. feedLast' = feedLast + 1
  BY <1>1, <1>2
<1>10. ASSUME NEW u \in Stored
       PROVE  /\ u \in Requests /\ u # t /\ rows'[u] = rows[u]
              /\ rows[u].event \in Nat /\ rows[u].event < RowOf(t).event
              /\ rows[u].event \in 1..nextEvent
              /\ rows[u].feed \in Nat /\ rows[u].feed <= feedLast /\ rows[u].feed >= 1
              /\ rows[u].ordinal \in 1..channelLast[ChannelOf[u]]
              /\ ChannelOf[u] \in Channels /\ channelLast[ChannelOf[u]] \in Nat
  <2>1. u \in Requests /\ u # t
    BY <1>7 DEF Stored
  <2>2. rows[u].event \in Nat /\ rows[u].feed \in Nat
    BY StoredRows
  <2>3. /\ rows[u].feed \in 1..feedLast /\ rows[u].ordinal \in 1..channelLast[ChannelOf[u]]
        /\ rows[u].event \in 1..nextEvent
    BY <2>1 DEF Core, RowsInRange
  <2>4. ChannelOf[u] \in Channels /\ channelLast[ChannelOf[u]] \in Nat
    BY <2>1, Types
  <2>5. rows[u].event < RowOf(t).event
    BY <1>2, <1>6
  <2> QED
    BY <1>3, <1>5, <2>1, <2>2, <2>3, <2>4, <2>5
<1>11. Locks'
  BY <1>1, ReleaseLocks DEF Commit
<1>12. Registers'
  <2>1. RegistersOf(t)'
    BY <1>4 DEF RegistersOf, HoldsChannel, HoldsFeed
  <2>2. ASSUME NEW u \in Requests \ {t} PROVE RegistersOf(u)'
    <3>1. RegistersOf(u) /\ reg'[u] = reg[u] /\ pc'[u] = pc[u]
      BY <1>1, <1>4 DEF Core, Registers, TypeOK
    <3>2. pc[u] \notin HoldsFeed
      BY <1>1 DEF Core, Locks, HoldsFeed
    <3>3. pc[u] \in HoldsChannel => ChannelOf[u] # c
      BY <1>1, <1>3 DEF Core, Locks, HoldsChannel
    <3>4. ChannelOf[u] \in Channels
      BY RequestsAssumption
    <3> QED
      BY <1>8, <3>1, <3>2, <3>3, <3>4 DEF RegistersOf, HoldsFeed
  <2> QED
    BY <2>1, <2>2 DEF Registers
<1>13. RowsInRange'
  <2>1. ASSUME NEW u \in Requests PROVE u \in Stored' <=> pc'[u] = "committed"
    BY <1>4, <1>7 DEF Core, RowsInRange
  <2>2. ASSUME NEW u \in Stored'
        PROVE  /\ rows'[u].event \in 1..nextEvent' /\ rows'[u].feed \in 1..feedLast'
               /\ rows'[u].ordinal \in 1..channelLast'[ChannelOf[u]]
    <3>1. CASE u = t
      BY <1>1, <1>2, <1>3, <1>5, <1>6, <1>8, <1>9, <3>1
    <3>2. CASE u # t
      BY <1>1, <1>3, <1>7, <1>8, <1>9, <1>10, <3>2
    <3> QED
      BY <3>1, <3>2
  <2> QED
    BY <2>1, <2>2 DEF RowsInRange
<1>14. Dense'
  <2>1. ASSUME NEW n \in 1..feedLast' PROVE \E u \in Stored' : rows'[u].feed = n
    <3>1. CASE n = feedLast + 1
      BY <1>5, <1>6, <1>7, <3>1
    <3>2. CASE n # feedLast + 1
      <4>1. n \in 1..feedLast
        BY <1>3, <1>9, <3>2
      <4>2. PICK u \in Stored : rows[u].feed = n
        BY <4>1 DEF Core, Dense
      <4> QED
        BY <1>7, <1>10, <4>2
    <3> QED
      BY <3>1, <3>2
  <2>2. ASSUME NEW d \in Channels, NEW n \in 1..channelLast'[d]
        PROVE  \E u \in Stored' : ChannelOf[u] = d /\ rows'[u].ordinal = n
    <3>1. CASE d = c /\ n = channelLast[c] + 1
      BY <1>5, <1>6, <1>7, <3>1
    <3>2. CASE ~ (d = c /\ n = channelLast[c] + 1)
      <4>1. n \in 1..channelLast[d]
        BY <1>3, <1>8, <3>2
      <4>2. PICK u \in Stored : ChannelOf[u] = d /\ rows[u].ordinal = n
        BY <4>1 DEF Core, Dense
      <4> QED
        BY <1>7, <1>10, <4>2
    <3> QED
      BY <3>1, <3>2
  <2> QED
    BY <2>1, <2>2 DEF Dense
<1>15. Unique'
  <2>1. ASSUME NEW u \in Stored', NEW v \in Stored', rows'[u].feed = rows'[v].feed
        PROVE  u = v
    <3>1. CASE u = t /\ v # t
      BY <1>3, <1>5, <1>6, <1>7, <1>10, <2>1, <3>1
    <3>2. CASE u # t /\ v = t
      BY <1>3, <1>5, <1>6, <1>7, <1>10, <2>1, <3>2
    <3>3. CASE u # t /\ v # t
      BY <1>7, <1>10, <2>1, <3>3 DEF Core, Unique
    <3> QED
      BY <3>1, <3>2, <3>3
  <2> QED
    BY <2>1 DEF Unique
<1>16. OrdersAgree'
  <2>1. ASSUME NEW u \in Stored', NEW v \in Stored', rows'[u].feed < rows'[v].feed
        PROVE  /\ rows'[u].event < rows'[v].event
               /\ ChannelOf[u] = ChannelOf[v] => rows'[u].ordinal < rows'[v].ordinal
    <3>1. CASE u = t
      BY <1>3, <1>5, <1>6, <1>7, <1>10, <2>1, <3>1
    <3>2. CASE u # t /\ v = t
      BY <1>3, <1>5, <1>6, <1>7, <1>10, <2>1, <3>2
    <3>3. CASE u # t /\ v # t
      BY <1>7, <1>10, <2>1, <3>3 DEF Core, OrdersAgree
    <3> QED
      BY <3>1, <3>2, <3>3
  <2> QED
    BY <2>1 DEF OrdersAgree
<1>17. RowOf(t).event > cursor
  <2>1. CASE cursor = 0
    BY <1>2, <1>3, <1>6, <2>1
  <2>2. CASE \E u \in Stored : rows[u].event = cursor
    BY <1>3, <1>10, <2>2, <1>2, <1>6
  <2> QED
    BY <2>1, <2>2 DEF Core, CursorIsEvent
<1>18. CursorIsEvent'
  BY <1>1, <1>7, <1>10 DEF Core, CursorIsEvent
<1>19. ReaderMissesNothing'
  <2>1. ASSUME NEW u \in Stored', rows'[u].event <= cursor' PROVE u \in seen'
    <3>1. u # t
      BY <1>1, <1>2, <1>3, <1>5, <1>6, <1>17, <2>1
    <3> QED
      BY <1>1, <1>7, <1>10, <2>1, <3>1 DEF Core, ReaderMissesNothing
  <2> QED
    BY <2>1 DEF ReaderMissesNothing
<1> QED
  BY <1>11, <1>12, <1>13, <1>14, <1>15, <1>16, <1>18, <1>19 DEF Core

LEMMA ReadStep == ASSUME TypeOK, Core, EventsAfter PROVE Core'
<1>1. UNCHANGED <<channelLast, feedLast, channelLock, feedLock, nextEvent, rows, pc, reg>>
  BY DEF EventsAfter, table, locks
<1>2. Stored' = Stored
  BY <1>1 DEF Stored
<1>3. /\ Locks' /\ Registers' /\ RowsInRange' /\ Dense' /\ Unique' /\ OrdersAgree'
  BY <1>1, <1>2 DEF Core, Locks, Registers, RegistersOf, RowsInRange, Dense, Unique,
                    OrdersAgree
<1>4. CursorIsEvent'
  BY <1>1, <1>2 DEF EventsAfter, CursorIsEvent
<1>5. ReaderMissesNothing'
  <2>1. ASSUME NEW u \in Stored, rows[u].event <= cursor' PROVE u \in seen'
    <3>1. CASE rows[u].event > cursor
      BY <3>1 DEF EventsAfter
    <3>2. CASE rows[u].event <= cursor
      BY <3>2 DEF EventsAfter, Core, ReaderMissesNothing
    <3> QED
      BY <3>1, <3>2, StoredRows, Types
  <2> QED
    BY <1>1, <1>2, <2>1 DEF ReaderMissesNothing
<1> QED
  BY <1>3, <1>4, <1>5 DEF Core

LEMMA QuietStep ==
  ASSUME TypeOK, Core,
         \/ \E d \in Drafts : UploadStep(d) \/ Expire(d)
         \/ \E t \in Requests : Respond(t)
         \/ UNCHANGED vars
  PROVE  Core'
<1>1. UNCHANGED coreVars
  BY DEF UploadStep, PutObject, PutObjectFails, InsertMedia, InsertMediaFails, Expire,
         Respond, coreVars, vars, table, locks, files, other
<1> QED
  BY <1>1, Quiet

LEMMA StepIInv == IInv /\ [Next]_vars => IInv'
<1> SUFFICES ASSUME TypeOK, Core, [Next]_vars PROVE Core'
  BY TypeStep DEF IInv
<1>1. ASSUME NEW t \in Requests, SendStep(t) \/ Abort(t) PROVE Core'
  <2>1. CASE DraftUnavailable(t) \/ Abort(t)
    BY <2>1, RollbackStep DEF DraftUnavailable, Abort, InTx
  <2>2. CASE Respond(t)
    BY <2>2, QuietStep
  <2> QED
    BY <1>1, <2>1, <2>2, BeginStep, ChannelStep, FeedStep, BindStep, OutboxStep, CommitStep
       DEF SendStep
<1>2. CASE \E d \in Drafts : UploadStep(d) \/ Expire(d)
  BY <1>2, QuietStep
<1>3. CASE EventsAfter
  BY <1>3, ReadStep
<1>4. CASE UNCHANGED vars
  BY <1>4, QuietStep
<1> QED
  BY <1>1, <1>2, <1>3, <1>4 DEF Next

-----------------------------------------------------------------------------
(* The locks are held as the statements take them, registers stay one above *)
(* the counters, the rows fill the counters: inductive.                     *)
THEOREM InductiveInvariant == Spec => []IInv
BY InitIInv, StepIInv, PTL DEF Spec

(* Every variable keeps its type.                                           *)
THEOREM TypeCorrect == Spec => []TypeOK
<1>1. IInv => TypeOK
  BY DEF IInv
<1> QED
  BY <1>1, InductiveInvariant, PTL

(* Feed and channel ordinals have no gap and no duplicate, for any number   *)
(* of concurrent sends and whichever of them roll back.                     *)
THEOREM Gapless == Spec => []OrdinalsGapless
<1>1. ASSUME IInv PROVE OrdinalsGapless
  <2> USE <1>1 DEF IInv, Core
  <2>1. {rows[t].feed : t \in Stored} = 1..feedLast
    <3>1. \A t \in Stored : rows[t].feed \in 1..feedLast
      BY DEF RowsInRange, Stored
    <3> QED
      BY <3>1 DEF Dense
  <2>2. ASSUME NEW c \in Channels
        PROVE  {rows[t].ordinal : t \in {u \in Stored : ChannelOf[u] = c}} = 1..channelLast[c]
    <3>1. \A t \in Stored : ChannelOf[t] = c => rows[t].ordinal \in 1..channelLast[c]
      BY DEF RowsInRange, Stored
    <3> QED
      BY <3>1 DEF Dense
  <2>3. ASSUME NEW t \in Stored, NEW u \in Stored, ChannelOf[t] = ChannelOf[u],
               rows[t].ordinal = rows[u].ordinal
        PROVE  t = u
    <3>1. t \in Requests /\ u \in Requests
      BY DEF Stored
    <3>2. rows[t].feed \in Nat /\ rows[u].feed \in Nat /\ rows[t].ordinal \in Nat
      BY <3>1 DEF RowsInRange, Stored
    <3>3. ~(rows[t].feed < rows[u].feed) /\ ~(rows[u].feed < rows[t].feed)
      BY <2>3, <3>2 DEF OrdersAgree
    <3> QED
      BY <3>2, <3>3 DEF Unique
  <2> QED
    BY <2>1, <2>2, <2>3 DEF OrdinalsGapless, Unique
<1> QED
  BY <1>1, InductiveInvariant, PTL

(* Event ids, feed ordinals and channel ordinals put any two stored         *)
(* messages in the same order.                                              *)
THEOREM OneOrder == Spec => []OrdersAgree
<1>1. IInv => OrdersAgree
  BY DEF IInv, Core
<1> QED
  BY <1>1, InductiveInvariant, PTL

(* No event ever commits with an id at or below a reader's cursor.          *)
THEOREM ResumeIsComplete == Spec => []ReaderMissesNothing
<1>1. IInv => ReaderMissesNothing
  BY DEF IInv, Core
<1> QED
  BY <1>1, InductiveInvariant, PTL

-----------------------------------------------------------------------------
(* The drafts.  A transaction has bound the first media ids of its request, *)
(* no two transactions have bound the same draft, and what is bound has no  *)
(* parent yet; an upload whose id the client knows has its row and bytes.   *)
Asked(t, n) == {MediaIDs[t][i] : i \in 1..n}

Uploaded ==
  \A d \in Drafts :
    /\ upload[d] = "insert" => d \in object
    /\ upload[d] = "done" => d \in media /\ d \in object

Named ==
  \A t \in Requests : pc[t] # "new" =>
    \A i \in 1..Len(MediaIDs[t]) : upload[MediaIDs[t][i]] = "done"

BindingOf(t) ==
  /\ pc[t] \notin InTx => reg[t].bound = {}
  /\ pc[t] \in InTx =>
       /\ reg[t].next - 1 \in 0..Len(MediaIDs[t])
       /\ reg[t].bound = Asked(t, reg[t].next - 1)
  /\ pc[t] = "commit" => reg[t].next = Len(MediaIDs[t]) + 1
  /\ \A d \in reg[t].bound : parent[d] = NoOne

Disjoint == \A t, u \in Requests : t # u => reg[t].bound \cap reg[u].bound = {}

DraftInv ==
  /\ Uploaded /\ Named /\ Disjoint /\ DraftsBoundWhole
  /\ \A t \in Requests : BindingOf(t)

LEMMA AskedAll ==
  ASSUME NEW t \in Requests
  PROVE  /\ Len(MediaIDs[t]) \in Nat /\ MediaIDs[t] \in Seq(Drafts)
         /\ \A i \in 1..Len(MediaIDs[t]) : MediaIDs[t][i] \in Drafts
         /\ Asked(t, 0) = {}
         /\ \A n \in Nat : Asked(t, n + 1) = Asked(t, n) \cup {MediaIDs[t][n + 1]}
<1>1. /\ Len(MediaIDs[t]) \in Nat /\ MediaIDs[t] \in Seq(Drafts)
      /\ \A i \in 1..Len(MediaIDs[t]) : MediaIDs[t][i] \in Drafts
  BY RequestsAssumption
<1>2. Asked(t, 0) = {}
  BY DEF Asked
<1>3. ASSUME NEW n \in Nat
      PROVE  Asked(t, n + 1) = Asked(t, n) \cup {MediaIDs[t][n + 1]}
  <2>1. 1..(n + 1) = (1..n) \cup {n + 1}
    OBVIOUS
  <2> QED
    BY <2>1 DEF Asked
<1> QED
  BY <1>1, <1>2, <1>3

LEMMA InitDrafts == Init => DraftInv
<1> SUFFICES ASSUME Init PROVE DraftInv
  OBVIOUS
<1>0. Stored = {}
  BY DEF Stored, Init
<1>1. Uploaded /\ Named
  BY DEF Init, Uploaded, Named
<1>2. Disjoint /\ \A t \in Requests : BindingOf(t)
  BY DEF Init, Disjoint, BindingOf, NoReg, InTx
<1>3. DraftsBoundWhole
  BY <1>0 DEF Init, DraftsBoundWhole
<1> QED
  BY <1>1, <1>2, <1>3 DEF DraftInv

\* What an upload's steps keep.
LEMMA UploadDrafts ==
  ASSUME TypeOK, DraftInv, NEW d \in Drafts, UploadStep(d) \/ Expire(d)
  PROVE  DraftInv'
<1>1. UNCHANGED <<rows, parent, pc, reg>>
  BY DEF UploadStep, PutObject, PutObjectFails, InsertMedia, InsertMediaFails, Expire, table
<1>2. /\ Disjoint' /\ DraftsBoundWhole' /\ \A t \in Requests : BindingOf(t)'
  BY <1>1 DEF DraftInv, Disjoint, DraftsBoundWhole, BindingOf, Stored
<1>3. Uploaded' /\ \A f \in Drafts : upload[f] = "done" => upload'[f] = "done"
  BY DEF TypeOK, DraftInv, Uploaded, UploadStep, PutObject, PutObjectFails, InsertMedia,
         InsertMediaFails, Expire, files, table
<1>4. Named'
  BY <1>1, <1>3, AskedAll DEF DraftInv, Named
<1> QED
  BY <1>2, <1>3, <1>4 DEF DraftInv

\* A step of a transaction that leaves the files and what is stored alone, and
\* binds nothing.
LEMMA BindingKept ==
  ASSUME TypeOK, DraftInv, NEW t \in Requests,
         UNCHANGED <<rows, object, media, parent, upload>>,
         \A u \in Requests \ {t} : pc'[u] = pc[u] /\ reg'[u] = reg[u],
         reg'[t].bound \subseteq reg[t].bound,
         \/ pc[t] # "new"
         \/ \A i \in 1..Len(MediaIDs[t]) : upload[MediaIDs[t][i]] = "done",
         BindingOf(t)'
  PROVE  DraftInv'
<1>1. Uploaded' /\ DraftsBoundWhole'
  BY DEF DraftInv, Uploaded, DraftsBoundWhole, Stored
<1>2. Named'
  BY DEF DraftInv, Named
<1>3. Disjoint'
  <2>1. \A u \in Requests : reg'[u].bound \subseteq reg[u].bound
    OBVIOUS
  <2> QED
    BY <2>1 DEF DraftInv, Disjoint
<1>4. \A u \in Requests : BindingOf(u)'
  BY DEF DraftInv, BindingOf
<1> QED
  BY <1>1, <1>2, <1>3, <1>4 DEF DraftInv

LEMMA SendDrafts ==
  ASSUME TypeOK, DraftInv, NEW t \in Requests,
         \/ Begin(t) \/ NextChannelOrdinal(t) \/ NextFeedOrdinal(t) \/ InsertOutbox(t)
         \/ Respond(t)
         \/ pc[t] \in InTx /\ Rollback(t)
  PROVE  DraftInv'
<1>1. /\ UNCHANGED <<rows, object, media, parent, upload>>
      /\ \A u \in Requests \ {t} : pc'[u] = pc[u] /\ reg'[u] = reg[u]
  BY DEF Begin, NextChannelOrdinal, NextFeedOrdinal, InsertOutbox, Respond, Rollback,
         table, files, TypeOK
<1>2. BindingOf(t) /\ reg[t] \in Reg
  BY DEF DraftInv, TypeOK
<1>3. CASE Begin(t)
  <2>1. pc'[t] = "channel" /\ reg'[t].bound = {} /\ reg'[t].next = 1
    BY <1>3 DEF Begin, TypeOK, NoReg
  <2>2. BindingOf(t)'
    BY <2>1, AskedAll DEF BindingOf, InTx
  <2> QED
    BY <1>1, <1>3, <2>1, <2>2, BindingKept DEF Begin
<1>4. CASE NextChannelOrdinal(t) \/ NextFeedOrdinal(t)
  <2>1. /\ pc[t] \in {"channel", "feed"} /\ pc'[t] \in {"feed", "bind"}
        /\ reg'[t].bound = reg[t].bound /\ reg'[t].next = reg[t].next
    <3>1. \A r \in Reg, k \in Nat :
            /\ [r EXCEPT !.ordinal = k].bound = r.bound /\ [r EXCEPT !.ordinal = k].next = r.next
            /\ [r EXCEPT !.feed = k].bound = r.bound /\ [r EXCEPT !.feed = k].next = r.next
      BY DEF Reg
    <3>2. channelLast[ChannelOf[t]] + 1 \in Nat /\ feedLast + 1 \in Nat
      BY Types
    <3>3. \/ reg' = [reg EXCEPT ![t] = [reg[t] EXCEPT !.ordinal = channelLast[ChannelOf[t]] + 1]]
          \/ reg' = [reg EXCEPT ![t] = [reg[t] EXCEPT !.feed = feedLast + 1]]
      BY <1>4 DEF NextChannelOrdinal, NextFeedOrdinal
    <3>4. \/ reg'[t] = [reg[t] EXCEPT !.ordinal = channelLast[ChannelOf[t]] + 1]
          \/ reg'[t] = [reg[t] EXCEPT !.feed = feedLast + 1]
      <4>1. reg \in [Requests -> Reg]
        BY DEF TypeOK
      <4> QED
        BY <3>3, <4>1
    <3>6. reg'[t].bound = reg[t].bound /\ reg'[t].next = reg[t].next
      <4>1. CASE reg'[t] = [reg[t] EXCEPT !.ordinal = channelLast[ChannelOf[t]] + 1]
        BY <1>2, <3>1, <3>2, <4>1
      <4>2. CASE reg'[t] = [reg[t] EXCEPT !.feed = feedLast + 1]
        BY <1>2, <3>1, <3>2, <4>2
      <4> QED
        BY <3>4, <4>1, <4>2
    <3>5. pc[t] \in {"channel", "feed"} /\ pc'[t] \in {"feed", "bind"}
      BY <1>4 DEF NextChannelOrdinal, NextFeedOrdinal, TypeOK
    <3> QED
      BY <3>5, <3>6
  <2>2. BindingOf(t)'
    BY <1>1, <1>2, <2>1 DEF BindingOf, InTx, Asked
  <2> QED
    BY <1>1, <2>1, <2>2, BindingKept
<1>5. CASE InsertOutbox(t)
  <2>1. /\ pc[t] = "bind" /\ reg[t].next > Len(MediaIDs[t]) /\ pc'[t] = "commit"
        /\ reg'[t].bound = reg[t].bound /\ reg'[t].next = reg[t].next
    BY <1>2, <1>5 DEF InsertOutbox, TypeOK, Reg
  <2>2. reg[t].next \in Nat /\ Len(MediaIDs[t]) \in Nat
    BY <1>2, AskedAll DEF Reg
  <2>3. reg[t].next = Len(MediaIDs[t]) + 1
    BY <1>2, <2>1, <2>2 DEF BindingOf, InTx
  <2>4. BindingOf(t)'
    BY <1>1, <1>2, <2>1, <2>3 DEF BindingOf, InTx, Asked
  <2> QED
    BY <1>1, <2>1, <2>4, BindingKept
<1>6. CASE Respond(t)
  <2>1. pc[t] = "committed" /\ UNCHANGED <<pc, reg>>
    BY <1>6 DEF Respond
  <2>2. BindingOf(t)'
    BY <1>1, <1>2, <2>1 DEF BindingOf
  <2> QED
    BY <1>1, <2>1, <2>2, BindingKept
<1>7. CASE pc[t] \in InTx /\ Rollback(t)
  <2>1. pc'[t] = "rolled back" /\ reg'[t].bound = {}
    BY <1>7 DEF Rollback, TypeOK, NoReg
  <2>2. BindingOf(t)' /\ pc[t] # "new"
    BY <1>7, <2>1 DEF BindingOf, InTx
  <2> QED
    BY <1>1, <2>1, <2>2, BindingKept
<1> QED
  BY <1>3, <1>4, <1>5, <1>6, <1>7

LEMMA BindDrafts ==
  ASSUME TypeOK, DraftInv, NEW t \in Requests, BindDraft(t)
  PROVE  DraftInv'
<1> DEFINE n == reg[t].next
           d == MediaIDs[t][n]
<1>1. /\ pc[t] = "bind" /\ n <= Len(MediaIDs[t]) /\ Bindable(t, d)
      /\ \A u \in Requests \ {t} : d \notin reg[u].bound
      /\ reg' = [reg EXCEPT ![t] = WithDraft(reg[t], d)]
      /\ UNCHANGED <<rows, object, media, parent, upload, pc>>
  BY DEF BindDraft, table, files
<1>2. reg[t] \in Reg /\ n \in Nat \ {0} /\ BindingOf(t)
  BY DEF TypeOK, Reg, DraftInv
<1>3. /\ reg'[t].bound = reg[t].bound \cup {d} /\ reg'[t].next = n + 1
      /\ \A u \in Requests \ {t} : reg'[u] = reg[u]
  BY <1>1, <1>2 DEF WithDraft, Reg, TypeOK
<1> HIDE DEF n, d
<1>4. Uploaded' /\ Named' /\ DraftsBoundWhole'
  BY <1>1 DEF DraftInv, Uploaded, Named, DraftsBoundWhole, Stored
<1>5. Disjoint'
  <2>1. \A u \in Requests \ {t} : reg'[u].bound \cap reg'[t].bound = {}
    BY <1>1, <1>3 DEF DraftInv, Disjoint
  <2> QED
    BY <1>3, <2>1 DEF DraftInv, Disjoint
<1>6. ASSUME NEW u \in Requests \ {t} PROVE BindingOf(u)'
  BY <1>1, <1>3 DEF DraftInv, BindingOf, Asked
<1>7. BindingOf(t)'
  <2>1. /\ n - 1 \in 0..Len(MediaIDs[t]) /\ reg[t].bound = Asked(t, n - 1)
        /\ Len(MediaIDs[t]) \in Nat
    BY <1>1, <1>2, AskedAll DEF BindingOf, InTx, n
  <2>2. n - 1 \in Nat /\ (n - 1) + 1 = n /\ (n + 1) - 1 = n /\ n \in 0..Len(MediaIDs[t])
    BY <1>1, <1>2, <2>1
  <2>3. Asked(t, n) = Asked(t, n - 1) \cup {MediaIDs[t][n]}
    BY <2>2, AskedAll
  <2>4. reg'[t].bound = Asked(t, reg'[t].next - 1) /\ reg'[t].next - 1 \in 0..Len(MediaIDs[t])
    BY <1>3, <2>1, <2>2, <2>3 DEF d
  <2>5. \A f \in reg'[t].bound : parent'[f] = NoOne
    BY <1>1, <1>2, <1>3 DEF BindingOf, Bindable
  <2>6. pc'[t] = "bind"
    BY <1>1
  <2> QED
    BY <2>4, <2>5, <2>6 DEF BindingOf, InTx, Asked
<1> QED
  BY <1>4, <1>5, <1>6, <1>7 DEF DraftInv

LEMMA CommitDrafts ==
  ASSUME TypeOK, Core, DraftInv, NEW t \in Requests, Commit(t)
  PROVE  DraftInv'
<1>1. /\ pc[t] = "commit" /\ pc' = [pc EXCEPT ![t] = "committed"]
      /\ rows' = [rows EXCEPT ![t] = RowOf(t)]
      /\ reg' = [reg EXCEPT ![t] = NoReg]
      /\ parent' = [f \in Drafts |-> IF f \in reg[t].bound THEN t ELSE parent[f]]
      /\ UNCHANGED <<object, media, upload>>
  BY DEF Commit, files
<1>2. /\ BindingOf(t) /\ reg[t] \in Reg /\ Len(MediaIDs[t]) \in Nat
      /\ \A i \in 1..Len(MediaIDs[t]) : MediaIDs[t][i] \in Drafts
  BY AskedAll DEF DraftInv, TypeOK
<1>3. reg[t].bound = Asked(t, Len(MediaIDs[t])) /\ t \notin Stored
  <2>1. reg[t].next = Len(MediaIDs[t]) + 1 /\ (Len(MediaIDs[t]) + 1) - 1 = Len(MediaIDs[t])
    BY <1>1, <1>2 DEF BindingOf
  <2>2. reg[t].bound = Asked(t, Len(MediaIDs[t]))
    BY <1>1, <1>2, <2>1 DEF BindingOf, InTx
  <2> QED
    BY <1>1, <2>2 DEF Core, RowsInRange
<1>4. Stored' = Stored \cup {t}
  <2>1. RowOf(t) # NoRow
    <3>1. RowOf(t).feed = feedLast + 1 /\ feedLast \in Nat
      BY <1>1 DEF Core, Registers, RegistersOf, HoldsFeed, RowOf, TypeOK
    <3> QED
      BY <3>1 DEF NoRow
  <2> QED
    BY <1>1, <2>1 DEF Stored, TypeOK
<1>5. \A f \in Drafts : f \in reg[t].bound => parent[f] = NoOne
  BY <1>2 DEF BindingOf
<1>6. /\ \A f \in Drafts : f \in reg[t].bound => parent'[f] = t
      /\ \A f \in Drafts : f \notin reg[t].bound => parent'[f] = parent[f]
  BY <1>1
<1>7. DraftsBoundWhole'
  <2>1. \A i \in 1..Len(MediaIDs[t]) : parent'[MediaIDs[t][i]] = t
    BY <1>2, <1>3, <1>6 DEF Asked
  <2>2. ASSUME NEW u \in Stored, NEW i \in 1..Len(MediaIDs[u])
        PROVE  parent'[MediaIDs[u][i]] = u
    <3>1. u \in Requests /\ u # NoOne /\ MediaIDs[u][i] \in Drafts
      BY AskedAll, RequestsAssumption DEF Stored
    <3>2. parent[MediaIDs[u][i]] = u
      BY DEF DraftInv, DraftsBoundWhole
    <3> QED
      BY <1>5, <1>6, <3>1, <3>2
  <2>3. ASSUME NEW f \in Drafts, parent'[f] # NoOne
        PROVE  parent'[f] \in Stored' /\ \E i \in 1..Len(MediaIDs[parent'[f]]) :
                                            MediaIDs[parent'[f]][i] = f
    <3>1. CASE f \in reg[t].bound
      BY <1>3, <1>4, <1>6, <3>1 DEF Asked
    <3>2. CASE f \notin reg[t].bound
      BY <1>4, <1>6, <2>3, <3>2 DEF DraftInv, DraftsBoundWhole
    <3> QED
      BY <3>1, <3>2
  <2> QED
    BY <1>4, <2>1, <2>2, <2>3 DEF DraftsBoundWhole
<1>8. \A u \in Requests : reg'[u].bound = IF u = t THEN {} ELSE reg[u].bound
  BY <1>1 DEF TypeOK, NoReg
<1>9. Uploaded' /\ Named' /\ Disjoint'
  BY <1>1, <1>8 DEF DraftInv, Uploaded, Named, Disjoint, TypeOK
<1>10. ASSUME NEW u \in Requests PROVE BindingOf(u)'
  <2>1. CASE u = t
    BY <1>1, <1>8, <2>1 DEF BindingOf, InTx, TypeOK
  <2>2. CASE u # t
    <3>1. pc'[u] = pc[u] /\ reg'[u] = reg[u] /\ reg[u].bound \in SUBSET Drafts
      BY <1>1, <2>2 DEF TypeOK, Reg
    <3>2. \A f \in reg[u].bound : f \notin reg[t].bound
      BY <2>2 DEF DraftInv, Disjoint
    <3> QED
      BY <1>6, <3>1, <3>2 DEF DraftInv, BindingOf, Asked
  <2> QED
    BY <2>1, <2>2
<1> QED
  BY <1>7, <1>9, <1>10 DEF DraftInv

LEMMA DraftStep == IInv /\ DraftInv /\ [Next]_vars => DraftInv'
<1> SUFFICES ASSUME TypeOK, Core, DraftInv, [Next]_vars PROVE DraftInv'
  BY DEF IInv
<1>1. ASSUME NEW t \in Requests, SendStep(t) \/ Abort(t) PROVE DraftInv'
  <2>1. CASE DraftUnavailable(t) \/ Abort(t)
    BY <2>1, SendDrafts DEF DraftUnavailable, Abort, InTx
  <2> QED
    BY <1>1, <2>1, SendDrafts, BindDrafts, CommitDrafts DEF SendStep
<1>2. CASE \E d \in Drafts : UploadStep(d) \/ Expire(d)
  BY <1>2, UploadDrafts
<1>3. CASE EventsAfter \/ UNCHANGED vars
  <2>1. UNCHANGED <<rows, object, media, parent, pc, reg, upload>>
    BY <1>3 DEF EventsAfter, vars, table, files
  <2> QED
    BY <2>1 DEF DraftInv, Uploaded, Named, Disjoint, DraftsBoundWhole, BindingOf, Stored, Asked
<1> QED
  BY <1>1, <1>2, <1>3 DEF Next

(* The drafts of a transaction stay its own until it ends: inductive        *)
(* together with the core.                                                  *)
THEOREM DraftsInductive == Spec => [](IInv /\ DraftInv)
BY InitIInv, StepIInv, InitDrafts, DraftStep, PTL DEF Spec

(* A stored message has all the media of its request, and a bound draft     *)
(* belongs to the one stored message that asked for it (bindDrafts,         *)
(* persistence.go).                                                         *)
THEOREM BoundWhole == Spec => []DraftsBoundWhole
<1>1. IInv /\ DraftInv => DraftsBoundWhole
  BY DEF DraftInv
<1> QED
  BY <1>1, DraftsInductive, PTL

(* An upload the client was told of, and every attachment of a stored       *)
(* message, has its row and its bytes (CreateDraft: bytes first).           *)
THEOREM Readable == Spec => []DraftsReadable
<1>1. ASSUME IInv, DraftInv PROVE DraftsReadable
  <2> SUFFICES ASSUME NEW d \in Drafts, upload[d] = "done" \/ parent[d] # NoOne
               PROVE  d \in media \cap object
    BY DEF DraftsReadable
  <2>1. CASE parent[d] # NoOne
    <3>1. PICK i \in 1..Len(MediaIDs[parent[d]]) : MediaIDs[parent[d]][i] = d
      BY <1>1, <2>1 DEF DraftInv, DraftsBoundWhole
    <3>2. parent[d] \in Requests /\ pc[parent[d]] # "new"
      BY <1>1, <2>1 DEF DraftInv, DraftsBoundWhole, Stored, IInv, Core, RowsInRange
    <3>3. upload[d] = "done"
      BY <1>1, <3>1, <3>2 DEF DraftInv, Named
    <3> QED
      BY <1>1, <3>3 DEF DraftInv, Uploaded
  <2> QED
    BY <1>1, <2>1 DEF DraftInv, Uploaded
<1> QED
  BY <1>1, DraftsInductive, PTL
=============================================================================
