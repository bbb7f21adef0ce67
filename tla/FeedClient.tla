----------------------------- MODULE FeedClient -----------------------------
(***************************************************************************)
(* The browser's feed: the reducer and the three kinds of request that     *)
(* race with the event stream.                                             *)
(*                                                                         *)
(*   frontend/src/state/feedReducer.ts   the reducer                       *)
(*   frontend/src/state/useFeed.ts       first page, gap repair, history   *)
(*   frontend/src/api.ts                 fetchFeed, fetchFeedBefore        *)
(*                                                                         *)
(* A message is its feed ordinal (SendTx: dense, in the order of commits). *)
(* Of the event stream nothing is assumed but that it delivers committed   *)
(* live messages: in any order, again, or not at all (SseHub).  A request  *)
(* reads the database at one moment and its answer arrives at any later    *)
(* one.                                                                    *)
(***************************************************************************)
EXTENDS Integers, Sequences, FiniteSets, SequencesExt

CONSTANTS
  Seeded,       \* messages 0..Seeded-1 are canonical: no event is sent for them
  MaxOrdinal,   \* bound on the messages
  PageSize,     \* rows of the first page and of a page of history (100)
  RepairLimit,  \* rows of a gap repair (500)
  MaxFailures   \* bound on requests that fail

ASSUME FeedAssumption ==
  /\ Seeded \in Nat \ {0} /\ MaxOrdinal \in Nat /\ MaxOrdinal >= Seeded
  /\ PageSize \in Nat \ {0} /\ RepairLimit \in Nat \ {0} /\ MaxFailures \in Nat

VARIABLES
  last,         \* the newest stored message
  messages,     \* state.messages: the rendered list
  nextExpected, \* state.nextExpectedOrdinal
  buffer,       \* keys of state.buffer
  first,        \* the request for the first page
  repair,       \* the request of the gap repair; idle iff neither isRepairing is set
  older,        \* the request for history; idle iff isLoadingOlder is not set
  hasOlder,
  failures,     \* requests that have failed
  given,        \* the messages the event stream has delivered
  pageStart,    \* first message of the first page, 0 before it
  takenBack     \* rendered messages that a first page removed at the newest end

state == <<messages, nextExpected, buffer>>
ghost == <<given, pageStart, takenBack>>
vars  == <<last, messages, nextExpected, buffer, first, repair, older, hasOlder,
           failures, given, pageStart, takenBack>>

Ordinals == 0..MaxOrdinal

\* A request: idle, asked of the server, answered with rows.
Idle == [st |-> "idle", cursor |-> 0, rows |-> {}]
Ask(cursor) == [st |-> "asked", cursor |-> cursor, rows |-> {}]
Answered(r, rows) == [r EXCEPT !.st = "answered", !.rows = rows]

\* A set of messages in feed order: each at the place its predecessors leave it.
Ascending(S) ==
  [i \in 1..Cardinality(S) |-> CHOOSE x \in S : Cardinality({y \in S : y < x}) = i - 1]

\* A list sorted by feed_ordinal; equal ones keep their order.
Before(s, k) == {j \in DOMAIN s : s[j] < s[k] \/ (s[j] = s[k] /\ j < k)}
Sorted(s) ==
  [i \in DOMAIN s |-> s[CHOOSE k \in DOMAIN s : Cardinality(Before(s, k)) = i - 1]]

\* The first ordinal from n on that is not in S: where the draining loops stop.
FirstGap(n, S) == CHOOSE m \in n..(MaxOrdinal + 1) : n..(m - 1) \subseteq S /\ m \notin S

\* The n newest of the rows before a cursor; the n oldest after one.
RowsBefore(cursor, n) == {o \in 0..last : o < cursor /\ o >= Min({cursor, last + 1}) - n}
RowsAfter(cursor, n)  == {o \in 0..last : o > cursor /\ o <= cursor + n}

Init ==
  /\ last = Seeded - 1
  /\ messages = <<>> /\ nextExpected = 0 /\ buffer = {}
  /\ first = Ask(MaxOrdinal + 1) /\ repair = Idle /\ older = Idle
  /\ hasOlder = TRUE /\ failures = 0
  /\ given = {} /\ pageStart = 0 /\ takenBack = {}

-----------------------------------------------------------------------------
(* The reducer.                                                            *)

INIT_MESSAGES(page) ==
  LET next == IF page = {} THEN 0 ELSE Max(page) + 1
      stop == FirstGap(next, buffer \ page)
  IN  /\ messages' = Ascending(page) \o Ascending(next..(stop - 1))
      /\ nextExpected' = stop
      /\ buffer' = {o \in buffer \ page : o >= stop}

\* Mutant of Late: the list is not searched for the message.
Late_Again(o) ==
  /\ o < nextExpected
  /\ messages' = Sorted(Append(messages, o))
  /\ UNCHANGED <<nextExpected, buffer>>

\* RECEIVE_EVENT, case 1: below what is expected; inserted if it is not there.
Late(o) ==
  /\ o < nextExpected
  /\ messages' = IF o \in ToSet(messages) THEN messages
                 ELSE Sorted(Append(messages, o))
  /\ UNCHANGED <<nextExpected, buffer>>

\* Mutant of Expected: the counter is incremented once too often.
Expected_Twice(o) ==
  /\ o = nextExpected
  /\ LET stop == FirstGap(o + 1, buffer)
     IN  /\ messages' = messages \o Ascending(o..(stop - 1))
         /\ nextExpected' = stop + 1
         /\ buffer' = {b \in buffer : b > stop}

\* Case 2: the expected one; it is appended with all that now follows it.
Expected(o) ==
  /\ o = nextExpected
  /\ LET stop == FirstGap(o + 1, buffer)
     IN  /\ messages' = messages \o Ascending(o..(stop - 1))
         /\ nextExpected' = stop
         /\ buffer' = {b \in buffer : b >= stop}

\* Case 3: a gap; the event is held back.
Early(o) ==
  /\ o > nextExpected
  /\ buffer' = buffer \cup {o}
  /\ UNCHANGED <<messages, nextExpected>>

RECEIVE_EVENT(o) == Late(o) \/ Expected(o) \/ Early(o)

PREPEND_HISTORY(rows) ==
  /\ messages' = Ascending(ToSet(messages) \cup rows)
  /\ UNCHANGED <<nextExpected, buffer>>

\* Mutants of Merge: everything that was fetched is rendered; what is not
\* contiguous is dropped.
Merge_All(rows) ==
  LET candidates == rows \cup buffer
  IN  /\ messages' = Ascending(ToSet(messages) \cup candidates)
      /\ nextExpected' = IF Max(candidates) >= nextExpected THEN Max(candidates) + 1
                         ELSE nextExpected
      /\ buffer' = {}

Merge_Forgets(rows) ==
  LET stop == FirstGap(nextExpected, rows \cup buffer)
  IN  /\ messages' = messages \o Ascending((nextExpected..(stop - 1)) \ ToSet(messages))
      /\ nextExpected' = stop
      /\ buffer' = {}

\* GAP_REPAIRED with rows: the contiguous prefix of rows and buffer is appended,
\* the rest is kept for later.
Merge(rows) ==
  LET candidates == rows \cup buffer
      stop == FirstGap(nextExpected, candidates)
  IN  /\ messages' = messages \o Ascending((nextExpected..(stop - 1)) \ ToSet(messages))
      /\ nextExpected' = stop
      /\ buffer' = {o \in candidates : o > stop}

GAP_REPAIRED(rows) ==
  \/ rows = {} /\ UNCHANGED state
  \/ rows # {} /\ Merge(rows)

-----------------------------------------------------------------------------
(* The store and the stream.                                               *)

Commit ==
  /\ last < MaxOrdinal
  /\ last' = last + 1
  /\ UNCHANGED <<state, first, repair, older, hasOlder, failures, ghost>>

Receive(o) ==
  /\ o \in Seeded..last
  /\ RECEIVE_EVENT(o)
  /\ given' = given \cup {o}
  /\ UNCHANGED <<last, first, repair, older, hasOlder, failures, pageStart, takenBack>>

-----------------------------------------------------------------------------
(* The first page.                                                         *)

FirstRead ==
  /\ first.st = "asked"
  /\ first' = Answered(first, RowsBefore(first.cursor, PageSize))
  /\ UNCHANGED <<last, state, repair, older, hasOlder, failures, ghost>>

FirstPage ==
  /\ first.st = "answered"
  /\ INIT_MESSAGES(first.rows)
  /\ hasOlder' = (Cardinality(first.rows) = PageSize)
  /\ pageStart' = Min(first.rows \cup {last})
  /\ takenBack' = {o \in ToSet(messages) : o >= nextExpected'}
  /\ first' = Idle
  /\ UNCHANGED <<last, repair, older, failures, given>>

Failure == failures < MaxFailures /\ failures' = failures + 1

FirstFails ==
  /\ first.st # "idle" /\ Failure
  /\ first' = Idle
  /\ UNCHANGED <<last, state, repair, older, hasOlder, ghost>>

-----------------------------------------------------------------------------
(* Gap repair: the effect asks when something is buffered and no repair is  *)
(* under way; a failed one is asked again at once.                          *)

\* Mutant of StartRepair: it asks from the buffered event on.
StartRepair_FromBuffer ==
  /\ buffer # {} /\ repair = Idle
  /\ repair' = Ask(Min(buffer) - 1)
  /\ UNCHANGED <<last, state, first, older, hasOlder, failures, ghost>>

StartRepair ==
  /\ buffer # {} /\ repair = Idle
  /\ repair' = Ask(nextExpected - 1)
  /\ UNCHANGED <<last, state, first, older, hasOlder, failures, ghost>>

RepairRead ==
  /\ repair.st = "asked"
  /\ repair' = Answered(repair, RowsAfter(repair.cursor, RepairLimit))
  /\ UNCHANGED <<last, state, first, older, hasOlder, failures, ghost>>

Repaired ==
  /\ repair.st = "answered"
  /\ GAP_REPAIRED(repair.rows)
  /\ repair' = Idle
  /\ UNCHANGED <<last, first, older, hasOlder, failures, ghost>>

RepairFails ==
  /\ repair.st # "idle" /\ Failure
  /\ repair' = Idle
  /\ UNCHANGED <<last, state, first, older, hasOlder, ghost>>

-----------------------------------------------------------------------------
(* History, when the reader scrolls up.                                     *)

LoadOlder ==
  /\ older = Idle /\ hasOlder /\ messages # <<>>
  /\ older' = Ask(messages[1])
  /\ UNCHANGED <<last, state, first, repair, hasOlder, failures, ghost>>

OlderRead ==
  /\ older.st = "asked"
  /\ older' = Answered(older, RowsBefore(older.cursor, PageSize))
  /\ UNCHANGED <<last, state, first, repair, hasOlder, failures, ghost>>

OlderPage ==
  /\ older.st = "answered"
  /\ PREPEND_HISTORY(older.rows)
  /\ hasOlder' = (Cardinality(older.rows) = PageSize)
  /\ older' = Idle
  /\ UNCHANGED <<last, first, repair, failures, ghost>>

OlderFails ==
  /\ older.st # "idle" /\ Failure
  /\ older' = Idle
  /\ UNCHANGED <<last, state, first, repair, hasOlder, ghost>>

Next ==
  \/ Commit \/ \E o \in Ordinals : Receive(o)
  \/ FirstRead \/ FirstPage \/ FirstFails
  \/ StartRepair \/ RepairRead \/ Repaired \/ RepairFails
  \/ LoadOlder \/ OlderRead \/ OlderPage \/ OlderFails

Spec == Init /\ [][Next]_vars

(* Effects run, and requests that do not fail are answered.  Nothing is     *)
(* assumed of the stream, of the reader or of failures.                     *)
FairSpec ==
  /\ Spec
  /\ WF_vars(StartRepair) /\ WF_vars(RepairRead) /\ WF_vars(Repaired)
-----------------------------------------------------------------------------
Shown == ToSet(messages)

Request == [st : {"idle", "asked", "answered"}, cursor : -1..(MaxOrdinal + 1),
            rows : SUBSET Ordinals]

(* Type invariant; requests return stored messages only.                    *)
TypeOK ==
  /\ last \in (Seeded - 1)..MaxOrdinal
  /\ messages \in Seq(0..last)
  /\ nextExpected \in 0..(last + 1) /\ buffer \subseteq 0..last
  /\ first \in Request /\ repair \in Request /\ older \in Request
  /\ hasOlder \in BOOLEAN /\ failures \in 0..MaxFailures
  /\ given \subseteq Seeded..last /\ pageStart \in Ordinals /\ takenBack \subseteq Ordinals

(* The list is rendered in feed order without duplicates, and an event that *)
(* is held back is really beyond a gap: its predecessor is missing.         *)
InOrder ==
  /\ \A i \in 1..(Len(messages) - 1) : messages[i] < messages[i + 1]
  /\ \A o \in Shown : o < nextExpected
  /\ \A o \in buffer : o > nextExpected

(* From the first page on the list has no hole: nothing after a gap is      *)
(* rendered before the gap is closed.                                       *)
NoHole == pageStart..(nextExpected - 1) \subseteq Shown

Quiet == first = Idle /\ repair = Idle /\ buffer = {}

(* When nothing is under way, every message the stream has delivered is     *)
(* rendered, or is older than the first page (history).                     *)
Rendered(o) == o \in Shown \/ o < pageStart
CaughtUp == Quiet => \A o \in given : Rendered(o)

(* The only way to lose a delivered message is that it was rendered and     *)
(* then removed by a first page that had been read before it.               *)
LossOnlyByFirstPage ==
  Quiet => \A o \in given : Rendered(o) \/ o \in takenBack

(* Once the end of history is reached, the oldest message is rendered.      *)
HistoryReachable == ~hasOlder => 0 \in Shown

(* A gap is always repaired: no event is held back for ever.                *)
AlwaysRepaired == []<>(buffer = {})
=============================================================================
