------------------------------- MODULE SseHub -------------------------------
(***************************************************************************)
(* The event stream of the Go server: POST handlers that commit a message  *)
(* and publish it, one GET handler per connection that subscribes, replays *)
(* what is stored and then forwards what is published, and the browsers'   *)
(* EventSources, which reconnect with the last event id they were given.   *)
(*                                                                         *)
(*   internal/handler/server.go   send, publish, eventsFor, writeEvent     *)
(*                                                                         *)
(* Events 1, 2, ... are committed in the order of their ids and become     *)
(* visible to EventsAfter with the commit (module SendTx).  Every client   *)
(* is the demo viewer, who sees every event.                               *)
(***************************************************************************)
EXTENDS Integers, Sequences, FiniteSets

CONSTANTS
  Clients,     \* browser pages
  MaxConns,    \* bound: connections ever made, one handler goroutine each
  Nobody,      \* no client, no connection
  MaxEvents,   \* bound: messages ever sent
  Capacity,    \* buffer of a subscriber's channel (64)
  MaxSkips,    \* bound: how often EventVisible fails
  FaultKinds   \* what may go wrong: subset of {"disconnect", "replay", "visible", "send"}

Events == 1..MaxEvents
Conns  == 1..MaxConns

ASSUME HubAssumption ==
  /\ Nobody \notin Conns \cup Clients
  /\ MaxEvents \in Nat /\ MaxConns \in Nat /\ MaxSkips \in Nat
  /\ Capacity \in Nat \ {0}
  /\ FaultKinds \subseteq {"disconnect", "replay", "visible", "send"}

VARIABLES
  committed,  \* events 1..committed are stored
  pub,        \* the POST handler of an event
  left,       \* snapshot of the subscribers that publish has still to visit
  at,         \* the subscriber with a full channel that publish waits for, or Nobody
  skipped,    \* <<event, connection>> pairs passed over by a failed EventVisible
  subs,       \* Server.subs
  state,      \* the GET handler of a connection
  owner,      \* the client of a connection, or Nobody
  open,       \* connections whose client still reads from them
  from,       \* Last-Event-ID of a connection
  replay,     \* stored events the handler has still to write
  chan,       \* the subscriber's channel
  got,        \* the events the client was given on a connection, in order
  lastID      \* last event id of a client's EventSource

posts == <<committed, pub, left, at, skipped>>
conn  == <<state, owner, open, from, replay>>
vars  == <<committed, pub, left, at, skipped, subs, state, owner, open, from, replay,
           chan, got, lastID>>

Elems(s) == {s[i] : i \in 1..Len(s)}
Online(cl) == \E c \in open : owner[c] = cl

Init ==
  /\ committed = 0
  /\ pub = [e \in Events |-> "none"]
  /\ left = [e \in Events |-> {}] /\ at = [e \in Events |-> Nobody]
  /\ skipped = {} /\ subs = {} /\ open = {}
  /\ state = [c \in Conns |-> "new"] /\ owner = [c \in Conns |-> Nobody]
  /\ from = [c \in Conns |-> 0] /\ replay = [c \in Conns |-> <<>>]
  /\ chan = [c \in Conns |-> <<>>] /\ got = [c \in Conns |-> <<>>]
  /\ lastID = [cl \in Clients |-> 0]

-----------------------------------------------------------------------------
(* The POST handler: send and publish.                                     *)

\* The message is stored.  If Send fails after its commit nothing is published.
Send ==
  /\ committed < MaxEvents
  /\ committed' = committed + 1
  /\ \/ pub' = [pub EXCEPT ![committed + 1] = "committed"]
     \/ "send" \in FaultKinds /\ pub' = [pub EXCEPT ![committed + 1] = "unpublished"]
  /\ UNCHANGED <<left, at, skipped, subs, conn, chan, got, lastID>>

\* Mutant of Snapshot: subscribers that are busy replaying are left out.
Snapshot_NotReplaying == {c \in subs : replay[c] = <<>>}

Snapshot == subs

\* The subscribers are copied under the read lock.
Publish(e) ==
  /\ pub[e] = "committed"
  /\ pub' = [pub EXCEPT ![e] = "sending"]
  /\ left' = [left EXCEPT ![e] = Snapshot]
  /\ UNCHANGED <<committed, at, skipped, subs, conn, chan, got, lastID>>

\* sub <- event, if the channel has room.
Offer(c, e) ==
  Len(chan[c]) < Capacity /\ chan' = [chan EXCEPT ![c] = Append(@, e)]

\* Mutants of Visit: a full channel drops the event; the channel has no bound; a
\* visited subscriber stays in the snapshot.
Visit_Drops(e, c) ==
  /\ pub[e] = "sending" /\ at[e] = Nobody /\ c \in left[e]
  /\ left' = [left EXCEPT ![e] = @ \ {c}]
  /\ \/ Offer(c, e)
     \/ Len(chan[c]) = Capacity /\ UNCHANGED chan
  /\ UNCHANGED <<committed, pub, at, skipped, subs, conn, got, lastID>>

Visit_Unbounded(e, c) ==
  /\ pub[e] = "sending" /\ at[e] = Nobody /\ c \in left[e]
  /\ left' = [left EXCEPT ![e] = @ \ {c}]
  /\ chan' = [chan EXCEPT ![c] = Append(@, e)]
  /\ UNCHANGED <<committed, pub, at, skipped, subs, conn, got, lastID>>

Visit_Again(e, c) ==
  /\ pub[e] = "sending" /\ at[e] = Nobody /\ c \in left[e]
  /\ left' \in {left, [left EXCEPT ![e] = @ \ {c}]}
  /\ Offer(c, e)
  /\ UNCHANGED <<committed, pub, at, skipped, subs, conn, got, lastID>>

\* The next subscriber, in the order of a map.  EventVisible says yes, and the
\* event goes into the channel or publish waits for room; or EventVisible fails
\* and the subscriber is passed over.
Visit(e, c) ==
  /\ pub[e] = "sending" /\ at[e] = Nobody /\ c \in left[e]
  /\ left' = [left EXCEPT ![e] = @ \ {c}]
  /\ \/ Offer(c, e) /\ UNCHANGED <<at, skipped>>
     \/ Len(chan[c]) = Capacity /\ at' = [at EXCEPT ![e] = c] /\ UNCHANGED <<chan, skipped>>
     \/ /\ "visible" \in FaultKinds /\ Cardinality(skipped) < MaxSkips
        /\ skipped' = skipped \cup {<<e, c>>} /\ UNCHANGED <<at, chan>>
  /\ UNCHANGED <<committed, pub, subs, conn, got, lastID>>

\* The channel that publish has been waiting for has room again.
Unblock(e) ==
  /\ at[e] # Nobody /\ Offer(at[e], e)
  /\ at' = [at EXCEPT ![e] = Nobody]
  /\ UNCHANGED <<committed, pub, left, skipped, subs, conn, got, lastID>>

\* publish has returned and the sender is answered.
Published(e) == pub[e] = "sending" /\ at[e] = Nobody /\ left[e] = {}

-----------------------------------------------------------------------------
(* The GET handler: eventsFor.                                             *)

\* A client without a connection makes one; the handler subscribes first.
Connect(cl, c) ==
  /\ state[c] = "new" /\ \A d \in 1..(c - 1) : state[d] # "new"
  /\ ~Online(cl)
  /\ state' = [state EXCEPT ![c] = "subscribed"]
  /\ owner' = [owner EXCEPT ![c] = cl]
  /\ open' = open \cup {c}
  /\ from' = [from EXCEPT ![c] = lastID[cl]]
  /\ subs' = subs \cup {c}
  /\ UNCHANGED <<posts, replay, chan, got, lastID>>

\* EventsAfter: everything stored after Last-Event-ID, in order.
Replay(c) ==
  /\ state[c] = "subscribed"
  /\ state' = [state EXCEPT ![c] = "streaming"]
  /\ replay' = [replay EXCEPT ![c] = [i \in 1..(committed - from[c]) |-> from[c] + i]]
  /\ UNCHANGED <<posts, subs, owner, open, from, chan, got, lastID>>

\* EventsAfter fails: the answer is an error, on which a browser gives the
\* EventSource up; the next connection is a new page's.
ReplayFails(c) ==
  /\ "replay" \in FaultKinds
  /\ state[c] = "subscribed"
  /\ state' = [state EXCEPT ![c] = "ended"]
  /\ subs' = subs \ {c} /\ open' = open \ {c}
  /\ lastID' = IF c \in open THEN [lastID EXCEPT ![owner[c]] = 0] ELSE lastID
  /\ UNCHANGED <<posts, owner, from, replay, chan, got>>

\* writeEvent of one event, first of the replay, then of the channel.  What is
\* written to a connection nobody reads is lost.
Write(c) ==
  /\ state[c] = "streaming" /\ replay[c] \o chan[c] # <<>>
  /\ IF replay[c] # <<>>
     THEN replay' = [replay EXCEPT ![c] = Tail(@)] /\ UNCHANGED chan
     ELSE chan' = [chan EXCEPT ![c] = Tail(@)] /\ UNCHANGED replay
  /\ LET e == Head(replay[c] \o chan[c])
     IN  IF c \in open
         THEN got' = [got EXCEPT ![c] = Append(@, e)]
              /\ lastID' = [lastID EXCEPT ![owner[c]] = e]
         ELSE UNCHANGED <<got, lastID>>
  /\ UNCHANGED <<posts, subs, state, owner, open, from>>

\* The network or the client drops the connection; the server does not know yet.
Disconnect(c) ==
  /\ "disconnect" \in FaultKinds
  /\ c \in open
  /\ open' = open \ {c}
  /\ UNCHANGED <<posts, subs, state, owner, from, replay, chan, got, lastID>>

\* The handler notices, by a failed write or its context, and unsubscribes.
End(c) ==
  /\ state[c] \in {"subscribed", "streaming"} /\ c \notin open
  /\ state' = [state EXCEPT ![c] = "ended"]
  /\ subs' = subs \ {c}
  /\ replay' = [replay EXCEPT ![c] = <<>>]
  /\ UNCHANGED <<posts, owner, open, from, chan, got, lastID>>

-----------------------------------------------------------------------------
PostStep(e) ==
  \/ Publish(e) \/ Unblock(e)
  \/ \E c \in Conns : Visit(e, c)

StreamStep(c) == Replay(c) \/ Write(c) \/ End(c)

Next ==
  \/ Send
  \/ \E e \in Events : PostStep(e)
  \/ \E c \in Conns : StreamStep(c) \/ ReplayFails(c) \/ Disconnect(c)
  \/ \E cl \in Clients, c \in Conns : Connect(cl, c)

Spec == Init /\ [][Next]_vars

(* Goroutines that can go on do; senders and browsers need not.             *)
FairSpec ==
  /\ Spec
  /\ \A e \in Events : WF_vars(PostStep(e))
  /\ \A c \in Conns : WF_vars(StreamStep(c))

-----------------------------------------------------------------------------
(* Type invariant; the channels never hold more than their buffer.          *)
TypeOK ==
  /\ committed \in 0..MaxEvents
  /\ pub \in [Events -> {"none", "committed", "unpublished", "sending"}]
  /\ left \in [Events -> SUBSET Conns] /\ at \in [Events -> Conns \cup {Nobody}]
  /\ skipped \subseteq Events \X Conns
  /\ subs \subseteq Conns /\ open \subseteq Conns
  /\ state \in [Conns -> {"new", "subscribed", "streaming", "ended"}]
  /\ owner \in [Conns -> Clients \cup {Nobody}]
  /\ from \in [Conns -> 0..MaxEvents] /\ lastID \in [Clients -> 0..MaxEvents]
  /\ replay \in [Conns -> Seq(Events)] /\ got \in [Conns -> Seq(Events)]
  /\ chan \in [Conns -> Seq(Events)] /\ \A c \in Conns : Len(chan[c]) <= Capacity

\* publish is done with the subscriber, or had it not in its snapshot.
PastBy(e, c) ==
  pub[e] = "sending" /\ c \notin left[e] /\ at[e] # c /\ <<e, c>> \notin skipped

(* Subscribe before replay: whatever the interleaving of the two handlers,  *)
(* an event that publish is done with has been given to every connection    *)
(* that is open and streaming, or is on its way there, unless the query for *)
(* its visibility failed.                                                   *)
NoLossWhileOpen ==
  \A c \in open, e \in Events :
    state[c] = "streaming" /\ e > from[c] /\ PastBy(e, c) =>
      e \in Elems(got[c]) \cup Elems(replay[c]) \cup Elems(chan[c])

(* The overlap of replay and live delivery costs one duplicate at most.     *)
WrittenAtMostTwice ==
  \A c \in Conns, e \in Events :
    Cardinality({i \in 1..Len(got[c]) : got[c][i] = e}) <= 2

(* An event that publish has put into an open connection's channel, or left *)
(* to its replay, is written to it, even when the publisher has since been  *)
(* stopped by another subscriber that died with a full channel.             *)
EventuallyDelivered ==
  \A c \in Conns, e \in Events :
    (c \in open /\ e > from[c] /\ PastBy(e, c)) ~>
      (c \notin open \/ e \in Elems(got[c]))

(* "A connected client must never silently miss an event while its          *)
(* EventSource remains open" (server.go): a published event that the resume *)
(* point has moved past on an open connection was given on it, or is on its *)
(* way, also when the query for its visibility failed.                      *)
OpenMissesNothing ==
  \A c \in open, e \in Events :
    state[c] = "streaming" /\ e > from[c] /\ e < lastID[owner[c]] /\ Published(e) =>
      e \in Elems(got[c]) \cup Elems(replay[c]) \cup Elems(chan[c])

(* "The subscriber snapshot means this cannot deadlock with connection      *)
(* cleanup": every publish comes to its end and the sender is answered.     *)
EventuallyPublished ==
  \A e \in Events : pub[e] = "committed" ~> Published(e)

(* "A connected client must never silently miss an event while its          *)
(* EventSource remains open", reconnects included: what is published and    *)
(* not newer than the last event id has been given to the client, or is on  *)
(* its way on the open connection.                                          *)
ResumeMissesNothing ==
  \A c \in open, e \in Events :
    state[c] = "streaming" /\ Published(e) /\ e <= from[c] =>
      \E d \in Conns : owner[d] = owner[c] /\ e \in Elems(got[d]) \cup Elems(chan[d])
=============================================================================
