---------------------------- MODULE SseHubProofs ----------------------------
(***************************************************************************)
(* Theorems about SseHub, for any clients, connections, events, channel    *)
(* capacity and faults.                                                    *)
(***************************************************************************)
EXTENDS SseHub, SequenceTheorems, FiniteSetTheorems, TLAPS

(* An open connection has a handler, which stays subscribed.                *)
OpenSubscribed == \A c \in open : state[c] \in {"subscribed", "streaming"} /\ c \in subs

(* Nothing is published before it is stored.                                *)
PublishedStored == \A e \in Events : pub[e] # "none" <=> e <= committed

DeliveryInv == TypeOK /\ OpenSubscribed /\ PublishedStored /\ NoLossWhileOpen

-----------------------------------------------------------------------------
(* Sequences.                                                               *)

LEMMA ElemsAppend ==
  ASSUME NEW S, NEW s \in Seq(S), NEW e \in S
  PROVE  Elems(Append(s, e)) = Elems(s) \cup {e}
<1>1. /\ Len(Append(s, e)) = Len(s) + 1 /\ Len(s) \in Nat
      /\ \A i \in 1..Len(s) : Append(s, e)[i] = s[i]
      /\ Append(s, e)[Len(s) + 1] = e
  BY AppendProperties, LenProperties
<1> QED
  BY <1>1 DEF Elems

LEMMA ElemsTail ==
  ASSUME NEW S, NEW s \in Seq(S), s # <<>>
  PROVE  Elems(s) = {Head(s)} \cup Elems(Tail(s))
<1>1. /\ Len(Tail(s)) = Len(s) - 1 /\ Len(s) \in Nat \ {0}
      /\ \A i \in 1..Len(Tail(s)) : Tail(s)[i] = s[i + 1]
  BY HeadTailProperties, EmptySeq
<1>2. Head(s) = s[1]
  OBVIOUS
<1>3. ASSUME NEW x \in Elems(s) PROVE x \in {Head(s)} \cup Elems(Tail(s))
  <2>1. PICK i \in 1..Len(s) : x = s[i]
    BY <1>3 DEF Elems
  <2>2. CASE i = 1
    BY <2>1, <2>2, <1>2
  <2>3. CASE i # 1
    <3>1. i - 1 \in 1..Len(Tail(s)) /\ Tail(s)[i - 1] = s[(i - 1) + 1]
      BY <2>3, <1>1
    <3>2. (i - 1) + 1 = i
      OBVIOUS
    <3> QED
      BY <3>1, <3>2, <2>1 DEF Elems
  <2> QED
    BY <2>2, <2>3
<1>4. ASSUME NEW x \in {Head(s)} \cup Elems(Tail(s)) PROVE x \in Elems(s)
  <2>1. CASE x = Head(s)
    BY <2>1, <1>1, <1>2 DEF Elems
  <2>2. CASE x \in Elems(Tail(s))
    <3>1. PICK i \in 1..Len(Tail(s)) : x = Tail(s)[i]
      BY <2>2 DEF Elems
    <3>2. i + 1 \in 1..Len(s) /\ x = s[i + 1]
      BY <3>1, <1>1
    <3> QED
      BY <3>2 DEF Elems
  <2> QED
    BY <1>4, <2>1, <2>2
<1> QED
  BY <1>3, <1>4

-----------------------------------------------------------------------------
(* Type correctness.                                                        *)

LEMMA HeadOfConcat ==
  ASSUME NEW S, NEW s \in Seq(S), NEW t \in Seq(S), s # <<>>
  PROVE  Head(s \o t) = Head(s)
<1>1. s \o t \in Seq(S) /\ Len(s) \in Nat \ {0} /\ Len(t) \in Nat
  BY ConcatProperties, EmptySeq, LenProperties
<1>2. (s \o t)[1] = s[1]
  BY <1>1, ConcatProperties
<1>3. Head(s \o t) = (s \o t)[1] /\ Head(s) = s[1]
  OBVIOUS
<1> QED
  BY <1>2, <1>3

LEMMA EventRange == MaxEvents \in Nat /\ Events \subseteq 0..MaxEvents
<1>1. MaxEvents \in Nat
  BY HubAssumption
<1> QED
  BY <1>1 DEF Events

LEMMA InitType == Init => TypeOK
<1> SUFFICES ASSUME Init PROVE TypeOK
  OBVIOUS
<1>1. <<>> \in Seq(Events) /\ Len(<<>>) = 0
  BY EmptySeq
<1> QED
  BY <1>1, HubAssumption DEF Init, TypeOK, Events, Conns

LEMMA OfferType ==
  ASSUME TypeOK, NEW c \in Conns, NEW e \in Events, Offer(c, e)
  PROVE  /\ chan' \in [Conns -> Seq(Events)]
         /\ \A d \in Conns : Len(chan'[d]) <= Capacity
         /\ \A d \in Conns : chan'[d] = IF d = c THEN Append(chan[c], e) ELSE chan[d]
<1>1. /\ Append(chan[c], e) \in Seq(Events)
      /\ Len(Append(chan[c], e)) = Len(chan[c]) + 1 /\ Len(chan[c]) \in Nat
  BY AppendProperties, LenProperties DEF TypeOK
<1>2. Len(Append(chan[c], e)) <= Capacity
  BY <1>1, HubAssumption DEF Offer
<1> QED
  BY <1>1, <1>2 DEF Offer, TypeOK

LEMMA PostType ==
  ASSUME TypeOK, NEW e \in Events, PostStep(e)
  PROVE  TypeOK'
<1>1. CASE Publish(e)
  BY <1>1 DEF Publish, Snapshot, TypeOK, conn
<1>2. CASE Unblock(e)
  <2>1. at[e] \in Conns
    BY <1>2 DEF Unblock, TypeOK
  <2> QED
    BY <1>2, <2>1, OfferType DEF Unblock, TypeOK, conn
<1>3. ASSUME NEW c \in Conns, Visit(e, c) PROVE TypeOK'
  <2>1. CASE Offer(c, e) /\ UNCHANGED <<at, skipped>>
    BY <1>3, <2>1, OfferType DEF Visit, TypeOK, conn
  <2>2. CASE at' = [at EXCEPT ![e] = c] /\ UNCHANGED <<chan, skipped>>
    BY <1>3, <2>2 DEF Visit, TypeOK, conn
  <2>3. CASE skipped' = skipped \cup {<<e, c>>} /\ UNCHANGED <<at, chan>>
    BY <1>3, <2>3 DEF Visit, TypeOK, conn
  <2> QED
    BY <1>3, <2>1, <2>2, <2>3 DEF Visit
<1> QED
  BY <1>1, <1>2, <1>3 DEF PostStep

LEMMA ReplayType ==
  ASSUME TypeOK, NEW c \in Conns, Replay(c)
  PROVE  [i \in 1..(committed - from[c]) |-> from[c] + i] \in Seq(Events)
<1> DEFINE n == committed - from[c]
<1>1. committed \in 0..MaxEvents /\ from[c] \in 0..MaxEvents /\ MaxEvents \in Nat
  BY HubAssumption DEF TypeOK
<1>2. CASE n \in Nat
  <2>1. \A i \in 1..n : from[c] + i \in Events
    BY <1>1, <1>2 DEF Events
  <2>2. [i \in 1..n |-> from[c] + i] \in [1..n -> Events]
    BY <2>1
  <2> QED
    BY <1>2, <2>2, SeqDef
<1>3. CASE n \notin Nat
  <2>1. 1..n = {}
    BY <1>1, <1>3
  <2>2. [i \in 1..n |-> from[c] + i] = <<>>
    BY <2>1
  <2> QED
    BY <2>2, EmptySeq
<1> QED
  BY <1>2, <1>3

LEMMA WriteType ==
  ASSUME TypeOK, NEW c \in Conns, Write(c)
  PROVE  /\ TypeOK'
         /\ Head(replay[c] \o chan[c]) \in Events
<1> DEFINE s == replay[c] \o chan[c]
<1>1. /\ replay[c] \in Seq(Events) /\ chan[c] \in Seq(Events) /\ got[c] \in Seq(Events)
      /\ s \in Seq(Events) /\ s # <<>>
  BY ConcatProperties DEF TypeOK, Write
<1>2. Head(s) \in Events
  BY <1>1, HeadTailProperties
<1>3. Append(got[c], Head(s)) \in Seq(Events)
  BY <1>1, <1>2, AppendProperties
<1>4. got' \in [Conns -> Seq(Events)] /\ lastID' \in [Clients -> 0..MaxEvents]
  <2>1. CASE c \in open
    <3>1. got' = [got EXCEPT ![c] = Append(got[c], Head(s))]
      BY <2>1 DEF Write
    <3>2. lastID' = [lastID EXCEPT ![owner[c]] = Head(s)]
      BY <2>1 DEF Write
    <3>3. Head(s) \in 0..MaxEvents
      BY <1>2, EventRange
    <3> QED
      BY <3>1, <3>2, <3>3, <1>3 DEF TypeOK
  <2>2. CASE c \notin open
    BY <2>2 DEF Write, TypeOK
  <2> QED
    BY <2>1, <2>2
<1>5. CASE replay[c] # <<>>
  <2>1. Tail(replay[c]) \in Seq(Events)
    BY <1>1, <1>5, HeadTailProperties
  <2>2. replay' \in [Conns -> Seq(Events)] /\ chan' = chan
    BY <1>5, <2>1 DEF Write, TypeOK
  <2> QED
    BY <1>2, <1>4, <2>2 DEF Write, TypeOK, posts
<1>6. CASE replay[c] = <<>>
  <2>1. chan[c] # <<>>
    BY <1>1, <1>6, ConcatEmptySeq
  <2>2. Tail(chan[c]) \in Seq(Events) /\ Len(Tail(chan[c])) = Len(chan[c]) - 1
    BY <1>1, <2>1, HeadTailProperties
  <2>3. Len(chan[c]) \in Nat /\ Len(chan[c]) <= Capacity /\ Capacity \in Nat
    BY <1>1, LenProperties, HubAssumption DEF TypeOK
  <2>4. /\ chan' = [chan EXCEPT ![c] = Tail(chan[c])] /\ replay' = replay
    BY <1>6 DEF Write
  <2>5. chan' \in [Conns -> Seq(Events)] /\ \A d \in Conns : Len(chan'[d]) <= Capacity
    BY <2>2, <2>3, <2>4 DEF TypeOK
  <2> QED
    BY <1>2, <1>4, <2>4, <2>5 DEF Write, TypeOK, posts
<1> QED
  BY <1>5, <1>6

LEMMA ConnType ==
  ASSUME TypeOK, NEW c \in Conns, StreamStep(c) \/ ReplayFails(c) \/ Disconnect(c)
  PROVE  TypeOK'
<1>1. CASE Replay(c)
  BY <1>1, ReplayType DEF Replay, TypeOK, posts
<1>2. CASE Write(c)
  BY <1>2, WriteType
<1>3. CASE End(c)
  BY <1>3, EmptySeq DEF End, TypeOK, posts
<1>4. CASE ReplayFails(c)
  <2>1. lastID' \in [Clients -> 0..MaxEvents]
    <3>1. lastID' = lastID \/ lastID' = [lastID EXCEPT ![owner[c]] = 0]
      BY <1>4 DEF ReplayFails
    <3>2. 0 \in 0..MaxEvents
      BY HubAssumption
    <3> QED
      BY <3>1, <3>2 DEF TypeOK
  <2> QED
    BY <1>4, <2>1 DEF ReplayFails, TypeOK, posts
<1>5. CASE Disconnect(c)
  BY <1>5 DEF Disconnect, TypeOK, posts
<1> QED
  BY <1>1, <1>2, <1>3, <1>4, <1>5 DEF StreamStep

LEMMA TypeStep == ASSUME TypeOK, [Next]_vars PROVE TypeOK'
<1>1. CASE Send
  <2>1. committed + 1 \in 0..MaxEvents
    BY <1>1, HubAssumption DEF Send, TypeOK
  <2>2. pub' \in [Events -> {"none", "committed", "unpublished", "sending"}]
    BY <1>1 DEF Send, TypeOK
  <2> QED
    BY <1>1, <2>1, <2>2 DEF Send, TypeOK, conn
<1>2. CASE \E e \in Events : PostStep(e)
  BY <1>2, PostType
<1>3. CASE \E c \in Conns : StreamStep(c) \/ ReplayFails(c) \/ Disconnect(c)
  BY <1>3, ConnType
<1>4. CASE \E cl \in Clients, c \in Conns : Connect(cl, c)
  BY <1>4 DEF Connect, TypeOK, posts
<1>5. CASE UNCHANGED vars
  BY <1>5 DEF vars, TypeOK
<1> QED
  BY <1>1, <1>2, <1>3, <1>4, <1>5 DEF Next

(* The variables keep their types and a channel never holds more than its   *)
(* buffer (server.go:241).                                                  *)
THEOREM TypeCorrect == Spec => []TypeOK
<1>1. Init => TypeOK
  BY InitType
<1>2. TypeOK /\ [Next]_vars => TypeOK'
  BY TypeStep
<1> QED
  BY <1>1, <1>2, PTL DEF Spec

-----------------------------------------------------------------------------
(* NoLossWhileOpen, one step per action.                                    *)

LEMMA InitDelivery == Init => DeliveryInv
<1> SUFFICES ASSUME Init PROVE DeliveryInv
  OBVIOUS
<1>1. TypeOK
  BY InitType
<1>2. OpenSubscribed /\ NoLossWhileOpen
  BY DEF Init, OpenSubscribed, NoLossWhileOpen
<1>3. PublishedStored
  BY HubAssumption DEF Init, PublishedStored, Events
<1> QED
  BY <1>1, <1>2, <1>3 DEF DeliveryInv

LEMMA SendDelivery == ASSUME DeliveryInv, Send PROVE DeliveryInv'
<1> USE DEF DeliveryInv
<1>1. TypeOK'
  BY TypeStep DEF Next
<1>2. /\ committed \in 0..MaxEvents /\ MaxEvents \in Nat /\ committed < MaxEvents
      /\ committed' = committed + 1
      /\ \A e \in Events \ {committed + 1} : pub'[e] = pub[e]
      /\ pub'[committed + 1] \in {"committed", "unpublished"}
  BY HubAssumption DEF Send, TypeOK, Events
<1>3. PublishedStored'
  BY <1>2 DEF PublishedStored, Events
<1>4. OpenSubscribed'
  BY DEF Send, OpenSubscribed, conn
<1>5. \A e \in Events, c \in Conns : PastBy(e, c)' => PastBy(e, c)
  BY <1>2 DEF PastBy, Send
<1>6. NoLossWhileOpen'
  BY <1>5 DEF NoLossWhileOpen, Send, conn, TypeOK
<1> QED
  BY <1>1, <1>3, <1>4, <1>6

LEMMA PostDelivery ==
  ASSUME DeliveryInv, NEW e \in Events, PostStep(e)
  PROVE  DeliveryInv'
<1> USE DEF DeliveryInv
<1>1. TypeOK'
  BY TypeStep DEF Next
<1>2. OpenSubscribed'
  BY DEF OpenSubscribed, PostStep, Publish, Visit, Unblock, conn
<1>3. PublishedStored'
  BY DEF PublishedStored, PostStep, Publish, Visit, Unblock, TypeOK
<1>4. UNCHANGED <<open, state, from, got, replay>>
  BY DEF PostStep, Publish, Visit, Unblock, conn
<1>5. CASE Publish(e)
  <2>1. \A f \in Events, c \in open : PastBy(f, c)' => PastBy(f, c)
    BY <1>5 DEF Publish, Snapshot, PastBy, OpenSubscribed, TypeOK
  <2> QED
    BY <1>1, <1>2, <1>3, <1>4, <1>5, <2>1 DEF NoLossWhileOpen, Publish
<1>6. CASE Unblock(e)
  <2>1. at[e] \in Conns /\ Offer(at[e], e)
    BY <1>6 DEF Unblock, TypeOK
  <2>2. \A d \in Conns : chan'[d] = IF d = at[e] THEN Append(chan[d], e) ELSE chan[d]
    BY <2>1, OfferType
  <2>3. \A d \in Conns : Elems(chan[d]) \subseteq Elems(chan'[d]) /\ (d = at[e] => e \in Elems(chan'[d]))
    BY <2>2, ElemsAppend DEF TypeOK
  <2>4. \A f \in Events, c \in Conns : PastBy(f, c)' => PastBy(f, c) \/ (f = e /\ c = at[e])
    BY <1>6 DEF Unblock, PastBy, TypeOK
  <2>5. open \subseteq Conns
    BY DEF TypeOK
  <2> QED
    BY <1>1, <1>2, <1>3, <1>4, <2>3, <2>4, <2>5 DEF NoLossWhileOpen
<1>7. ASSUME NEW c \in Conns, Visit(e, c) PROVE DeliveryInv'
  <2>0. open \subseteq Conns
    BY DEF TypeOK
  <2>1. \A f \in Events, d \in Conns :
           PastBy(f, d)' => PastBy(f, d)
                            \/ (f = e /\ d = c /\ at'[e] # c /\ <<e, c>> \notin skipped')
    <3>1. /\ pub' = pub /\ at[e] = Nobody /\ skipped \subseteq skipped'
          /\ at' = at \/ at' = [at EXCEPT ![e] = c]
          /\ \A f \in Events, d \in Conns :
               d \notin left'[f] => d \notin left[f] \/ (f = e /\ d = c)
      BY <1>7 DEF Visit, TypeOK
    <3>2. \A f \in Events, d \in Conns : at'[f] # d => at[f] # d
      BY <3>1, HubAssumption DEF TypeOK
    <3> QED
      BY <3>1, <3>2 DEF PastBy
  <2>2. CASE Offer(c, e)
    <3>1. \A d \in Conns : chan'[d] = IF d = c THEN Append(chan[d], e) ELSE chan[d]
      BY <2>2, OfferType
    <3>2. \A d \in Conns : Elems(chan[d]) \subseteq Elems(chan'[d]) /\ (d = c => e \in Elems(chan'[d]))
      BY <3>1, ElemsAppend DEF TypeOK
    <3> QED
      BY <1>1, <1>2, <1>3, <1>4, <2>0, <2>1, <3>2 DEF NoLossWhileOpen
  <2>3. CASE at' = [at EXCEPT ![e] = c] /\ UNCHANGED chan
    BY <1>1, <1>2, <1>3, <1>4, <2>0, <2>1, <2>3 DEF NoLossWhileOpen, TypeOK
  <2>4. CASE skipped' = skipped \cup {<<e, c>>} /\ UNCHANGED chan
    BY <1>1, <1>2, <1>3, <1>4, <2>0, <2>1, <2>4 DEF NoLossWhileOpen
  <2> QED
    BY <1>7, <2>2, <2>3, <2>4 DEF Visit
<1> QED
  BY <1>5, <1>6, <1>7 DEF PostStep

LEMMA StreamDelivery ==
  ASSUME DeliveryInv, NEW c \in Conns, StreamStep(c) \/ ReplayFails(c) \/ Disconnect(c)
  PROVE  DeliveryInv'
<1> USE DEF DeliveryInv
<1>1. TypeOK'
  BY TypeStep DEF Next
<1>2. OpenSubscribed'
  BY DEF OpenSubscribed, StreamStep, Replay, Write, End, ReplayFails, Disconnect, TypeOK
<1>3. PublishedStored' /\ \A e \in Events, d \in Conns : PastBy(e, d)' = PastBy(e, d)
  BY DEF PublishedStored, PastBy, StreamStep, Replay, Write, End, ReplayFails, Disconnect, posts
<1>4. open \subseteq Conns /\ open' \subseteq open
  BY DEF StreamStep, Replay, Write, End, ReplayFails, Disconnect, TypeOK
<1>5. CASE Replay(c)
  <2>1. /\ UNCHANGED <<open, from, got, chan>>
        /\ \A d \in Conns \ {c} : state'[d] = state[d] /\ replay'[d] = replay[d]
        /\ replay'[c] = [i \in 1..(committed - from[c]) |-> from[c] + i]
    BY <1>5 DEF Replay, TypeOK
  <2>2. ASSUME NEW e \in Events, e > from[c], PastBy(e, c)
        PROVE  e \in Elems(replay'[c])
    <3>1. e <= committed
      BY <2>2 DEF PastBy, PublishedStored
    <3>2. committed \in Nat /\ from[c] \in Nat /\ e \in Nat
      BY HubAssumption DEF TypeOK, Events
    <3>3. committed - from[c] \in Nat /\ Len(replay'[c]) = committed - from[c]
      BY <2>1, <2>2, <3>1, <3>2
    <3>4. e - from[c] \in 1..Len(replay'[c]) /\ replay'[c][e - from[c]] = e
      BY <2>1, <2>2, <3>1, <3>2, <3>3
    <3> QED
      BY <3>4 DEF Elems
  <2> QED
    BY <1>1, <1>2, <1>3, <1>4, <2>1, <2>2 DEF NoLossWhileOpen
<1>6. CASE Write(c)
  <2> DEFINE s == replay[c] \o chan[c]
  <2>1. /\ replay[c] \in Seq(Events) /\ chan[c] \in Seq(Events) /\ got[c] \in Seq(Events)
        /\ Head(s) \in Events
    BY <1>6, WriteType DEF TypeOK
  <2>2. /\ UNCHANGED <<state, open, from>>
        /\ \A d \in Conns \ {c} : replay'[d] = replay[d] /\ chan'[d] = chan[d] /\ got'[d] = got[d]
    BY <1>6 DEF Write, TypeOK, posts
  <2>3. c \in open => got'[c] = Append(got[c], Head(s))
    BY <1>6 DEF Write, TypeOK
  <2>6. c \in open => Elems(got'[c]) = Elems(got[c]) \cup {Head(s)}
    <3>1. \A e \in Events : Elems(Append(got[c], e)) = Elems(got[c]) \cup {e}
      BY <2>1, ElemsAppend
    <3> QED
      BY <2>1, <2>3, <3>1, Zenon
  <2>4. CASE replay[c] # <<>>
    <3>1. Head(s) = Head(replay[c])
      BY <2>1, <2>4, HeadOfConcat
    <3>2. replay'[c] = Tail(replay[c]) /\ chan'[c] = chan[c]
      BY <1>6, <2>4 DEF Write, TypeOK
    <3>3. c \in open => Elems(got[c]) \cup Elems(replay[c]) \cup Elems(chan[c])
                        = Elems(got'[c]) \cup Elems(replay'[c]) \cup Elems(chan'[c])
      <4>1. Elems(replay[c]) = {Head(s)} \cup Elems(replay'[c])
        BY <2>1, <2>4, <3>1, <3>2, ElemsTail
      <4> QED
        BY <2>6, <3>2, <4>1
    <3> QED
      BY <1>1, <1>2, <1>3, <1>4, <2>2, <3>3 DEF NoLossWhileOpen
  <2>5. CASE replay[c] = <<>>
    <3>1. s = chan[c] /\ chan[c] # <<>>
      BY <1>6, <2>1, <2>5, ConcatEmptySeq DEF Write
    <3>2. chan'[c] = Tail(chan[c]) /\ replay'[c] = replay[c]
      BY <1>6, <2>5 DEF Write, TypeOK
    <3>3. c \in open => Elems(got[c]) \cup Elems(replay[c]) \cup Elems(chan[c])
                        = Elems(got'[c]) \cup Elems(replay'[c]) \cup Elems(chan'[c])
      <4>1. Elems(chan[c]) = {Head(s)} \cup Elems(chan'[c])
        BY <2>1, <3>1, <3>2, ElemsTail
      <4> QED
        BY <2>6, <3>2, <4>1
    <3> QED
      BY <1>1, <1>2, <1>3, <1>4, <2>2, <3>3 DEF NoLossWhileOpen
  <2> QED
    BY <2>4, <2>5
<1>7. CASE End(c)
  <2>1. /\ c \notin open /\ UNCHANGED <<open, from, got, chan>>
        /\ \A d \in Conns \ {c} : state'[d] = state[d] /\ replay'[d] = replay[d]
    BY <1>7 DEF End, TypeOK
  <2> QED
    BY <1>1, <1>2, <1>3, <1>4, <2>1 DEF NoLossWhileOpen
<1>8. CASE ReplayFails(c)
  <2>1. /\ c \notin open' /\ UNCHANGED <<from, got, chan, replay>>
        /\ \A d \in Conns \ {c} : state'[d] = state[d]
    BY <1>8 DEF ReplayFails, TypeOK
  <2> QED
    BY <1>1, <1>2, <1>3, <1>4, <2>1 DEF NoLossWhileOpen
<1>9. CASE Disconnect(c)
  BY <1>1, <1>2, <1>3, <1>4, <1>9 DEF NoLossWhileOpen, Disconnect
<1> QED
  BY <1>5, <1>6, <1>7, <1>8, <1>9 DEF StreamStep

LEMMA ConnectDelivery ==
  ASSUME DeliveryInv, NEW cl \in Clients, NEW c \in Conns, Connect(cl, c)
  PROVE  DeliveryInv'
<1> USE DEF DeliveryInv
<1>1. TypeOK'
  BY TypeStep DEF Next
<1>2. /\ state'[c] = "subscribed" /\ UNCHANGED <<got, replay, chan>>
      /\ open' = open \cup {c} /\ open \subseteq Conns
      /\ \A d \in Conns \ {c} : state'[d] = state[d] /\ from'[d] = from[d]
      /\ subs' = subs \cup {c}
  BY DEF Connect, TypeOK
<1>3. OpenSubscribed'
  BY <1>2 DEF OpenSubscribed
<1>4. PublishedStored' /\ \A e \in Events, d \in Conns : PastBy(e, d)' = PastBy(e, d)
  BY DEF PublishedStored, PastBy, Connect, posts
<1>5. NoLossWhileOpen'
  BY <1>2, <1>4 DEF NoLossWhileOpen
<1> QED
  BY <1>1, <1>3, <1>4, <1>5

LEMMA DeliveryStep == ASSUME DeliveryInv, [Next]_vars PROVE DeliveryInv'
<1>1. CASE UNCHANGED vars
  BY <1>1 DEF vars, DeliveryInv, TypeOK, OpenSubscribed, PublishedStored, NoLossWhileOpen, PastBy
<1> QED
  BY <1>1, SendDelivery, PostDelivery, StreamDelivery, ConnectDelivery DEF Next

(* Subscribing before the replay is enough: an event that publish is done   *)
(* with is never lost to a connection that stays open (server.go:189).      *)
THEOREM NothingLostWhileOpen == Spec => []NoLossWhileOpen
<1>1. Init => DeliveryInv
  BY InitDelivery
<1>2. DeliveryInv /\ [Next]_vars => DeliveryInv'
  BY DeliveryStep
<1>3. DeliveryInv => NoLossWhileOpen
  BY DEF DeliveryInv
<1> QED
  BY <1>1, <1>2, <1>3, PTL DEF Spec

-----------------------------------------------------------------------------
(* WrittenAtMostTwice.  What a connection was given and is going to be      *)
(* given is the replay and then the channel; neither repeats an event.      *)

Stream(c) == got[c] \o (replay[c] \o chan[c])

TwoRuns(s, k) ==
  /\ k \in 0..Len(s)
  /\ \A i, j \in 1..k : i < j => s[i] # s[j]
  /\ \A i, j \in (k + 1)..Len(s) : i < j => s[i] # s[j]

\* publish has visited the subscriber and is not waiting for it.
Visited(e, c) == pub[e] = "sending" /\ c \notin left[e] /\ at[e] # c
AllVisited(s, k, c) == \A i \in (k + 1)..Len(s) : Visited(s[i], c)

\* Nobody knows a connection that was not made yet.
Unknown(c) ==
  /\ got[c] = <<>> /\ replay[c] = <<>> /\ chan[c] = <<>> /\ c \notin subs
  /\ \A e \in Events : c \notin left[e] /\ at[e] # c

RunsOf(c) ==
  /\ state[c] = "new" => Unknown(c)
  /\ state[c] = "subscribed" =>
       /\ got[c] = <<>> /\ replay[c] = <<>>
       /\ TwoRuns(chan[c], 0) /\ AllVisited(chan[c], 0, c)
  /\ state[c] = "streaming" /\ c \in open =>
       \E k \in 0..Len(Stream(c)) : TwoRuns(Stream(c), k) /\ AllVisited(Stream(c), k, c)
  /\ \E k \in 0..Len(got[c]) : TwoRuns(got[c], k)

\* publish waits for a subscriber it has taken from its snapshot.
Waiting == \A e \in Events : at[e] # Nobody => pub[e] = "sending" /\ at[e] \notin left[e]

RunsInv == DeliveryInv /\ Waiting /\ \A c \in Conns : RunsOf(c)

LEMMA EmptyRuns == TwoRuns(<<>>, 0) /\ \A c \in Conns : AllVisited(<<>>, 0, c)
<1>1. Len(<<>>) = 0
  BY EmptySeq
<1> QED
  BY <1>1 DEF TwoRuns, AllVisited

LEMMA RunsAppend ==
  ASSUME NEW S, NEW s \in Seq(S), NEW e \in S, NEW k \in 0..Len(s), TwoRuns(s, k),
         \A i \in (k + 1)..Len(s) : s[i] # e
  PROVE  k \in 0..Len(Append(s, e)) /\ TwoRuns(Append(s, e), k)
<1>1. /\ Len(Append(s, e)) = Len(s) + 1 /\ Len(s) \in Nat
      /\ \A i \in 1..Len(s) : Append(s, e)[i] = s[i]
      /\ Append(s, e)[Len(s) + 1] = e
  BY AppendProperties, LenProperties
<1>2. ASSUME NEW i \in (k + 1)..(Len(s) + 1), NEW j \in (k + 1)..(Len(s) + 1), i < j
      PROVE  Append(s, e)[i] # Append(s, e)[j]
  <2>1. i \in (k + 1)..Len(s) /\ Append(s, e)[i] = s[i]
    BY <1>1, <1>2
  <2>2. CASE j = Len(s) + 1
    BY <1>1, <2>1, <2>2
  <2>3. CASE j # Len(s) + 1
    <3>1. j \in (k + 1)..Len(s) /\ Append(s, e)[j] = s[j]
      BY <1>1, <2>3
    <3> QED
      BY <1>2, <2>1, <3>1 DEF TwoRuns
  <2> QED
    BY <2>2, <2>3
<1>3. ASSUME NEW i \in 1..k, NEW j \in 1..k, i < j
      PROVE  Append(s, e)[i] # Append(s, e)[j]
  <2>1. i \in 1..Len(s) /\ j \in 1..Len(s)
    BY <1>1
  <2> QED
    BY <1>1, <1>3, <2>1 DEF TwoRuns
<1> QED
  BY SMTT(30), <1>1, <1>2, <1>3 DEF TwoRuns

LEMMA RunsPrefix ==
  ASSUME NEW S, NEW s \in Seq(S), NEW t \in Seq(S),
         NEW k \in 0..Len(s \o t), TwoRuns(s \o t, k)
  PROVE  \E n \in 0..Len(s) : TwoRuns(s, n)
<1>1. /\ Len(s \o t) = Len(s) + Len(t) /\ Len(s) \in Nat /\ Len(t) \in Nat
      /\ \A i \in 1..Len(s) : (s \o t)[i] = s[i]
  BY ConcatProperties, LenProperties
<1>2. k \in Nat
  BY <1>1
<1>3. CASE k <= Len(s)
  <2>1. k \in 0..Len(s) /\ TwoRuns(s, k)
    BY <1>1, <1>2, <1>3 DEF TwoRuns
  <2> QED
    BY <2>1
<1>4. CASE k > Len(s)
  <2>1. Len(s) \in 0..Len(s) /\ TwoRuns(s, Len(s))
    BY <1>1, <1>2, <1>4 DEF TwoRuns
  <2> QED
    BY <2>1
<1> QED
  BY <1>1, <1>2, <1>3, <1>4

LEMMA RunsReplay ==
  ASSUME NEW r \in Seq(Events), NEW t \in Seq(Events), NEW c \in Conns,
         \A i, j \in 1..Len(r) : i < j => r[i] # r[j],
         TwoRuns(t, 0), AllVisited(t, 0, c)
  PROVE  /\ Len(r) \in 0..Len(r \o t)
         /\ TwoRuns(r \o t, Len(r)) /\ AllVisited(r \o t, Len(r), c)
<1>1. /\ Len(r \o t) = Len(r) + Len(t) /\ Len(r) \in Nat /\ Len(t) \in Nat
      /\ \A i \in 1..(Len(r) + Len(t)) : (r \o t)[i] = IF i <= Len(r) THEN r[i] ELSE t[i - Len(r)]
  BY ConcatProperties, LenProperties
<1>2. \A i \in (Len(r) + 1)..(Len(r) + Len(t)) :
        i - Len(r) \in (0 + 1)..Len(t) /\ (r \o t)[i] = t[i - Len(r)]
  BY <1>1
<1>3. \A i, j \in (Len(r) + 1)..(Len(r) + Len(t)) : i < j => i - Len(r) < j - Len(r)
  BY <1>1
<1>4. \A i, j \in (Len(r) + 1)..(Len(r) + Len(t)) : i < j => (r \o t)[i] # (r \o t)[j]
  BY <1>2, <1>3 DEF TwoRuns
<1>5. \A i, j \in 1..Len(r) : i < j => (r \o t)[i] # (r \o t)[j]
  BY <1>1
<1>6. AllVisited(r \o t, Len(r), c)
  BY <1>1, <1>2 DEF AllVisited
<1> QED
  BY <1>1, <1>4, <1>5, <1>6 DEF TwoRuns

LEMMA StreamAppend ==
  ASSUME NEW S, NEW g \in Seq(S), NEW r \in Seq(S), NEW t \in Seq(S), NEW e \in S
  PROVE  g \o (r \o Append(t, e)) = Append(g \o (r \o t), e)
<1>1. /\ r \o t \in Seq(S) /\ <<e>> \in Seq(S) /\ g \o (r \o t) \in Seq(S)
  BY ConcatProperties
<1>2. r \o Append(t, e) = r \o (t \o <<e>>)
  BY AppendIsConcat
<1>3. r \o (t \o <<e>>) = (r \o t) \o <<e>>
  BY <1>1, ConcatAssociative
<1>4. g \o ((r \o t) \o <<e>>) = (g \o (r \o t)) \o <<e>>
  BY <1>1, ConcatAssociative
<1>5. (g \o (r \o t)) \o <<e>> = Append(g \o (r \o t), e)
  BY <1>1, AppendIsConcat
<1> QED
  BY <1>2, <1>3, <1>4, <1>5

LEMMA ConsHead ==
  ASSUME NEW S, NEW g \in Seq(S), NEW s \in Seq(S), s # <<>>
  PROVE  Append(g, Head(s)) \o Tail(s) = g \o s
<1>1. /\ Head(s) \in S /\ Tail(s) \in Seq(S) /\ Len(Tail(s)) = Len(s) - 1
      /\ \A i \in 1..Len(Tail(s)) : Tail(s)[i] = s[i + 1]
      /\ Len(s) \in Nat \ {0} /\ Len(g) \in Nat /\ Head(s) = s[1]
  BY HeadTailProperties, EmptySeq, LenProperties
<1>2. /\ Append(g, Head(s)) \in Seq(S) /\ Len(Append(g, Head(s))) = Len(g) + 1
      /\ \A i \in 1..Len(g) : Append(g, Head(s))[i] = g[i]
      /\ Append(g, Head(s))[Len(g) + 1] = s[1]
  BY <1>1, AppendProperties
<1> DEFINE l == Append(g, Head(s)) \o Tail(s)
           r == g \o s
<1>3. /\ l \in Seq(S) /\ Len(l) = Len(g) + Len(s)
      /\ \A i \in 1..(Len(g) + Len(s)) :
           l[i] = IF i <= Len(g) + 1 THEN Append(g, Head(s))[i] ELSE Tail(s)[i - (Len(g) + 1)]
  BY <1>1, <1>2, ConcatProperties
<1>4. /\ r \in Seq(S) /\ Len(r) = Len(g) + Len(s)
      /\ \A i \in 1..(Len(g) + Len(s)) : r[i] = IF i <= Len(g) THEN g[i] ELSE s[i - Len(g)]
  BY <1>1, ConcatProperties
<1>5. ASSUME NEW i \in 1..(Len(g) + Len(s)) PROVE l[i] = r[i]
  <2>1. CASE i <= Len(g)
    BY <2>1, <1>1, <1>2, <1>3, <1>4
  <2>2. CASE i = Len(g) + 1
    BY <2>2, <1>1, <1>2, <1>3, <1>4
  <2>3. CASE i > Len(g) + 1
    <3>1. i - (Len(g) + 1) \in 1..Len(Tail(s)) /\ (i - (Len(g) + 1)) + 1 = i - Len(g)
      BY <2>3, <1>1
    <3>2. Tail(s)[i - (Len(g) + 1)] = s[i - Len(g)]
      BY <3>1, <1>1
    <3> QED
      BY <2>3, <3>2, <1>1, <1>3, <1>4
  <2> QED
    BY <2>1, <2>2, <2>3, <1>1
<1> HIDE DEF l, r
<1>6. l = r
  BY <1>3, <1>4, <1>5, SeqEqual
<1> QED
  BY <1>6 DEF l, r

LEMMA TailOfConcat ==
  ASSUME NEW S, NEW s \in Seq(S), NEW t \in Seq(S), s # <<>>
  PROVE  Tail(s \o t) = Tail(s) \o t
<1>1. /\ Tail(s) \in Seq(S) /\ Len(Tail(s)) = Len(s) - 1
      /\ \A i \in 1..Len(Tail(s)) : Tail(s)[i] = s[i + 1]
      /\ Len(s) \in Nat \ {0} /\ Len(t) \in Nat
  BY HeadTailProperties, EmptySeq, LenProperties
<1> DEFINE l == Tail(s \o t)
           r == Tail(s) \o t
<1>2. /\ s \o t \in Seq(S) /\ Len(s \o t) = Len(s) + Len(t)
      /\ \A i \in 1..(Len(s) + Len(t)) : (s \o t)[i] = IF i <= Len(s) THEN s[i] ELSE t[i - Len(s)]
  BY ConcatProperties
<1>3. s \o t # <<>>
  BY <1>1, <1>2, EmptySeq
<1>4. /\ l \in Seq(S) /\ Len(l) = Len(s) + Len(t) - 1
      /\ \A i \in 1..Len(l) : l[i] = (s \o t)[i + 1]
  BY <1>1, <1>2, <1>3, HeadTailProperties
<1>5. /\ r \in Seq(S) /\ Len(r) = Len(s) - 1 + Len(t)
      /\ \A i \in 1..(Len(s) - 1 + Len(t)) : r[i] = IF i <= Len(s) - 1 THEN Tail(s)[i] ELSE t[i - (Len(s) - 1)]
  BY <1>1, ConcatProperties
<1>6. ASSUME NEW i \in 1..Len(l) PROVE l[i] = r[i]
  <2>1. CASE i <= Len(s) - 1
    BY <2>1, <1>1, <1>2, <1>4, <1>5
  <2>2. CASE i > Len(s) - 1
    <3>1. (i + 1) - Len(s) = i - (Len(s) - 1)
      BY <1>1
    <3> QED
      BY <2>2, <3>1, <1>1, <1>2, <1>4, <1>5
  <2> QED
    BY <2>1, <2>2, <1>1
<1> HIDE DEF l, r
<1>7. l = r
  BY <1>1, <1>4, <1>5, <1>6, SeqEqual
<1> QED
  BY <1>7 DEF l, r

LEMMA RunsGrow ==
  ASSUME NEW s \in Seq(Events), NEW e \in Events, NEW c \in Conns, NEW k \in 0..Len(s),
         TwoRuns(s, k), AllVisited(s, k, c), ~Visited(e, c),
         \A f \in Events : Visited(f, c) => Visited(f, c)', Visited(e, c)'
  PROVE  /\ k \in 0..Len(Append(s, e)) /\ TwoRuns(Append(s, e), k)
         /\ \A i \in (k + 1)..Len(Append(s, e)) : Visited(Append(s, e)[i], c)'
<1>1. /\ Len(Append(s, e)) = Len(s) + 1 /\ Len(s) \in Nat
      /\ \A i \in 1..Len(s) : Append(s, e)[i] = s[i] /\ s[i] \in Events
      /\ Append(s, e)[Len(s) + 1] = e
  BY AppendProperties, LenProperties, ElementOfSeq
<1>2. \A i \in (k + 1)..Len(s) : s[i] # e
  BY DEF AllVisited
<1>3. k \in 0..Len(Append(s, e)) /\ TwoRuns(Append(s, e), k)
  BY <1>2, RunsAppend
<1>4. ASSUME NEW i \in (k + 1)..(Len(s) + 1) PROVE Visited(Append(s, e)[i], c)'
  <2>1. CASE i = Len(s) + 1
    BY <1>1, <2>1
  <2>2. CASE i # Len(s) + 1
    <3>1. i \in (k + 1)..Len(s) /\ i \in 1..Len(s)
      BY <1>1, <2>2
    <3>2. s[i] \in Events /\ Visited(s[i], c) /\ Append(s, e)[i] = s[i]
      BY <1>1, <3>1 DEF AllVisited
    <3> QED
      BY <3>2
  <2> QED
    BY <2>1, <2>2
<1> QED
  BY <1>1, <1>3, <1>4

LEMMA StreamType ==
  ASSUME TypeOK, NEW c \in Conns
  PROVE  /\ got[c] \in Seq(Events) /\ replay[c] \in Seq(Events) /\ chan[c] \in Seq(Events)
         /\ replay[c] \o chan[c] \in Seq(Events) /\ Stream(c) \in Seq(Events)
  BY ConcatProperties DEF TypeOK, Stream

\* What a step of publish does to a connection.
LEMMA PostEffect ==
  ASSUME TypeOK, Waiting, NEW e \in Events, PostStep(e)
  PROVE  /\ Waiting'
         /\ \A d \in Conns :
              /\ \A f \in Events : Visited(f, d) => Visited(f, d)'
              /\ \/ chan'[d] = chan[d]
                 \/ chan'[d] = Append(chan[d], e) /\ ~Visited(e, d) /\ Visited(e, d)'
              /\ Unknown(d) => Unknown(d)'
<1>1. UNCHANGED <<subs, got, replay>>
  BY DEF PostStep, Publish, Visit, Unblock, conn
<1>2. CASE Publish(e)
  <2>1. /\ pub[e] = "committed" /\ pub' = [pub EXCEPT ![e] = "sending"]
        /\ left' = [left EXCEPT ![e] = subs] /\ UNCHANGED <<at, chan>>
    BY <1>2 DEF Publish, Snapshot
  <2>2. Waiting'
    BY <2>1 DEF Waiting, TypeOK
  <2>3. \A d \in Conns, f \in Events : Visited(f, d) => Visited(f, d)'
    BY <2>1 DEF Visited, TypeOK
  <2>4. \A d \in Conns : Unknown(d) => Unknown(d)'
    BY <1>1, <2>1 DEF Unknown, TypeOK
  <2> QED
    BY <2>1, <2>2, <2>3, <2>4
<1>3. CASE Unblock(e)
  <2>1. /\ at[e] \in Conns /\ Offer(at[e], e) /\ at' = [at EXCEPT ![e] = Nobody]
        /\ UNCHANGED <<pub, left>> /\ Nobody \notin Conns
    BY <1>3, HubAssumption DEF Unblock, TypeOK
  <2>2. \A d \in Conns : chan'[d] = IF d = at[e] THEN Append(chan[d], e) ELSE chan[d]
    BY <2>1, OfferType
  <2>3. Waiting'
    BY <2>1 DEF Waiting, TypeOK
  <2>4. \A d \in Conns, f \in Events : Visited(f, d) => Visited(f, d)'
    BY <2>1 DEF Visited, TypeOK
  <2>5. ~Visited(e, at[e]) /\ \A d \in Conns : d = at[e] => Visited(e, d)'
    BY <2>1 DEF Visited, Waiting, TypeOK
  <2>6. \A d \in Conns : Unknown(d) => Unknown(d)'
    BY <1>1, <2>1, <2>2 DEF Unknown, TypeOK
  <2> QED
    BY <2>2, <2>3, <2>4, <2>5, <2>6
<1>4. ASSUME NEW c \in Conns, Visit(e, c)
      PROVE  /\ Waiting'
             /\ \A d \in Conns :
                  /\ \A f \in Events : Visited(f, d) => Visited(f, d)'
                  /\ \/ chan'[d] = chan[d]
                     \/ chan'[d] = Append(chan[d], e) /\ ~Visited(e, d) /\ Visited(e, d)'
                  /\ Unknown(d) => Unknown(d)'
  <2>1. /\ pub[e] = "sending" /\ at[e] = Nobody /\ c \in left[e]
        /\ left' = [left EXCEPT ![e] = left[e] \ {c}] /\ UNCHANGED pub
        /\ at' = at \/ at' = [at EXCEPT ![e] = c]
    BY <1>4 DEF Visit
  <2>2. Nobody \notin Conns
    BY HubAssumption
  <2>3. Waiting'
    BY <2>1, <2>2 DEF Waiting, TypeOK
  <2>4. \A d \in Conns, f \in Events : Visited(f, d) => Visited(f, d)'
    BY <2>1 DEF Visited, TypeOK
  <2>5. \A d \in Conns : Unknown(d) => d # c
    BY <2>1 DEF Unknown
  <2>6. CASE Offer(c, e) /\ at' = at
    <3>1. \A d \in Conns : chan'[d] = IF d = c THEN Append(chan[d], e) ELSE chan[d]
      BY <2>6, OfferType
    <3>2. ~Visited(e, c) /\ Visited(e, c)'
      BY <2>1, <2>2, <2>6 DEF Visited, TypeOK
    <3>3. \A d \in Conns : Unknown(d) => Unknown(d)'
      BY <1>1, <2>1, <2>5, <2>6, <3>1 DEF Unknown, TypeOK
    <3> QED
      BY <2>3, <2>4, <3>1, <3>2, <3>3
  <2>7. CASE UNCHANGED chan
    <3>1. \A d \in Conns : Unknown(d) => Unknown(d)'
      BY <1>1, <2>1, <2>5, <2>7 DEF Unknown, TypeOK
    <3> QED
      BY <2>3, <2>4, <2>7, <3>1
  <2> QED
    BY <1>4, <2>6, <2>7 DEF Visit
<1> QED
  BY <1>2, <1>3, <1>4 DEF PostStep

\* A step that neither writes to a connection nor takes anything from it.
LEMMA RunsKept ==
  ASSUME TypeOK, NEW d \in Conns, RunsOf(d),
         UNCHANGED <<state[d], got[d], replay[d], chan[d]>>, d \in open' => d \in open,
         \A f \in Events : Visited(f, d) => Visited(f, d)',
         state[d] = "new" /\ Unknown(d) => Unknown(d)'
  PROVE  RunsOf(d)'
<1>1. Stream(d)' = Stream(d)
  BY DEF Stream
<1>2. ASSUME NEW s \in Seq(Events), NEW k \in Nat, AllVisited(s, k, d)
      PROVE  \A i \in (k + 1)..Len(s) : Visited(s[i], d)'
  <2>1. \A i \in (k + 1)..Len(s) : s[i] \in Events
    BY <1>2, ElementOfSeq, LenProperties
  <2> QED
    BY <1>2, <2>1 DEF AllVisited
<1>3. state'[d] = "new" => Unknown(d)'
  BY DEF RunsOf
<1>4. state'[d] = "subscribed" =>
        /\ got'[d] = <<>> /\ replay'[d] = <<>>
        /\ TwoRuns(chan'[d], 0) /\ AllVisited(chan[d], 0, d)'
  <2>1. \A s \in Seq(Events) : AllVisited(s, 0, d) => \A i \in 1..Len(s) : Visited(s[i], d)'
    BY <1>2
  <2>2. AllVisited(chan[d], 0, d) => \A i \in 1..Len(chan[d]) : Visited(chan[d][i], d)'
    BY <2>1, StreamType
  <2>3. AllVisited(chan[d], 0, d) => AllVisited(chan[d], 0, d)'
    BY <2>2 DEF AllVisited
  <2> QED
    BY <2>3 DEF RunsOf
<1>5. ASSUME state[d] = "streaming", d \in open'
      PROVE  \E k \in 0..Len(Stream(d)') : TwoRuns(Stream(d)', k) /\ AllVisited(Stream(d), k, d)'
  <2>1. PICK k \in 0..Len(Stream(d)) : TwoRuns(Stream(d), k) /\ AllVisited(Stream(d), k, d)
    BY <1>5 DEF RunsOf
  <2>2. k \in Nat /\ Stream(d) \in Seq(Events)
    BY StreamType, LenProperties
  <2>3. \A i \in (k + 1)..Len(Stream(d)) : Visited(Stream(d)[i], d)'
    BY <1>1, <1>2, <2>1, <2>2
  <2>4. AllVisited(Stream(d), k, d)'
    BY <1>1, <2>3 DEF AllVisited
  <2> QED
    BY <1>1, <2>1, <2>4
<1> QED
  BY <1>3, <1>4, <1>5 DEF RunsOf

LEMMA InitRuns == Init => RunsInv
<1> SUFFICES ASSUME Init PROVE RunsInv
  OBVIOUS
<1>1. DeliveryInv
  BY InitDelivery
<1>2. Waiting
  BY DEF Init, Waiting
<1>3. ASSUME NEW c \in Conns PROVE RunsOf(c)
  <2>1. state[c] = "new" /\ got[c] = <<>>
    BY DEF Init
  <2>2. Unknown(c)
    BY HubAssumption DEF Init, Unknown
  <2>3. 0 \in 0..Len(got[c]) /\ TwoRuns(got[c], 0)
    BY <2>1, EmptyRuns, EmptySeq
  <2> QED
    BY <2>1, <2>2, <2>3 DEF RunsOf
<1> QED
  BY <1>1, <1>2, <1>3 DEF RunsInv

LEMMA SendRuns == ASSUME RunsInv, Send PROVE Waiting' /\ \A c \in Conns : RunsOf(c)'
<1>1. /\ TypeOK /\ PublishedStored /\ Waiting /\ \A c \in Conns : RunsOf(c)
      /\ UNCHANGED <<left, at, skipped, subs, state, open, replay, chan, got>>
  BY DEF RunsInv, DeliveryInv, Send, conn
<1>2. /\ committed + 1 \in Events /\ pub[committed + 1] = "none"
      /\ \A e \in Events : pub'[e] = pub[e] \/ (pub[e] = "none" /\ pub'[e] # "sending")
  <2>1. committed \in Nat /\ MaxEvents \in Nat /\ committed < MaxEvents
    BY HubAssumption DEF RunsInv, DeliveryInv, TypeOK, Send
  <2>2. committed + 1 \in Events /\ ~(committed + 1 <= committed)
    BY <2>1 DEF Events
  <2>3. pub[committed + 1] = "none"
    BY <1>1, <2>2 DEF PublishedStored
  <2>4. \/ pub' = [pub EXCEPT ![committed + 1] = "committed"]
        \/ pub' = [pub EXCEPT ![committed + 1] = "unpublished"]
    BY DEF Send
  <2> QED
    BY <1>1, <2>2, <2>3, <2>4 DEF TypeOK
<1>3. Waiting'
  BY <1>1, <1>2 DEF Waiting
<1>4. \A e \in Events, c \in Conns : Visited(e, c) => Visited(e, c)'
  BY <1>1, <1>2 DEF Visited
<1>5. \A c \in Conns : Unknown(c) => Unknown(c)'
  BY <1>1 DEF Unknown
<1>6. ASSUME NEW c \in Conns PROVE RunsOf(c)'
  BY <1>1, <1>4, <1>5, RunsKept
<1> QED
  BY <1>3, <1>6

LEMMA PostRuns ==
  ASSUME RunsInv, NEW e \in Events, PostStep(e)
  PROVE  Waiting' /\ \A c \in Conns : RunsOf(c)'
<1>1. /\ TypeOK /\ Waiting /\ \A c \in Conns : RunsOf(c)
      /\ UNCHANGED <<subs, state, open, replay, got>>
  BY DEF RunsInv, DeliveryInv, PostStep, Publish, Visit, Unblock, conn
<1>2. Waiting'
  BY <1>1, PostEffect
<1>3. ASSUME NEW d \in Conns PROVE RunsOf(d)'
  <2>1. /\ \A f \in Events : Visited(f, d) => Visited(f, d)'
        /\ \/ chan'[d] = chan[d]
           \/ chan'[d] = Append(chan[d], e) /\ ~Visited(e, d) /\ Visited(e, d)'
        /\ Unknown(d) => Unknown(d)'
    BY <1>1, PostEffect
  <2>2. CASE chan'[d] = chan[d]
    BY <1>1, <2>1, <2>2, RunsKept
  <2>3. CASE chan'[d] = Append(chan[d], e) /\ ~Visited(e, d) /\ Visited(e, d)'
    <3>1. state[d] = "new" => Unknown(d)'
      BY <1>1, <2>1 DEF RunsOf
    <3>2. state[d] = "subscribed" =>
            /\ got[d] = <<>> /\ replay[d] = <<>>
            /\ TwoRuns(chan'[d], 0) /\ AllVisited(chan[d], 0, d)'
      <4> SUFFICES ASSUME state[d] = "subscribed"
                   PROVE  /\ got[d] = <<>> /\ replay[d] = <<>>
                          /\ TwoRuns(chan'[d], 0) /\ AllVisited(chan[d], 0, d)'
        OBVIOUS
      <4>1. /\ got[d] = <<>> /\ replay[d] = <<>>
            /\ TwoRuns(chan[d], 0) /\ AllVisited(chan[d], 0, d)
        BY <1>1 DEF RunsOf
      <4>2. chan[d] \in Seq(Events) /\ 0 \in 0..Len(chan[d])
        BY <1>1, StreamType, LenProperties
      <4>3. /\ TwoRuns(Append(chan[d], e), 0)
            /\ \A i \in (0 + 1)..Len(Append(chan[d], e)) :
                 pub'[Append(chan[d], e)[i]] = "sending" /\ d \notin left'[Append(chan[d], e)[i]]
                 /\ at'[Append(chan[d], e)[i]] # d
        BY <2>1, <2>3, <4>1, <4>2, RunsGrow DEF Visited
      <4> QED
        BY <2>3, <4>1, <4>3 DEF AllVisited, Visited
    <3>3. ASSUME state[d] = "streaming", d \in open
          PROVE  \E k \in 0..Len(Stream(d)') : TwoRuns(Stream(d)', k) /\ AllVisited(Stream(d), k, d)'
      <4>1. PICK k \in 0..Len(Stream(d)) : TwoRuns(Stream(d), k) /\ AllVisited(Stream(d), k, d)
        BY <1>1, <3>3 DEF RunsOf
      <4>2. /\ Stream(d) \in Seq(Events)
            /\ Stream(d)' = Append(Stream(d), e)
        <5>1. /\ got[d] \in Seq(Events) /\ replay[d] \in Seq(Events) /\ chan[d] \in Seq(Events)
              /\ Stream(d) \in Seq(Events)
          BY <1>1, StreamType
        <5>2. got[d] \o (replay[d] \o Append(chan[d], e)) = Append(got[d] \o (replay[d] \o chan[d]), e)
          <6>1. \A g, r, u \in Seq(Events) : g \o (r \o Append(u, e)) = Append(g \o (r \o u), e)
            BY SMTT(30), StreamAppend
          <6> QED
            BY <5>1, <6>1, Zenon
        <5>3. Stream(d)' = got[d] \o (replay[d] \o Append(chan[d], e))
          BY <1>1, <2>3 DEF Stream
        <5> QED
          BY <5>1, <5>2, <5>3 DEF Stream
      <4>3. /\ k \in 0..Len(Append(Stream(d), e)) /\ TwoRuns(Append(Stream(d), e), k)
            /\ \A i \in (k + 1)..Len(Append(Stream(d), e)) :
                 pub'[Append(Stream(d), e)[i]] = "sending" /\ d \notin left'[Append(Stream(d), e)[i]]
                 /\ at'[Append(Stream(d), e)[i]] # d
        BY <2>1, <2>3, <4>1, <4>2, RunsGrow DEF Visited
      <4>4. AllVisited(Stream(d), k, d)'
        BY <4>2, <4>3 DEF AllVisited, Visited
      <4> QED
        BY <4>2, <4>3, <4>4
    <3> QED
      BY <1>1, <3>1, <3>2, <3>3 DEF RunsOf
  <2> QED
    BY <2>1, <2>2, <2>3
<1> QED
  BY <1>2, <1>3

LEMMA StreamRuns ==
  ASSUME RunsInv, NEW c \in Conns, StreamStep(c) \/ ReplayFails(c) \/ Disconnect(c)
  PROVE  Waiting' /\ \A d \in Conns : RunsOf(d)'
<1>1. /\ TypeOK /\ Waiting /\ \A d \in Conns : RunsOf(d)
      /\ \A d \in open : state[d] \in {"subscribed", "streaming"}
      /\ UNCHANGED <<pub, left, at>> /\ subs' \subseteq subs /\ open' \subseteq open
  BY DEF RunsInv, DeliveryInv, OpenSubscribed, StreamStep, Replay, Write, End, ReplayFails,
         Disconnect, posts
<1>2. Waiting'
  BY <1>1 DEF Waiting
<1>3. \A d \in Conns \ {c} : /\ state'[d] = state[d] /\ got'[d] = got[d]
                             /\ replay'[d] = replay[d] /\ chan'[d] = chan[d]
  <2>1. CASE Write(c)
    BY <1>1, <2>1 DEF Write, TypeOK
  <2> QED
    BY <1>1, <2>1 DEF TypeOK, StreamStep, Replay, End, ReplayFails, Disconnect
<1>4. \A d \in Conns, f \in Events : Visited(f, d) => Visited(f, d)'
  BY <1>1 DEF Visited
<1>5. ASSUME NEW d \in Conns \ {c} PROVE RunsOf(d)'
  <2>1. Unknown(d) => Unknown(d)'
    BY <1>1, <1>3 DEF Unknown
  <2> QED
    BY <1>1, <1>3, <1>4, <2>1, RunsKept
<1>6. \E k \in 0..Len(got[c]) : TwoRuns(got[c], k)
  BY <1>1 DEF RunsOf
<1>7. CASE Replay(c)
  <2> DEFINE r == [i \in 1..(committed - from[c]) |-> from[c] + i]
  <2>1. /\ state[c] = "subscribed" /\ state'[c] = "streaming" /\ replay'[c] = r
        /\ UNCHANGED <<got, chan>>
    BY <1>1, <1>7 DEF Replay, TypeOK
  <2>2. got[c] = <<>> /\ TwoRuns(chan[c], 0) /\ AllVisited(chan[c], 0, c)
    BY <1>1, <2>1 DEF RunsOf
  <2>3. r \in Seq(Events) /\ chan[c] \in Seq(Events) /\ r \o chan[c] \in Seq(Events)
    BY <1>1, <1>7, ReplayType, StreamType, ConcatProperties
  <2>4. \A i, j \in 1..Len(r) : i < j => r[i] # r[j]
    <3>1. Len(r) \in Nat /\ DOMAIN r = 1..Len(r)
      BY <2>3, LenProperties
    <3>2. DOMAIN r = 1..(committed - from[c]) /\ \A i \in DOMAIN r : r[i] = from[c] + i
      OBVIOUS
    <3>3. from[c] \in Nat
      BY <1>1, EventRange DEF TypeOK
    <3>4. \A i, j \in DOMAIN r : i \in Nat /\ j \in Nat
      BY <3>1
    <3>5. \A i, j \in DOMAIN r : i < j => r[i] # r[j]
      BY <3>2, <3>3, <3>4
    <3> QED
      BY <3>1, <3>5
  <2> HIDE DEF r
  <2>5. /\ Len(r) \in 0..Len(r \o chan[c])
        /\ TwoRuns(r \o chan[c], Len(r)) /\ AllVisited(r \o chan[c], Len(r), c)
    BY <2>2, <2>3, <2>4, RunsReplay
  <2>6. Stream(c)' = r \o chan[c]
    BY <2>1, <2>2, <2>3, ConcatEmptySeq DEF Stream
  <2>7. ASSUME NEW n \in Nat, n = Len(r) PROVE AllVisited(Stream(c), n, c)'
    <3>1. \A i \in (n + 1)..Len(Stream(c)') : Visited(Stream(c)'[i], c)
      BY <2>5, <2>6, <2>7 DEF AllVisited
    <3> QED
      BY <1>1, <3>1 DEF AllVisited, Visited
  <2>8. \E k \in 0..Len(Stream(c)') : TwoRuns(Stream(c)', k) /\ AllVisited(Stream(c), k, c)'
    <3>1. PICK n \in 0..Len(r \o chan[c]) : n = Len(r)
      BY <2>5
    <3>2. n \in Nat
      BY <2>3, <3>1, LenProperties
    <3> QED
      BY <2>5, <2>6, <2>7, <3>1, <3>2
  <2>9. RunsOf(c)'
    BY <1>6, <2>1, <2>8 DEF RunsOf
  <2> QED
    BY <1>2, <1>5, <2>9
<1>8. CASE Write(c)
  <2>1. state[c] = "streaming" /\ UNCHANGED <<state, open>> /\ replay[c] \o chan[c] # <<>>
    BY <1>8 DEF Write
  <2>2. CASE c \notin open
    <3>1. UNCHANGED got
      BY <1>8, <2>2 DEF Write
    <3> QED
      BY <1>2, <1>5, <1>6, <2>1, <2>2, <3>1 DEF RunsOf
  <2>3. CASE c \in open
    <3> DEFINE s == replay[c] \o chan[c]
    <3>1. /\ got[c] \in Seq(Events) /\ replay[c] \in Seq(Events) /\ chan[c] \in Seq(Events)
          /\ s \in Seq(Events) /\ Stream(c) \in Seq(Events)
      BY <1>1, StreamType
    <3>2. got'[c] = Append(got[c], Head(s))
      BY <1>1, <1>8, <2>3 DEF Write, TypeOK
    <3>3. replay'[c] \o chan'[c] = Tail(s)
      <4>1. CASE replay[c] # <<>>
        <5>1. replay'[c] = Tail(replay[c]) /\ chan'[c] = chan[c]
          BY <1>1, <1>8, <4>1 DEF Write, TypeOK
        <5>2. Tail(replay[c] \o chan[c]) = Tail(replay[c]) \o chan[c]
          BY <3>1, <4>1, TailOfConcat
        <5> QED
          BY <5>1, <5>2
      <4>2. CASE replay[c] = <<>>
        <5>1. replay'[c] = <<>> /\ chan'[c] = Tail(chan[c])
          BY <1>1, <1>8, <4>2 DEF Write, TypeOK
        <5>2. s = chan[c]
          BY <3>1, <4>2, ConcatEmptySeq
        <5>3. Tail(chan[c]) \in Seq(Events)
          BY <2>1, <3>1, <5>2, HeadTailProperties
        <5> QED
          BY <5>1, <5>2, <5>3, ConcatEmptySeq
      <4> QED
        BY <4>1, <4>2
    <3>4. /\ Append(got[c], Head(s)) \in Seq(Events) /\ Tail(s) \in Seq(Events)
          /\ Append(got[c], Head(s)) \o Tail(s) = got[c] \o s
      BY <2>1, <3>1, HeadTailProperties, AppendProperties, ConsHead
    <3>5. Stream(c)' = Stream(c)
      BY <3>2, <3>3, <3>4 DEF Stream
    <3>6. PICK k \in 0..Len(Stream(c)) : TwoRuns(Stream(c), k) /\ AllVisited(Stream(c), k, c)
      BY <1>1, <2>1, <2>3 DEF RunsOf
    <3>7. AllVisited(Stream(c), k, c)'
      BY <1>1, <3>5, <3>6 DEF AllVisited, Visited
    <3>8. \E n \in 0..Len(got'[c]) : TwoRuns(got'[c], n)
      <4>1. /\ Append(got[c], Head(s)) \o Tail(s) = Stream(c)
            /\ k \in 0..Len(Append(got[c], Head(s)) \o Tail(s))
            /\ TwoRuns(Append(got[c], Head(s)) \o Tail(s), k)
        BY <3>4, <3>6 DEF Stream
      <4>2. \E n \in 0..Len(Append(got[c], Head(s))) : TwoRuns(Append(got[c], Head(s)), n)
        BY <3>4, <4>1, RunsPrefix
      <4> QED
        BY <3>2, <4>2
    <3>9. \E n \in 0..Len(Stream(c)') : TwoRuns(Stream(c)', n) /\ AllVisited(Stream(c), n, c)'
      BY <3>5, <3>6, <3>7
    <3>10. RunsOf(c)'
      BY <2>1, <3>8, <3>9 DEF RunsOf
    <3> QED
      BY <1>2, <1>5, <3>10
  <2> QED
    BY <2>2, <2>3
<1>9. CASE End(c) \/ ReplayFails(c)
  <2>1. state'[c] = "ended" /\ got' = got
    BY <1>1, <1>9 DEF End, ReplayFails, TypeOK
  <2> QED
    BY <1>2, <1>5, <1>6, <2>1 DEF RunsOf
<1>10. CASE Disconnect(c)
  <2>1. UNCHANGED <<state, got, replay, chan>>
    BY <1>10 DEF Disconnect
  <2>2. Unknown(c) => Unknown(c)'
    BY <1>1, <2>1 DEF Unknown
  <2>3. RunsOf(c)'
    BY <1>1, <1>4, <2>1, <2>2, RunsKept
  <2> QED
    BY <1>2, <1>5, <2>3
<1> QED
  BY <1>7, <1>8, <1>9, <1>10 DEF StreamStep

LEMMA ConnectRuns ==
  ASSUME RunsInv, NEW cl \in Clients, NEW c \in Conns, Connect(cl, c)
  PROVE  Waiting' /\ \A d \in Conns : RunsOf(d)'
<1>1. /\ TypeOK /\ Waiting /\ \A d \in Conns : RunsOf(d)
      /\ UNCHANGED <<pub, left, at, replay, chan, got>>
      /\ state[c] = "new" /\ state' = [state EXCEPT ![c] = "subscribed"]
      /\ subs' = subs \cup {c} /\ open' = open \cup {c}
  BY DEF RunsInv, DeliveryInv, Connect, posts
<1>2. Waiting'
  BY <1>1 DEF Waiting
<1>3. ASSUME NEW d \in Conns \ {c} PROVE RunsOf(d)'
  <2>1. state'[d] = state[d] /\ (d \in open' => d \in open)
    BY <1>1 DEF TypeOK
  <2>2. Unknown(d) => Unknown(d)'
    BY <1>1 DEF Unknown
  <2>3. \A f \in Events : Visited(f, d) => Visited(f, d)'
    BY <1>1 DEF Visited
  <2> QED
    BY <1>1, <2>1, <2>2, <2>3, RunsKept
<1>4. RunsOf(c)'
  <2>1. state'[c] = "subscribed"
    BY <1>1 DEF TypeOK
  <2>2. got'[c] = <<>> /\ replay'[c] = <<>> /\ chan'[c] = <<>>
    BY <1>1 DEF RunsOf, Unknown
  <2>3. TwoRuns(chan'[c], 0)
    BY <2>2, EmptyRuns
  <2>4. AllVisited(chan[c], 0, c)'
    BY <2>2, EmptySeq DEF AllVisited
  <2>5. \E k \in 0..Len(got'[c]) : TwoRuns(got'[c], k)
    <3>1. 0 \in 0..Len(got'[c]) /\ TwoRuns(got'[c], 0)
      BY <2>2, EmptyRuns, EmptySeq
    <3> QED
      BY <3>1
  <2> QED
    BY <2>1, <2>2, <2>3, <2>4, <2>5 DEF RunsOf
<1> QED
  BY <1>2, <1>3, <1>4

LEMMA RunsStep == ASSUME RunsInv, [Next]_vars PROVE RunsInv'
<1>1. DeliveryInv'
  BY DeliveryStep DEF RunsInv
<1>2. CASE UNCHANGED vars
  <2>1. Waiting'
    BY <1>2 DEF vars, Waiting, RunsInv
  <2>2. \A c \in Conns : RunsOf(c)'
    <3>1. \A c \in Conns : Unknown(c) => Unknown(c)'
      BY <1>2 DEF vars, Unknown
    <3>2. \A c \in Conns, f \in Events : Visited(f, c) => Visited(f, c)'
      BY <1>2 DEF vars, Visited
    <3> QED
      BY <1>2, <3>1, <3>2, RunsKept DEF vars, RunsInv, DeliveryInv
  <2> QED
    BY <1>1, <2>1, <2>2 DEF RunsInv
<1>3. Next => Waiting' /\ \A c \in Conns : RunsOf(c)'
  BY SendRuns, PostRuns, StreamRuns, ConnectRuns DEF Next
<1> QED
  BY <1>1, <1>2, <1>3 DEF RunsInv

LEMMA PairCardinality ==
  ASSUME NEW a, NEW b, NEW T, T \subseteq {a, b}
  PROVE  IsFiniteSet(T) /\ Cardinality(T) <= 2
<1>1. IsFiniteSet({a}) /\ Cardinality({a}) = 1
  BY FS_Singleton
<1>2. IsFiniteSet({a} \cup {b}) /\ Cardinality({a} \cup {b}) \in {1, 2}
  <2>1. /\ IsFiniteSet({a} \cup {b})
        /\ Cardinality({a} \cup {b}) = Cardinality({a}) \/ Cardinality({a} \cup {b}) = Cardinality({a}) + 1
    BY <1>1, FS_AddElement
  <2> QED
    BY <1>1, <2>1
<1>3. T \subseteq {a} \cup {b}
  OBVIOUS
<1>4. IsFiniteSet(T) /\ Cardinality(T) <= Cardinality({a} \cup {b}) /\ Cardinality(T) \in Nat
  BY <1>2, <1>3, FS_Subset, FS_CardinalityType
<1> QED
  BY <1>2, <1>4

LEMMA TwoRunsTwice ==
  ASSUME NEW s \in Seq(Events), NEW k \in 0..Len(s), TwoRuns(s, k), NEW e \in Events
  PROVE  Cardinality({i \in 1..Len(s) : s[i] = e}) <= 2
<1> DEFINE T == {i \in 1..Len(s) : s[i] = e}
<1>1. Len(s) \in Nat /\ k \in Nat
  BY LenProperties
<1>2. \A i, j \in T \cap (1..k) : i = j
  <2>1. \A i, j \in 1..k : i < j \/ j < i \/ i = j
    BY <1>1
  <2> QED
    BY <2>1 DEF TwoRuns
<1>3. \A i, j \in T \cap ((k + 1)..Len(s)) : i = j
  <2>1. \A i, j \in (k + 1)..Len(s) : i < j \/ j < i \/ i = j
    BY <1>1
  <2> QED
    BY <2>1 DEF TwoRuns
<1>4. \A i \in T : i \in 1..k \/ i \in (k + 1)..Len(s)
  BY <1>1
<1> HIDE DEF T
<1>5. \E a, b : T \subseteq {a, b}
  <2>1. PICK a : a \in T \cap (1..k) \/ T \cap (1..k) = {}
    OBVIOUS
  <2>2. PICK b : b \in T \cap ((k + 1)..Len(s)) \/ T \cap ((k + 1)..Len(s)) = {}
    OBVIOUS
  <2>3. T \subseteq {a, b}
    BY <1>2, <1>3, <1>4, <2>1, <2>2
  <2> QED
    BY <2>3
<1>6. Cardinality(T) <= 2
  BY <1>5, PairCardinality
<1> QED
  BY <1>6 DEF T

(* A connection is given an event once from the replay and once from its    *)
(* channel, and no more often (server.go:189).                              *)
THEOREM AtMostTwice == Spec => []WrittenAtMostTwice
<1>1. Init => RunsInv
  BY InitRuns
<1>2. RunsInv /\ [Next]_vars => RunsInv'
  BY RunsStep
<1>3. RunsInv => WrittenAtMostTwice
  <2> SUFFICES ASSUME RunsInv, NEW c \in Conns, NEW e \in Events
               PROVE  Cardinality({i \in 1..Len(got[c]) : got[c][i] = e}) <= 2
    BY DEF WrittenAtMostTwice
  <2>1. PICK k \in 0..Len(got[c]) : TwoRuns(got[c], k)
    BY DEF RunsInv, RunsOf
  <2>2. got[c] \in Seq(Events)
    BY DEF RunsInv, DeliveryInv, TypeOK
  <2> QED
    BY <2>1, <2>2, TwoRunsTwice
<1> QED
  BY <1>1, <1>2, <1>3, PTL DEF Spec
=============================================================================
