-------------------------- MODULE EventFanoutProofs --------------------------
(***************************************************************************)
(* What EventFanout's runs check, for any number of messages, rows and     *)
(* subscriptions and any ring: subscribers see the published order without *)
(* a hole, every event is accounted for, and a webhook is never posted an  *)
(* event twice or after its deletion.                                      *)
(***************************************************************************)
EXTENDS EventFanout, TLAPS

-----------------------------------------------------------------------------
(* Sequences of event numbers.                                             *)

\* Events are numbered from 1.
LEMMA EventsAreNat == \A e \in Events : e \in Nat
BY FanoutConstants DEF Events

\* The entries of a sequence of events are events.
LEMMA EventsInSeq ==
  ASSUME NEW q \in Seq(Events)
  PROVE  \A i \in 1 .. Len(q) : q[i] \in Events /\ q[i] \in Nat
<1>1. \A i \in 1 .. Len(q) : q[i] \in Events
  OBVIOUS
<1> QED
  BY <1>1, EventsAreNat

\* What Redis puts last on the connection, or tx.send in the ring, comes after
\* all the rest: the order stays, and one event is added.
LEMMA AppendInOrder ==
  ASSUME NEW q \in Seq(Events), NEW e \in Events, Increasing(q),
         \A i \in 1 .. Len(q) : q[i] < e
  PROVE  /\ Append(q, e) \in Seq(Events)
         /\ Len(Append(q, e)) = Len(q) + 1
         /\ \A i \in 1 .. Len(q) : Append(q, e)[i] = q[i]
         /\ Append(q, e)[Len(q) + 1] = e
         /\ Increasing(Append(q, e))
         /\ Range(Append(q, e)) = Range(q) \cup {e}
<1> DEFINE a == Append(q, e)
<1>1. a \in Seq(Events) /\ Len(a) = Len(q) + 1 /\ a[Len(q) + 1] = e
  OBVIOUS
<1>2. \A i \in 1 .. Len(q) : a[i] = q[i]
  OBVIOUS
<1>3. Len(q) \in Nat /\ DOMAIN q = 1 .. Len(q) /\ DOMAIN a = 1 .. Len(q) + 1
  BY <1>1
<1>4. Increasing(a)
  <2> SUFFICES ASSUME NEW i \in 1 .. Len(q) + 1, NEW j \in 1 .. Len(q) + 1, i < j
               PROVE  a[i] < a[j]
    BY <1>1 DEF Increasing
  <2>1. i \in 1 .. Len(q) /\ a[i] = q[i]
    BY <1>2, <1>3
  <2>2. CASE j = Len(q) + 1
    BY <2>1, <2>2, <1>1
  <2>3. CASE j \in 1 .. Len(q)
    BY <2>1, <2>3, <1>2 DEF Increasing
  <2> QED
    BY <2>2, <2>3, <1>3
<1>5. Range(a) = Range(q) \cup {e}
  <2>1. \A x : x \in Range(a) => x \in Range(q) \cup {e}
    BY <1>1, <1>2, <1>3 DEF Range
  <2>2. \A x : x \in Range(q) => x \in Range(a)
    BY <1>2, <1>3 DEF Range
  <2>3. e \in Range(a)
    BY <1>1, <1>3 DEF Range
  <2> QED
    BY <2>1, <2>2, <2>3
<1> HIDE DEF a
<1> QED
  BY <1>1, <1>2, <1>4, <1>5 DEF a

\* Taking the first event from the connection leaves the later ones, in order.
LEMMA TailInOrder ==
  ASSUME NEW q \in Seq(Events), q # <<>>, Increasing(q)
  PROVE  /\ Head(q) \in Events /\ Tail(q) \in Seq(Events)
         /\ Head(q) = q[1] /\ 1 \in 1 .. Len(q)
         /\ \A i \in 1 .. Len(Tail(q)) : i + 1 \in 1 .. Len(q) /\ Tail(q)[i] = q[i + 1]
         /\ \A i \in 1 .. Len(Tail(q)) : Head(q) < Tail(q)[i]
         /\ Increasing(Tail(q))
         /\ Range(Tail(q)) = Range(q) \ {Head(q)}
         /\ Head(q) \in Range(q)
<1> DEFINE t == Tail(q)
<1>1. /\ Len(q) \in Nat /\ Len(q) > 0 /\ DOMAIN q = 1 .. Len(q)
      /\ t \in Seq(Events) /\ Len(t) = Len(q) - 1
      /\ Head(q) = q[1] /\ Head(q) \in Events
  OBVIOUS
<1>2. \A i \in 1 .. Len(t) : i + 1 \in 1 .. Len(q) /\ t[i] = q[i + 1]
  BY <1>1
<1>3. DOMAIN t = 1 .. Len(t)
  BY <1>1
<1>4. \A i \in 1 .. Len(t) : Head(q) < t[i]
  BY <1>1, <1>2 DEF Increasing
<1>5. Increasing(t)
  <2> SUFFICES ASSUME NEW i \in 1 .. Len(t), NEW j \in 1 .. Len(t), i < j
               PROVE  t[i] < t[j]
    BY DEF Increasing
  <2>1. i + 1 \in 1 .. Len(q) /\ j + 1 \in 1 .. Len(q) /\ i + 1 < j + 1
    BY <1>2
  <2> QED
    BY <2>1, <1>2 DEF Increasing
<1>6. Head(q) \in Range(q)
  BY <1>1 DEF Range
<1>7. \A x : x \in Range(t) => x \in Range(q) \ {Head(q)}
  <2> SUFFICES ASSUME NEW i \in 1 .. Len(t)
               PROVE  t[i] \in Range(q) /\ t[i] # Head(q)
    BY <1>3 DEF Range
  <2>1. t[i] \in Range(q)
    BY <1>1, <1>2 DEF Range
  <2>2. t[i] \in Events
    BY <1>1, <1>3
  <2> QED
    BY <2>1, <2>2, <1>4, <1>1 DEF Events
<1>8. \A x : x \in Range(q) \ {Head(q)} => x \in Range(t)
  <2> SUFFICES ASSUME NEW i \in 1 .. Len(q), q[i] # Head(q)
               PROVE  q[i] \in Range(t)
    BY <1>1 DEF Range
  <2>1. i - 1 \in 1 .. Len(t)
    BY <1>1
  <2>2. t[i - 1] = q[i]
    BY <1>2, <2>1
  <2> QED
    BY <2>1, <2>2, <1>3, Zenon DEF Range
<1> HIDE DEF t
<1> QED
  BY <1>1, <1>2, <1>4, <1>5, <1>6, <1>7, <1>8 DEF t

\* A listener without a connection holds nothing.
LEMMA EmptyInOrder ==
  <<>> \in Seq(Events) /\ Len(<<>>) = 0 /\ Increasing(<<>>) /\ Range(<<>>) = {}
BY DEF Increasing, Range

-----------------------------------------------------------------------------
(* Types.                                                                  *)

\* The state a process starts in has its types.
LEMMA TypeInit == Init => TypeOK
<1> SUFFICES ASSUME Init PROVE TypeOK
  OBVIOUS
<1>1. listener \in ListenerType /\ sent \in Seq(Events) /\ Len(sent) = 0
  BY FanoutConstants, EmptyInOrder DEF Init, Listener, ListenerType
<1>2. /\ subs \in [Subs -> ReceiverType]
      /\ \A s \in Subs : subs[s].from = 1 /\ subs[s].next = 1
  BY EmptyInOrder DEF Init, Receiver, ReceiverType
<1>3. /\ dispatcher \in DispatcherType /\ dispatcher.next = 1
      /\ dispatcher.event = NULL /\ dispatcher.at = "select"
  BY DEF Init, DispatcherType
<1>4. WithinSent
  BY <1>1, <1>2, <1>3 DEF WithinSent
<1>5. /\ published \in 0 .. Last /\ faults \in 0 .. MaxFaults
      /\ posted \in [Deliveries -> Nat]
  BY FanoutConstants DEF Init, Deliveries
<1> QED
  BY <1>1, <1>2, <1>3, <1>4, <1>5, Zenon DEF Init, TypeOK

\* A failure is counted, up to the bound.
LEMMA FaultType == ASSUME TypeOK, Fault PROVE faults' \in 0 .. MaxFaults
BY FanoutConstants DEF TypeOK, Fault

\* The indexer's publications keep the types.
LEMMA PublishType == ASSUME TypeOK, Publish \/ PublishFails PROVE TypeOK'
<1>1. published' \in 0 .. Last /\ published + 1 \in Events
  BY FanoutConstants DEF TypeOK, Publish, PublishFails, Events
<1>2. CASE Publish
  <2>1. listener' \in ListenerType
    <3>1. listener \in ListenerType /\ listener.wire \in Seq(Events)
      BY DEF TypeOK, ListenerType
    <3>2. Append(listener.wire, published + 1) \in Seq(Events)
      BY <1>1, <3>1
    <3>3. \/ listener' = listener
          \/ listener' = [listener EXCEPT !.wire = Append(listener.wire, published + 1)]
      BY <1>2, Zenon DEF Publish
    <3> QED
      BY <3>1, <3>2, <3>3, Zenon DEF ListenerType
  <2>2. missed' \in [Events -> {NULL} \cup Reasons]
    BY <1>2 DEF Publish, Lose, TypeOK, Reasons
  <2> QED
    BY <1>1, <1>2, <2>1, <2>2, Zenon DEF Publish, TypeOK, WithinSent, consumers
<1>3. CASE PublishFails
  <2>1. missed' \in [Events -> {NULL} \cup Reasons]
    BY <1>3 DEF PublishFails, Lose, TypeOK, Reasons
  <2> QED
    BY <1>1, <1>3, <2>1, FaultType, Zenon DEF PublishFails, TypeOK, WithinSent, consumers
<1> QED
  BY <1>2, <1>3

\* The listener's steps keep the types; a longer channel bounds its receivers
\* as before.
LEMMA ListenType == ASSUME TypeOK, Listen PROVE TypeOK'
<1>1. listener' \in ListenerType
  <2>0. /\ listener \in ListenerType /\ listener.wire \in Seq(Events)
        /\ listener.backoff \in 1 .. MaxBackoff /\ listener.chans \in SUBSET Channels
    BY DEF TypeOK, ListenerType
  <2>1. CASE Connect \/ ConnectFails \/ Paused
    BY <2>0, <2>1 DEF Connect, ConnectFails, Paused, ListenerType
  <2>2. CASE BackedOff
    <3>1. NextBackoff(listener.backoff) \in 1 .. MaxBackoff
      BY <2>0, FanoutConstants DEF NextBackoff
    <3> QED
      BY <2>2, <3>1, EmptyInOrder DEF BackedOff, Listener, ListenerType
  <2>3. CASE SubscribeBlocks
    <3>1. {"cellora:blocks"} \in SUBSET Channels
      BY DEF Channels
    <3> QED
      BY <2>0, <2>3, <3>1, Zenon DEF SubscribeBlocks, ListenerType
  <2>4. CASE SubscribeCells
    <3>1. listener.chans \cup {"cellora:cells"} \in SUBSET Channels /\ 1 \in 1 .. MaxBackoff
      BY <2>0, FanoutConstants DEF Channels
    <3> QED
      BY <2>0, <2>4, <3>1, Zenon DEF SubscribeCells, ListenerType
  <2>5. CASE SubscribeFails \/ ConnectionLost \/ StopListener
    <3>1. \E at \in {"pause", "connect", "done"} :
            listener' = Listener(at, {}, <<>>, listener.backoff)
      BY <2>5, Zenon DEF SubscribeFails, ConnectionLost, StopListener
    <3> QED
      BY <2>0, <3>1, EmptyInOrder DEF Listener, ListenerType
  <2>6. CASE Forward
    <3>1. Tail(listener.wire) \in Seq(Events)
      BY <2>0, <2>6 DEF Forward
    <3> QED
      BY <2>0, <2>6, <3>1, Zenon DEF Forward, ListenerType
  <2> QED
    BY <2>1, <2>2, <2>3, <2>4, <2>5, <2>6, Zenon DEF Listen
<1>2. missed' \in [Events -> {NULL} \cup Reasons]
  <2>1. CASE SubscribeFails \/ ConnectionLost \/ StopListener
    BY <2>1 DEF SubscribeFails, ConnectionLost, StopListener, Lose, TypeOK, Reasons
  <2>2. CASE UNCHANGED missed
    BY <2>2 DEF TypeOK
  <2> QED
    BY <2>1, <2>2, Zenon
       DEF Listen, Connect, ConnectFails, BackedOff, SubscribeBlocks, SubscribeCells, Paused, Forward
<1>3. faults' \in 0 .. MaxFaults
  BY FaultType, Zenon
     DEF TypeOK, Listen, Connect, ConnectFails, BackedOff, SubscribeBlocks, SubscribeCells,
         SubscribeFails, Paused, Forward, ConnectionLost, StopListener
<1>4. UNCHANGED <<published, consumers, cancelled>>
  BY Zenon
     DEF Listen, Connect, ConnectFails, BackedOff, SubscribeBlocks, SubscribeCells,
         SubscribeFails, Paused, Forward, ConnectionLost, StopListener
<1>5. sent' \in Seq(Events) /\ WithinSent'
  <2>1. CASE Forward
    <3>1. sent' \in Seq(Events) /\ Len(sent') = Len(sent) + 1
      BY <2>1 DEF Forward, TypeOK, ListenerType
    <3> QED
      BY <3>1, <1>4 DEF TypeOK, WithinSent, consumers, ReceiverType, DispatcherType
  <2>2. CASE UNCHANGED sent
    BY <2>2, <1>4, Zenon DEF TypeOK, WithinSent, consumers
  <2> QED
    BY <2>1, <2>2, Zenon
       DEF Listen, Connect, ConnectFails, BackedOff, SubscribeBlocks, SubscribeCells,
           SubscribeFails, Paused, ConnectionLost, StopListener
<1> QED
  BY <1>1, <1>2, <1>3, <1>4, <1>5, Zenon DEF TypeOK, consumers

\* The steps of a subscription keep the types.
LEMMA StreamType ==
  ASSUME TypeOK, NEW s \in Subs,
         OpenSubscription(s) \/ YieldNext(s) \/ EndLagged(s) \/ CloseSubscription(s)
  PROVE  TypeOK'
<1>0. /\ subs \in [Subs -> ReceiverType] /\ subs[s] \in ReceiverType
      /\ subs[s].next \in Nat \ {0} /\ subs[s].from \in Nat \ {0}
      /\ subs[s].got \in Seq(Events) /\ sent \in Seq(Events) /\ Len(sent) \in Nat
      /\ subs[s].from <= subs[s].next /\ subs[s].next <= Len(sent) + 1
  BY DEF TypeOK, ReceiverType, WithinSent
<1>1. \E r \in ReceiverType : /\ subs' = [subs EXCEPT ![s] = r]
                             /\ r.from <= r.next /\ r.next <= Len(sent) + 1
  <2>1. CASE OpenSubscription(s)
    <3>1. subs' = [subs EXCEPT ![s] = Receiver("open", Len(sent) + 1, Len(sent) + 1, <<>>)]
      BY <2>1, Zenon DEF OpenSubscription
    <3>2. Len(sent) + 1 \in Nat \ {0}
      BY <1>0
    <3> DEFINE r == Receiver("open", Len(sent) + 1, Len(sent) + 1, <<>>)
    <3>3. r \in ReceiverType /\ r.from = Len(sent) + 1 /\ r.next = Len(sent) + 1
      BY <3>2, EmptyInOrder DEF Receiver, ReceiverType
    <3> HIDE DEF r
    <3>4. r.from <= r.next /\ r.next <= Len(sent) + 1
      BY <1>0, <3>3
    <3> QED
      BY <3>1, <3>3, <3>4, Zenon DEF r
  <2>2. CASE YieldNext(s)
    <3> DEFINE e == sent[subs[s].next]
               got == IF Matches(s, e) THEN Append(subs[s].got, e) ELSE subs[s].got
    <3>1. subs[s].next <= Len(sent)
      BY <2>2 DEF YieldNext, Waiting
    <3>2. e \in Events
      BY <1>0, <3>1
    <3>3. got \in Seq(Events)
      BY <1>0, <3>2
    <3>4. subs' = [subs EXCEPT ![s] = Receiver("open", subs[s].next + 1, subs[s].from, got)]
      BY <2>2, Zenon DEF YieldNext
    <3> HIDE DEF got
    <3> QED
      <4> DEFINE r == Receiver("open", subs[s].next + 1, subs[s].from, got)
      <4>1. subs[s].next + 1 \in Nat \ {0}
        BY <1>0
      <4>2. r \in ReceiverType /\ r.from = subs[s].from /\ r.next = subs[s].next + 1
        BY <1>0, <3>3, <4>1 DEF Receiver, ReceiverType
      <4> HIDE DEF r
      <4>3. r.from <= r.next /\ r.next <= Len(sent) + 1
        BY <1>0, <3>1, <4>2
      <4> QED
        BY <3>4, <4>2, <4>3, Zenon DEF r
  <2>3. CASE EndLagged(s)
    <3>1. [subs[s] EXCEPT !.at = "ended"] \in ReceiverType
      BY <1>0, Zenon DEF ReceiverType
    <3>2. subs' = [subs EXCEPT ![s] = [subs[s] EXCEPT !.at = "ended"]]
      BY <2>3, <1>0 DEF EndLagged
    <3> QED
      BY <1>0, <3>1, <3>2, Zenon DEF ReceiverType
  <2>4. CASE CloseSubscription(s)
    <3>1. subs' = [subs EXCEPT ![s] = Receiver("closed", 1, 1, <<>>)]
      BY <2>4, Zenon DEF CloseSubscription
    <3> DEFINE r == Receiver("closed", 1, 1, <<>>)
    <3>2. 1 \in Nat \ {0}
      OBVIOUS
    <3>3. r \in ReceiverType /\ r.from = 1 /\ r.next = 1
      BY <3>2, EmptyInOrder DEF Receiver, ReceiverType
    <3> HIDE DEF r
    <3>4. r.from <= r.next /\ r.next <= Len(sent) + 1
      BY <1>0, <3>3
    <3> QED
      BY <3>1, <3>3, <3>4, Zenon DEF r
  <2> QED
    BY <2>1, <2>2, <2>3, <2>4
<1>2. UNCHANGED <<published, missed, listener, sent, dispatcher, hooks, silentFrom,
                  flying, posted, cancelled, faults>>
  BY Zenon DEF OpenSubscription, YieldNext, EndLagged, CloseSubscription
<1>3. subs' \in [Subs -> ReceiverType]
  BY <1>0, <1>1
<1>4. WithinSent'
  BY <1>0, <1>1, <1>2 DEF WithinSent, TypeOK
<1> QED
  BY <1>2, <1>3, <1>4, Zenon DEF TypeOK

\* The rows' and the deliveries' steps keep the types.
LEMMA HookType ==
  ASSUME TypeOK
  PROVE  /\ \A w \in Hooks : CreateWebhook(w) \/ DeleteWebhook(w) => TypeOK'
         /\ \A d \in flying : Deliver(d) \/ DeliverUnanswered(d) \/ DeliverFails(d) => TypeOK'
<1>1. ASSUME NEW w \in Hooks, CreateWebhook(w) \/ DeleteWebhook(w) PROVE TypeOK'
  <2>1. dispatcher.next - 1 \in Nat
    BY DEF TypeOK, DispatcherType
  <2>2. hooks' \in [Hooks -> {"absent", "live", "deleted"}]
    BY <1>1 DEF TypeOK, CreateWebhook, DeleteWebhook
  <2>3. silentFrom' \in [Hooks -> Nat \cup {NULL}]
    BY <1>1, <2>1 DEF TypeOK, CreateWebhook, DeleteWebhook
  <2> QED
    BY <1>1, <2>2, <2>3, Zenon DEF TypeOK, CreateWebhook, DeleteWebhook, WithinSent
<1>2. ASSUME NEW d \in flying, Deliver(d) \/ DeliverUnanswered(d) \/ DeliverFails(d)
      PROVE  TypeOK'
  <2>1. flying' \subseteq Deliveries /\ posted' \in [Deliveries -> Nat]
    BY <1>2 DEF TypeOK, Deliver, DeliverUnanswered, DeliverFails
  <2>2. faults' \in 0 .. MaxFaults
    BY <1>2, FaultType, Zenon DEF TypeOK, Deliver, DeliverUnanswered, DeliverFails
  <2> QED
    BY <1>2, <2>1, <2>2, Zenon
       DEF TypeOK, Deliver, DeliverUnanswered, DeliverFails, WithinSent, hookVars
<1> QED
  BY <1>1, <1>2, Zenon

\* The dispatcher's steps keep the types.
LEMMA DispatchType == ASSUME TypeOK, Dispatch PROVE TypeOK'
<1>0. /\ dispatcher \in DispatcherType /\ sent \in Seq(Events) /\ Len(sent) \in Nat
      /\ dispatcher.next \in Nat \ {0} /\ dispatcher.next <= Len(sent) + 1
      /\ dispatcher.loaded \in SUBSET Events /\ dispatcher.event \in Events \cup {NULL}
      /\ dispatcher.event # NULL <=> dispatcher.at = "load"
  BY DEF TypeOK, DispatcherType, WithinSent
<1>1. /\ dispatcher' \in DispatcherType /\ dispatcher'.next <= Len(sent) + 1
      /\ dispatcher'.event # NULL <=> dispatcher'.at = "load"
  <2>1. CASE ReceiveEvent
    <3>1. dispatcher.next <= Len(sent)
      BY <2>1 DEF ReceiveEvent, Waiting
    <3>2. sent[dispatcher.next] \in Events
      BY <1>0, <3>1
    <3> QED
      <4>1. dispatcher' = [dispatcher EXCEPT !.at = "load", !.next = dispatcher.next + 1,
                                             !.event = sent[dispatcher.next]]
        BY <2>1, Zenon DEF ReceiveEvent
      <4>2. dispatcher' \in DispatcherType
        <5>1. dispatcher.next + 1 \in Nat \ {0} /\ sent[dispatcher.next] \in Events \cup {NULL}
          BY <1>0, <3>2
        <5> QED
          BY <1>0, <4>1, <5>1, Zenon DEF DispatcherType
      <4>3. /\ dispatcher'.at = "load" /\ dispatcher'.next = dispatcher.next + 1
            /\ dispatcher'.event = sent[dispatcher.next]
        BY <1>0, <4>1 DEF DispatcherType
      <4> QED
        BY <1>0, <3>1, <3>2, <4>2, <4>3, FanoutConstants DEF Events
  <2>2. CASE SkipLagged
    <3>1. Oldest \in Nat \ {0} /\ Oldest <= Len(sent) + 1
      BY <1>0, FanoutConstants DEF Oldest
    <3> QED
      BY <1>0, <2>2, <3>1 DEF SkipLagged, SkipTo, DispatcherType
  <2>3. CASE DispatchWebhooks \/ LoadFails
    <3>1. dispatcher.at = "load"
      BY <2>3, Zenon DEF DispatchWebhooks, LoadFails
    <3>2. dispatcher.loaded \cup {dispatcher.event} \in SUBSET Events
      BY <1>0, <3>1
    <3>3. \E l \in SUBSET Events :
            dispatcher' = [dispatcher EXCEPT !.at = "select", !.event = NULL, !.loaded = l]
      <4>1. CASE DispatchWebhooks
        BY <3>2, <4>1, Zenon DEF DispatchWebhooks
      <4>2. CASE LoadFails
        BY <1>0, <4>2, Zenon DEF LoadFails, DispatcherType
      <4> QED
        BY <2>3, <4>1, <4>2, Zenon
    <3>4. PICK l \in SUBSET Events :
            dispatcher' = [dispatcher EXCEPT !.at = "select", !.event = NULL, !.loaded = l]
      BY <3>3, Zenon
    <3>5. dispatcher \in DispatcherType
      BY <1>0, Zenon
    <3>6. /\ dispatcher'.at = "select" /\ dispatcher'.event = NULL
          /\ dispatcher'.next = dispatcher.next
      BY <3>4, <3>5 DEF DispatcherType
    <3>7. dispatcher' \in DispatcherType
      BY <3>4, <3>5, Zenon DEF DispatcherType
    <3> QED
      BY <1>0, <3>6, <3>7, Zenon
  <2>4. CASE BeginDrain \/ Drain
    <3>1. PICK at \in {"drain", "done"} : dispatcher' = [dispatcher EXCEPT !.at = at]
      BY <2>4, Zenon DEF BeginDrain, Drain
    <3>2. dispatcher \in DispatcherType /\ dispatcher.event = NULL
      BY <1>0, <2>4 DEF BeginDrain, Drain
    <3>3. /\ dispatcher'.at = at /\ dispatcher'.event = NULL
          /\ dispatcher'.next = dispatcher.next
      BY <3>1, <3>2 DEF DispatcherType
    <3>4. dispatcher' \in DispatcherType
      BY <3>1, <3>2 DEF DispatcherType
    <3> QED
      BY <1>0, <3>3, <3>4
  <2> QED
    BY <2>1, <2>2, <2>3, <2>4, Zenon DEF Dispatch
<1>2. missed' \in [Events -> {NULL} \cup Reasons]
  <2>1. CASE SkipLagged \/ LoadFails
    BY <2>1 DEF SkipLagged, LoadFails, Lose, TypeOK, Reasons
  <2>2. CASE UNCHANGED missed
    BY <2>2 DEF TypeOK
  <2> QED
    BY <2>1, <2>2, Zenon DEF Dispatch, ReceiveEvent, DispatchWebhooks, BeginDrain, Drain
<1>3. faults' \in 0 .. MaxFaults
  BY FaultType, Zenon
     DEF TypeOK, Dispatch, ReceiveEvent, SkipLagged, DispatchWebhooks, LoadFails, BeginDrain, Drain
<1>4. UNCHANGED <<published, listener, sent, subs, hooks, silentFrom, posted, cancelled>>
  BY Zenon
     DEF Dispatch, ReceiveEvent, SkipLagged, DispatchWebhooks, LoadFails, BeginDrain, Drain, hookVars
<1>5. flying' \subseteq Deliveries
  <2>1. CASE DispatchWebhooks
    <3>1. dispatcher.event \in Events
      BY <1>0, <2>1 DEF DispatchWebhooks
    <3> QED
      BY <2>1, <3>1 DEF DispatchWebhooks, LoadWebhooks, Deliveries, TypeOK
  <2>2. CASE UNCHANGED flying
    BY <2>2 DEF TypeOK
  <2> QED
    BY <2>1, <2>2, Zenon DEF Dispatch, ReceiveEvent, SkipLagged, LoadFails, BeginDrain, Drain
<1>6. WithinSent'
  BY <1>1, <1>4 DEF WithinSent, TypeOK
<1> QED
  BY <1>1, <1>2, <1>3, <1>4, <1>5, <1>6, Zenon DEF TypeOK

\* Every step keeps the types.
LEMMA TypeStep == TypeOK /\ [Next]_vars => TypeOK'
<1> SUFFICES ASSUME TypeOK, [Next]_vars PROVE TypeOK'
  OBVIOUS
<1>1. CASE Cancel \/ Finished \/ UNCHANGED vars
  <2>1. /\ UNCHANGED <<published, faults, missed, listener, sent, subs, dispatcher,
                       hooks, silentFrom, flying, posted>>
        /\ cancelled' \in BOOLEAN
    BY <1>1, Zenon DEF TypeOK, Cancel, Finished, vars, consumers
  <2> QED
    BY <2>1, Zenon DEF TypeOK, WithinSent
<1> QED
  BY <1>1, PublishType, ListenType, DispatchType, StreamType, HookType, Zenon DEF Next

-----------------------------------------------------------------------------
(* The way of an event: from PUBLISH to the connection, from there to the  *)
(* ring, from the ring to the dispatcher.                                  *)

wire == listener.wire

\* Event published + 1 is published, and is on the connection or lost.
Published ==
  /\ published' = published + 1 /\ published + 1 \in Events
  /\ UNCHANGED <<sent, dispatcher>>
  /\ \/ wire' = Append(wire, published + 1) /\ UNCHANGED missed
     \/ UNCHANGED wire /\ \E why \in Reasons : Lose({published + 1}, why)

\* The first event on the connection goes to the ring.
Forwarded ==
  /\ wire # <<>> /\ wire' = Tail(wire) /\ sent' = Append(sent, Head(wire))
  /\ UNCHANGED <<published, missed, dispatcher>>

\* The connection is gone, and what was on it lost.
Dropped ==
  /\ wire' = <<>>
  /\ \E why \in Reasons : Lose(Range(wire), why)
  /\ UNCHANGED <<published, sent, dispatcher>>

\* No event is published, forwarded or dropped.
Standing == UNCHANGED <<published, sent, wire>>

\* run_event_listener subscribes on a fresh connection and drops it whole.
LEMMA OfflineStep == ASSUME TypeOK, Offline, [Next]_vars PROVE Offline'
<1>0. listener \in ListenerType
  BY DEF TypeOK
<1>1. CASE Publish
  <2>1. CASE UNCHANGED listener
    BY <2>1, Zenon DEF Offline
  <2>2. CASE /\ Message[published + 1].channel \in listener.chans
             /\ listener' = [listener EXCEPT !.wire = Append(@, published + 1)]
    BY <1>0, <2>2 DEF Offline, ListenerType
  <2> QED
    BY <1>1, <2>1, <2>2, Zenon DEF Publish
<1>2. CASE Listen
  <2>1. CASE Connect \/ ConnectFails \/ Paused
    BY <1>0, <2>1 DEF Offline, ListenerType, Connect, ConnectFails, Paused
  <2>2. CASE SubscribeBlocks \/ SubscribeCells
    BY <1>0, <2>2, Zenon DEF Offline, ListenerType, SubscribeBlocks, SubscribeCells
  <2>3. CASE BackedOff \/ SubscribeFails \/ ConnectionLost \/ StopListener
    <3>1. \E at, b : listener' = Listener(at, {}, <<>>, b)
      BY <2>3, Zenon DEF BackedOff, SubscribeFails, ConnectionLost, StopListener
    <3> QED
      BY <3>1 DEF Offline, Listener
  <2>4. CASE Forward
    BY <1>0, <2>4 DEF Offline, ListenerType, Forward
  <2> QED
    BY <1>2, <2>1, <2>2, <2>3, <2>4, Zenon DEF Listen
<1>3. CASE UNCHANGED listener
  BY <1>3, Zenon DEF Offline
<1> QED
  BY <1>1, <1>2, <1>3, Zenon
     DEF Next, PublishFails, Dispatch, ReceiveEvent, SkipLagged, DispatchWebhooks, LoadFails,
         BeginDrain, Drain, Cancel, Finished, OpenSubscription, YieldNext, EndLagged,
         CloseSubscription, CreateWebhook, DeleteWebhook, Deliver, DeliverUnanswered,
         DeliverFails, vars

\* What a step of the indexer or of the listener does to the events on their way.
LEMMA ListenShape ==
  ASSUME TypeOK, Offline, Publish \/ PublishFails \/ Listen
  PROVE  /\ Published \/ Forwarded \/ Dropped \/ (Standing /\ UNCHANGED <<missed, dispatcher>>)
         /\ UNCHANGED consumers
<1>0. listener \in ListenerType
  BY DEF TypeOK
<1>1. UNCHANGED consumers /\ UNCHANGED dispatcher
  BY Zenon
     DEF Publish, PublishFails, Listen, Connect, ConnectFails, BackedOff, SubscribeBlocks,
         SubscribeCells, SubscribeFails, Paused, Forward, ConnectionLost, StopListener, consumers
<1>2. CASE Publish
  <2>1. published' = published + 1 /\ published + 1 \in Events /\ UNCHANGED sent
    BY <1>2, FanoutConstants DEF Publish, TypeOK, Events
  <2>2. CASE /\ listener' = [listener EXCEPT !.wire = Append(@, published + 1)]
             /\ UNCHANGED missed
    <3>1. wire' = Append(wire, published + 1)
      BY <1>0, <2>2 DEF wire, ListenerType
    <3> QED
      BY <1>1, <2>1, <2>2, <3>1, Zenon DEF Published
  <2>3. CASE /\ UNCHANGED listener
             /\ Lose({published + 1}, IF listener.at = "listen" THEN "unheard" ELSE "unsubscribed")
    <3>1. UNCHANGED wire
      BY <2>3, Zenon DEF wire
    <3>2. \E why \in Reasons : Lose({published + 1}, why)
      BY <2>3, Zenon DEF Reasons
    <3> QED
      BY <1>1, <2>1, <3>1, <3>2, Zenon DEF Published
  <2> QED
    BY <1>1, <1>2, <2>2, <2>3, Zenon DEF Publish
<1>3. CASE PublishFails
  <2>1. published' = published + 1 /\ published + 1 \in Events /\ UNCHANGED <<sent, wire>>
    BY <1>3, FanoutConstants DEF PublishFails, TypeOK, Events, wire
  <2>2. \E why \in Reasons : Lose({published + 1}, why)
    BY <1>3, Zenon DEF PublishFails, Reasons
  <2> QED
    BY <1>1, <2>1, <2>2, Zenon DEF Published
<1>4. CASE Connect \/ ConnectFails \/ Paused \/ SubscribeBlocks \/ SubscribeCells
  <2>1. UNCHANGED wire
    BY <1>0, <1>4, Zenon DEF wire, ListenerType, Connect, ConnectFails, Paused, SubscribeBlocks, SubscribeCells
  <2> QED
    BY <1>1, <1>4, <2>1, Zenon
       DEF Standing, Connect, ConnectFails, Paused, SubscribeBlocks, SubscribeCells
<1>5. CASE BackedOff
  <2>1. UNCHANGED wire
    BY <1>5 DEF wire, Offline, BackedOff, Listener
  <2> QED
    BY <1>1, <1>5, <2>1, Zenon DEF Standing, BackedOff
<1>6. CASE SubscribeFails \/ ConnectionLost \/ StopListener
  <2>1. wire' = <<>>
    BY <1>6 DEF wire, Listener, SubscribeFails, ConnectionLost, StopListener
  <2>2. \E why \in Reasons : Lose(Range(wire), why)
    BY <1>6, Zenon DEF wire, Reasons, SubscribeFails, ConnectionLost, StopListener
  <2> QED
    BY <1>1, <1>6, <2>1, <2>2, Zenon DEF Dropped, SubscribeFails, ConnectionLost, StopListener
<1>7. CASE Forward
  <2>1. wire' = Tail(wire) /\ wire # <<>> /\ sent' = Append(sent, Head(wire))
    BY <1>0, <1>7 DEF wire, ListenerType, Forward
  <2> QED
    BY <1>1, <1>7, <2>1, Zenon DEF Forwarded, Forward
<1> QED
  BY <1>1, <1>2, <1>3, <1>4, <1>5, <1>6, <1>7, Zenon DEF Listen

\* Nobody else touches the events on their way to the ring.
LEMMA NextShape ==
  ASSUME TypeOK, Offline, [Next]_vars
  PROVE  Published \/ Forwarded \/ Dropped \/ Standing
<1>1. CASE Publish \/ PublishFails \/ Listen
  BY <1>1, ListenShape, Zenon
<1>2. CASE UNCHANGED <<published, sent, listener>>
  BY <1>2, Zenon DEF Standing, wire
<1> QED
  BY <1>1, <1>2, Zenon
     DEF Next, Dispatch, ReceiveEvent, SkipLagged, DispatchWebhooks, LoadFails,
         BeginDrain, Drain, Cancel, Finished, OpenSubscription, YieldNext, EndLagged,
         CloseSubscription, CreateWebhook, DeleteWebhook, Deliver, DeliverUnanswered,
         DeliverFails, vars

\* Events go on the connection and into the ring in the published order, and
\* none twice: what is forwarded is older than what stays on the connection.
LEMMA OrderStep ==
  ASSUME TypeOK, Offline, OrderInv, [Next]_vars
  PROVE  OrderInv'
<1> DEFINE Ordered(s, w, n) ==
      /\ Increasing(s) /\ Increasing(w)
      /\ \A i \in 1 .. Len(s) : s[i] <= n
      /\ \A j \in 1 .. Len(w) : w[j] <= n
      /\ \A i \in 1 .. Len(s), j \in 1 .. Len(w) : s[i] < w[j]
<1>0. /\ Ordered(sent, wire, published) /\ published \in Nat
      /\ sent \in Seq(Events) /\ wire \in Seq(Events)
  BY DEF OrderInv, wire, TypeOK, ListenerType
<1>1. \A i \in 1 .. Len(sent) : sent[i] \in Events /\ sent[i] \in Nat
  BY <1>0, EventsInSeq
<1>2. \A j \in 1 .. Len(wire) : wire[j] \in Events /\ wire[j] \in Nat
  BY <1>0, EventsInSeq
<1>3. CASE Published
  <2>1. published' = published + 1 /\ published + 1 \in Events /\ sent' = sent
    BY <1>3, Zenon DEF Published
  <2>2. CASE wire' = wire
    BY <1>0, <1>1, <1>2, <2>1, <2>2 DEF OrderInv, wire
  <2>3. CASE wire' = Append(wire, published + 1)
    <3>1. \A j \in 1 .. Len(wire) : wire[j] < published + 1
      BY <1>0, <1>2
    <3>2. /\ Increasing(wire') /\ Len(wire') = Len(wire) + 1 /\ Len(wire) \in Nat
          /\ \A j \in 1 .. Len(wire) : wire'[j] = wire[j]
          /\ wire'[Len(wire) + 1] = published + 1
      BY <1>0, <2>1, <2>3, <3>1, AppendInOrder
    <3>3. \A j \in 1 .. Len(wire') : j \in 1 .. Len(wire) \/ j = Len(wire) + 1
      BY <3>2
    <3>4. \A j \in 1 .. Len(wire') : wire'[j] <= published + 1
      BY <1>0, <1>2, <3>2, <3>3
    <3>5. \A i \in 1 .. Len(sent), j \in 1 .. Len(wire') : sent[i] < wire'[j]
      BY <1>0, <1>1, <3>2, <3>3
    <3>6. \A i \in 1 .. Len(sent) : sent[i] <= published + 1
      BY <1>0, <1>1
    <3> QED
      BY <1>0, <2>1, <3>2, <3>4, <3>5, <3>6 DEF OrderInv, wire
  <2> QED
    BY <1>3, <2>2, <2>3, Zenon DEF Published
<1>4. CASE Forwarded
  <2>1. /\ published' = published /\ wire # <<>> /\ wire' = Tail(wire)
        /\ sent' = Append(sent, Head(wire))
    BY <1>4, Zenon DEF Forwarded
  <2>2. /\ Head(wire) \in Events /\ Head(wire) = wire[1] /\ 1 \in 1 .. Len(wire)
        /\ \A j \in 1 .. Len(wire') : j + 1 \in 1 .. Len(wire) /\ wire'[j] = wire[j + 1]
        /\ \A j \in 1 .. Len(wire') : Head(wire) < wire'[j]
        /\ Increasing(wire')
    BY <1>0, <2>1, TailInOrder
  <2>3. \A i \in 1 .. Len(sent) : sent[i] < Head(wire)
    BY <1>0, <2>2
  <2>4. /\ Increasing(sent') /\ Len(sent') = Len(sent) + 1 /\ Len(sent) \in Nat
        /\ \A i \in 1 .. Len(sent) : sent'[i] = sent[i]
        /\ sent'[Len(sent) + 1] = Head(wire)
    BY <1>0, <2>1, <2>2, <2>3, AppendInOrder
  <2>5. \A i \in 1 .. Len(sent') : i \in 1 .. Len(sent) \/ i = Len(sent) + 1
    BY <2>4
  <2>6. \A i \in 1 .. Len(sent') : sent'[i] <= published
    BY <1>0, <2>2, <2>4, <2>5
  <2>7. \A j \in 1 .. Len(wire') : wire'[j] <= published
    BY <1>0, <2>2
  <2>8. \A i \in 1 .. Len(sent'), j \in 1 .. Len(wire') : sent'[i] < wire'[j]
    BY <1>0, <2>2, <2>4, <2>5, Zenon
  <2> QED
    BY <2>1, <2>2, <2>4, <2>6, <2>7, <2>8 DEF OrderInv, wire
<1>5. CASE Dropped
  <2>1. published' = published /\ sent' = sent /\ wire' = <<>>
    BY <1>5, Zenon DEF Dropped
  <2>2. Increasing(wire') /\ 1 .. Len(wire') = {}
    BY <2>1, EmptyInOrder
  <2> QED
    BY <1>0, <2>1, <2>2 DEF OrderInv, wire
<1>6. CASE Standing
  BY <1>0, <1>6, Zenon DEF Standing, OrderInv, wire
<1> QED
  BY <1>3, <1>4, <1>5, <1>6, NextShape, Zenon

\* The ring only grows at its end.
LEMMA SentGrows ==
  ASSUME TypeOK, Offline, OrderInv, [Next]_vars
  PROVE  /\ Len(sent) \in Nat /\ Len(sent') \in Nat /\ Len(sent) <= Len(sent')
         /\ \A i \in 1 .. Len(sent) : sent'[i] = sent[i]
<1>0. sent \in Seq(Events) /\ wire \in Seq(Events) /\ Len(sent) \in Nat
  BY DEF TypeOK, ListenerType, wire
<1>1. CASE Forwarded
  <2>1. Head(wire) \in Events
    BY <1>0, <1>1 DEF Forwarded
  <2> QED
    BY <1>0, <1>1, <2>1 DEF Forwarded
<1>2. CASE sent' = sent
  BY <1>0, <1>2
<1> QED
  BY <1>1, <1>2, NextShape, Zenon DEF Published, Dropped, Standing

-----------------------------------------------------------------------------
(* GraphQL subscriptions.                                                  *)

Heard(r, s) == {e \in {sent[i] : i \in r.from .. r.next - 1} : Matches(s, e)}

\* What a subscription that does nothing has heard stays what it has heard.
LEMMA HeardStays ==
  ASSUME TypeOK, Offline, OrderInv, [Next]_vars, NEW s \in Subs, subs'[s] = subs[s]
  PROVE  Heard(subs[s], s)' = Heard(subs[s], s)
<1> DEFINE r == subs[s]
<1>1. r.from \in Nat \ {0} /\ r.next \in Nat \ {0} /\ r.next <= Len(sent) + 1
  BY DEF TypeOK, ReceiverType, WithinSent
<1>2. \A i \in r.from .. r.next - 1 : i \in 1 .. Len(sent)
  BY <1>1, SentGrows
<1>3. \A i \in r.from .. r.next - 1 : sent'[i] = sent[i]
  BY <1>2, SentGrows
<1>4. subs'[s] = r
  OBVIOUS
<1> HIDE DEF r
<1>5. {sent'[i] : i \in r.from .. r.next - 1} = {sent[i] : i \in r.from .. r.next - 1}
  BY <1>3
<1> QED
  BY <1>4, <1>5, Zenon DEF Heard, Matches, r

\* recv yields the event at the receiver's position: it is the latest of those
\* the subscription has heard.
LEMMA YieldStep ==
  ASSUME TypeOK, OrderInv, NEW s \in Subs, subs[s].at = "open", YieldNext(s),
         Increasing(subs[s].got), Range(subs[s].got) = Heard(subs[s], s)
  PROVE  Increasing(subs'[s].got) /\ Range(subs'[s].got) = Heard(subs[s], s)'
<1> DEFINE r == subs[s]
           e == sent[r.next]
<1>1. /\ r.from \in Nat \ {0} /\ r.next \in Nat \ {0} /\ r.from <= r.next
      /\ r.got \in Seq(Events) /\ sent \in Seq(Events) /\ Len(sent) \in Nat
  BY DEF TypeOK, ReceiverType, WithinSent
<1>2. r.next \in 1 .. Len(sent)
  BY <1>1 DEF YieldNext, Waiting
<1>3. e \in Events
  BY <1>1, <1>2
<1>4. subs'[s] = Receiver("open", r.next + 1, r.from, IF Matches(s, e) THEN Append(r.got, e) ELSE r.got)
  BY DEF YieldNext, TypeOK
<1>5. /\ subs'[s].next = r.next + 1 /\ subs'[s].from = r.from
      /\ subs'[s].got = IF Matches(s, e) THEN Append(r.got, e) ELSE r.got
  BY <1>4 DEF Receiver
<1>6. sent' = sent
  BY DEF YieldNext
<1>7. \A x : x \in Heard(subs[s], s)' <=> x \in Heard(r, s) \/ (x = e /\ Matches(s, e))
  <2>1. r.from .. (r.next + 1) - 1 = (r.from .. r.next - 1) \cup {r.next}
    BY <1>1
  <2>2. {sent[i] : i \in r.from .. (r.next + 1) - 1} = {sent[i] : i \in r.from .. r.next - 1} \cup {e}
    BY <2>1
  <2>3. Heard(subs[s], s)' = {x \in {sent[i] : i \in r.from .. (r.next + 1) - 1} : Matches(s, x)}
    BY <1>5, <1>6 DEF Heard, Matches
  <2> QED
    BY <2>2, <2>3 DEF Heard
<1>8. \A i \in 1 .. Len(r.got) : r.got[i] < e
  <2> SUFFICES ASSUME NEW i \in 1 .. Len(r.got) PROVE r.got[i] < e
    OBVIOUS
  <2>1. r.got[i] \in Heard(r, s)
    BY <1>1 DEF Range
  <2>2. PICK k \in r.from .. r.next - 1 : r.got[i] = sent[k]
    BY <2>1 DEF Heard
  <2>3. k \in 1 .. Len(sent) /\ k < r.next
    BY <1>1, <1>2
  <2> QED
    BY <1>2, <2>2, <2>3 DEF OrderInv, Increasing
<1> HIDE DEF e, r
<1>9. CASE Matches(s, e)
  <2>1. Increasing(Append(r.got, e)) /\ Range(Append(r.got, e)) = Range(r.got) \cup {e}
    BY <1>1, <1>3, <1>8, AppendInOrder DEF r
  <2> QED
    BY <1>5, <1>7, <1>9, <2>1, Zenon DEF r
<1>10. CASE ~Matches(s, e)
  BY <1>5, <1>7, <1>10, Zenon DEF r
<1> QED
  BY <1>9, <1>10

\* A subscription hears every matching event from its start on, in order; one
\* that falls behind the ring ends (blocks_latest, cells in graphql.rs).
LEMMA StreamStep ==
  ASSUME TypeOK, Offline, OrderInv, StreamHasNoGap, [Next]_vars
  PROVE  StreamHasNoGap'
<1> SUFFICES ASSUME NEW s \in Subs, subs'[s].at # "closed"
             PROVE  Increasing(subs'[s].got) /\ Range(subs'[s].got) = Heard(subs[s], s)'
  BY DEF StreamHasNoGap, Heard
<1>0. subs[s].at # "closed" => Increasing(subs[s].got) /\ Range(subs[s].got) = Heard(subs[s], s)
  BY DEF StreamHasNoGap, Heard
<1>1. CASE subs'[s] = subs[s]
  BY <1>0, <1>1, HeardStays
<1>2. CASE OpenSubscription(s)
  <2>1. /\ subs'[s].from = Len(sent) + 1 /\ subs'[s].next = Len(sent) + 1
        /\ subs'[s].got = <<>>
    BY <1>2 DEF OpenSubscription, Receiver, TypeOK
  <2>2. (Len(sent) + 1) .. (Len(sent) + 1) - 1 = {}
    BY DEF TypeOK
  <2>3. Heard(subs[s], s)' = {}
    BY <2>1, <2>2 DEF Heard
  <2> QED
    BY <2>1, <2>3, EmptyInOrder
<1>3. CASE YieldNext(s)
  <2>1. subs[s].at = "open"
    BY <1>3, Zenon DEF YieldNext
  <2> QED
    BY <1>0, <1>3, <2>1, YieldStep
<1>4. CASE EndLagged(s)
  <2>1. subs[s].at = "open" /\ sent' = sent
    BY <1>4, Zenon DEF EndLagged
  <2>2. subs'[s] = [subs[s] EXCEPT !.at = "ended"] /\ subs[s] \in ReceiverType
    BY <1>4 DEF EndLagged, TypeOK
  <2>3. /\ subs'[s].from = subs[s].from /\ subs'[s].next = subs[s].next
        /\ subs'[s].got = subs[s].got
    BY <2>2 DEF ReceiverType
  <2>4. Heard(subs[s], s)' = Heard(subs[s], s)
    BY <2>1, <2>3 DEF Heard, Matches
  <2> QED
    BY <1>0, <2>1, <2>3, <2>4
<1>5. CASE CloseSubscription(s)
  BY <1>5 DEF CloseSubscription, Receiver, TypeOK
<1>6. ASSUME NEW t \in Subs, t # s,
             OpenSubscription(t) \/ YieldNext(t) \/ EndLagged(t) \/ CloseSubscription(t)
      PROVE  subs'[s] = subs[s]
  BY <1>6 DEF OpenSubscription, YieldNext, EndLagged, CloseSubscription, TypeOK
<1>7. CASE UNCHANGED subs
  BY <1>1, <1>7
<1> QED
  BY <1>1, <1>2, <1>3, <1>4, <1>5, <1>6, <1>7, Zenon
     DEF Next, Publish, PublishFails, Listen, Connect, ConnectFails, BackedOff, SubscribeBlocks,
         SubscribeCells, SubscribeFails, Paused, Forward, ConnectionLost, StopListener, consumers,
         Dispatch, ReceiveEvent, SkipLagged, DispatchWebhooks, LoadFails, BeginDrain, Drain,
         Cancel, Finished, CreateWebhook, DeleteWebhook, Deliver, DeliverUnanswered,
         DeliverFails, vars

-----------------------------------------------------------------------------
(* Where an event is.                                                      *)

Lost(e) == missed[e] # NULL
Loading(e) == dispatcher.event = e
Loaded(e) == e \in dispatcher.loaded
Taken(e) == \E i \in 1 .. dispatcher.next - 1 : sent[i] = e

ExactlyOne(a, b, c, d, f) ==
  \/ a /\ ~b /\ ~c /\ ~d /\ ~f
  \/ ~a /\ b /\ ~c /\ ~d /\ ~f
  \/ ~a /\ ~b /\ c /\ ~d /\ ~f
  \/ ~a /\ ~b /\ ~c /\ d /\ ~f
  \/ ~a /\ ~b /\ ~c /\ ~d /\ f

\* An event is in one place once it is published and in none before.
Accounted(e) ==
  /\ e <= published => ExactlyOne(Lost(e), OnWire(e), InRing(e), Loading(e), Loaded(e))
  /\ e > published => ~Lost(e) /\ ~OnWire(e) /\ ~InRing(e) /\ ~Loading(e) /\ ~Loaded(e)
  /\ Loading(e) \/ Loaded(e) => Taken(e)

\* Places, counted.
LEMMA PlacesCount ==
  ASSUME NEW P, P \subseteq PlaceNames
  PROVE  /\ (\E p \in PlaceNames : P = {p}) <=>
              ExactlyOne("missed" \in P, "wire" \in P, "ring" \in P, "loading" \in P, "loaded" \in P)
         /\ P = {} <=> /\ "missed" \notin P /\ "wire" \notin P /\ "ring" \notin P
                       /\ "loading" \notin P /\ "loaded" \notin P
<1>1. ASSUME NEW n \in PlaceNames, n \in P, \A k \in PlaceNames : k # n => k \notin P
      PROVE  \E p \in PlaceNames : P = {p}
  <2>1. P = {n}
    BY <1>1
  <2> QED
    BY <2>1
<1>2. ExactlyOne("missed" \in P, "wire" \in P, "ring" \in P, "loading" \in P, "loaded" \in P) =>
        \E n \in PlaceNames : n \in P /\ \A k \in PlaceNames : k # n => k \notin P
  BY DEF ExactlyOne, PlaceNames
<1>3. (\E p \in PlaceNames : P = {p}) =>
        ExactlyOne("missed" \in P, "wire" \in P, "ring" \in P, "loading" \in P, "loaded" \in P)
  BY DEF ExactlyOne, PlaceNames
<1>4. P = {} <=> /\ "missed" \notin P /\ "wire" \notin P /\ "ring" \notin P
                 /\ "loading" \notin P /\ "loaded" \notin P
  BY DEF PlaceNames
<1> QED
  BY <1>1, <1>2, <1>3, <1>4

\* An event is in the places its tests say.
LEMMA PlacesCounted ==
  ASSUME NEW e
  PROVE  /\ (\E p \in PlaceNames : Places(e) = {p})
              <=> ExactlyOne(Lost(e), OnWire(e), InRing(e), Loading(e), Loaded(e))
         /\ Places(e) = {}
              <=> ~Lost(e) /\ ~OnWire(e) /\ ~InRing(e) /\ ~Loading(e) /\ ~Loaded(e)
<1>1. PICK P : P = Places(e)
  OBVIOUS
<1>2. /\ "missed" \in P <=> Lost(e)
      /\ "wire" \in P <=> OnWire(e)
      /\ "ring" \in P <=> InRing(e)
      /\ "loading" \in P <=> Loading(e)
      /\ "loaded" \in P <=> Loaded(e)
      /\ P \subseteq PlaceNames
  BY <1>1 DEF Places, PlaceNames, Lost, Loading, Loaded
<1> QED
  BY <1>1, <1>2, PlacesCount DEF ExactlyOne

\* An event is in the places its tests say, after a step too.
LEMMA PlacesCountedNext ==
  ASSUME NEW e
  PROVE  /\ (\E p \in PlaceNames : Places(e)' = {p})
              <=> ExactlyOne(Lost(e)', OnWire(e)', InRing(e)', Loading(e)', Loaded(e)')
         /\ Places(e)' = {}
              <=> ~Lost(e)' /\ ~OnWire(e)' /\ ~InRing(e)' /\ ~Loading(e)' /\ ~Loaded(e)'
<1>1. PICK P : P = Places(e)'
  OBVIOUS
<1>2. /\ "missed" \in P <=> Lost(e)'
      /\ "wire" \in P <=> OnWire(e)'
      /\ "ring" \in P <=> InRing(e)'
      /\ "loading" \in P <=> Loading(e)'
      /\ "loaded" \in P <=> Loaded(e)'
      /\ P \subseteq PlaceNames
  BY <1>1 DEF Places, PlaceNames, Lost, Loading, Loaded
<1> QED
  BY <1>1, <1>2, PlacesCount DEF ExactlyOne

\* AccountInv, event by event.
LEMMA AccountMeans ==
  TypeOK => (AccountInv <=> \A e \in Events : Accounted(e))
<1> SUFFICES ASSUME TypeOK PROVE AccountInv <=> \A e \in Events : Accounted(e)
  OBVIOUS
<1>1. \A e : e \in 1 .. published <=> e \in Events /\ e <= published
  BY FanoutConstants DEF TypeOK, Events
<1>2. EventAccounted <=>
        \A e \in Events : e <= published =>
          ExactlyOne(Lost(e), OnWire(e), InRing(e), Loading(e), Loaded(e))
  BY <1>1, PlacesCounted, Zenon DEF EventAccounted
<1> QED
  BY <1>2, PlacesCounted, Zenon DEF AccountInv, Accounted, Loading, Loaded, Taken

\* The same of the state after a step.
LEMMA AccountMeansNext ==
  TypeOK' => (AccountInv' <=> \A e \in Events : Accounted(e)')
<1> SUFFICES ASSUME TypeOK' PROVE AccountInv' <=> \A e \in Events : Accounted(e)'
  OBVIOUS
<1>1. \A e : e \in 1 .. published' <=> e \in Events /\ e <= published'
  BY FanoutConstants DEF TypeOK, Events
<1>2. EventAccounted' <=>
        \A e \in Events : e <= published' =>
          ExactlyOne(Lost(e)', OnWire(e)', InRing(e)', Loading(e)', Loaded(e)')
  BY <1>1, PlacesCountedNext, Zenon DEF EventAccounted
<1> QED
  BY <1>2, PlacesCountedNext, Zenon DEF AccountInv, Accounted, Loading, Loaded, Taken

\* Losing some events marks those and no others.
LEMMA LoseMarks ==
  ASSUME TypeOK, NEW gone, \E why \in Reasons : Lose(gone, why)
  PROVE  \A e \in Events : Lost(e)' <=> Lost(e) \/ e \in gone
BY FanoutConstants DEF TypeOK, Lose, Lost

\* What the dispatcher has taken from the ring it has taken.
LEMMA TakenStays ==
  ASSUME TypeOK, Offline, OrderInv, [Next]_vars, NEW e, Taken(e),
         dispatcher'.next \in Nat, dispatcher.next <= dispatcher'.next
  PROVE  Taken(e)'
<1>1. PICK i \in 1 .. dispatcher.next - 1 : sent[i] = e
  BY DEF Taken
<1>2. dispatcher.next \in Nat \ {0} /\ dispatcher.next <= Len(sent) + 1
  BY DEF TypeOK, DispatcherType, WithinSent
<1>3. i \in 1 .. dispatcher'.next - 1 /\ i \in 1 .. Len(sent)
  BY <1>1, <1>2, SentGrows
<1> QED
  BY <1>1, <1>3, SentGrows DEF Taken

\* A published event is on the connection or lost (Redis pub/sub).
LEMMA PublishedAccount ==
  ASSUME TypeOK, Offline, OrderInv, [Next]_vars, Published, NEW e \in Events, Accounted(e)
  PROVE  Accounted(e)'
<1> DEFINE n == published + 1
<1>0. /\ published' = n /\ n \in Events /\ published \in Nat /\ e \in Nat
      /\ sent' = sent /\ dispatcher' = dispatcher
      /\ wire \in Seq(Events)
  <2>1. published' = n /\ n \in Events /\ sent' = sent /\ dispatcher' = dispatcher
    BY Zenon DEF Published
  <2>2. published \in Nat /\ wire \in Seq(Events)
    BY FanoutConstants DEF TypeOK, ListenerType, wire
  <2> QED
    BY <2>1, <2>2, EventsAreNat
<1>1. /\ InRing(e)' <=> InRing(e)
      /\ Loading(e)' <=> Loading(e)
      /\ Loaded(e)' <=> Loaded(e)
      /\ Taken(e)' <=> Taken(e)
  BY <1>0, Zenon DEF InRing, Loading, Loaded, Taken
<1>2. /\ e <= n <=> e <= published \/ e = n
      /\ e > published <=> ~(e <= published)
      /\ e > n <=> ~(e <= n)
      /\ ~(n <= published)
  BY <1>0
<1>3. CASE wire' = Append(wire, n) /\ missed' = missed
  <2>1. Range(wire') = Range(wire) \cup {n}
    <3>1. \A j \in 1 .. Len(wire) : wire[j] < n
      <4>1. \A j \in 1 .. Len(wire) : wire[j] \in Events /\ wire[j] \in Nat
        BY <1>0, EventsInSeq
      <4> QED
        BY <1>0, <4>1 DEF OrderInv, wire
    <3> QED
      BY <1>0, <1>3, <3>1, AppendInOrder DEF OrderInv, wire
  <2>2. OnWire(e)' <=> OnWire(e) \/ e = n
    BY <2>1 DEF OnWire, wire
  <2>3. Lost(e)' <=> Lost(e)
    BY <1>3, Zenon DEF Lost
  <2> HIDE DEF n
  <2> QED
    BY <1>0, <1>1, <1>2, <2>2, <2>3, Zenon DEF Accounted, ExactlyOne
<1>4. CASE wire' = wire /\ \E why \in Reasons : Lose({n}, why)
  <2>1. Lost(e)' <=> Lost(e) \/ e = n
    BY <1>4, LoseMarks
  <2>2. OnWire(e)' <=> OnWire(e)
    BY <1>4, Zenon DEF OnWire, wire
  <2> HIDE DEF n
  <2> QED
    BY <1>0, <1>1, <1>2, <2>1, <2>2, Zenon DEF Accounted, ExactlyOne
<1> QED
  BY <1>3, <1>4, Zenon DEF Published

\* tx.send moves the first event of the connection to the ring; the dispatcher,
\* which is never past the end of the ring, has it before it.
LEMMA ForwardedAccount ==
  ASSUME TypeOK, Offline, OrderInv, [Next]_vars, Forwarded, NEW e \in Events, Accounted(e)
  PROVE  Accounted(e)'
<1> DEFINE h == Head(wire)
<1>0. /\ sent \in Seq(Events) /\ wire \in Seq(Events) /\ wire # <<>> /\ Increasing(wire)
      /\ wire' = Tail(wire) /\ sent' = Append(sent, h)
      /\ published' = published /\ missed' = missed /\ dispatcher' = dispatcher
  BY DEF Forwarded, TypeOK, ListenerType, OrderInv, wire
<1>1. /\ h \in Events /\ Range(wire') = Range(wire) \ {h} /\ h \in Range(wire)
      /\ h = wire[1] /\ 1 \in 1 .. Len(wire)
  BY <1>0, TailInOrder
<1>2. OnWire(e)' <=> OnWire(e) /\ e # h
  BY <1>1 DEF OnWire, wire
<1>3. OnWire(h)
  BY <1>1 DEF OnWire, wire
<1>4. h <= published
  BY <1>1 DEF OrderInv, wire
<1>5. InRing(e)' <=> InRing(e) \/ e = h
  <2>1. /\ Len(sent') = Len(sent) + 1 /\ Len(sent) \in Nat /\ sent'[Len(sent) + 1] = h
        /\ \A i \in 1 .. Len(sent) : sent'[i] = sent[i]
    BY <1>0, <1>1
  <2>2. /\ dispatcher.next \in Nat \ {0} /\ dispatcher.next <= Len(sent) + 1
    BY DEF TypeOK, DispatcherType, WithinSent
  <2>3. /\ Len(sent) + 1 \in dispatcher.next .. Len(sent')
        /\ \A i \in dispatcher.next .. Len(sent') :
             i = Len(sent) + 1 \/ (i \in dispatcher.next .. Len(sent) /\ sent'[i] = sent[i])
        /\ \A i \in dispatcher.next .. Len(sent) :
             i \in dispatcher.next .. Len(sent') /\ sent'[i] = sent[i]
    BY <2>1, <2>2
  <2> QED
    BY <1>0, <2>1, <2>3, Zenon DEF InRing
<1>6. /\ Lost(e)' <=> Lost(e)
      /\ Loading(e)' <=> Loading(e)
      /\ Loaded(e)' <=> Loaded(e)
  BY <1>0, Zenon DEF Lost, Loading, Loaded
<1>7. Loading(e) \/ Loaded(e) => Taken(e)'
  <2>1. dispatcher'.next \in Nat /\ dispatcher.next <= dispatcher'.next
    BY <1>0 DEF TypeOK, DispatcherType
  <2> QED
    BY <2>1, TakenStays DEF Accounted
<1> HIDE DEF h
<1>8. CASE e = h
  BY <1>0, <1>2, <1>3, <1>4, <1>5, <1>6, <1>7, <1>8, Zenon DEF Accounted, ExactlyOne
<1>9. CASE e # h
  BY <1>0, <1>2, <1>5, <1>6, <1>7, <1>9, Zenon DEF Accounted, ExactlyOne
<1> QED
  BY <1>8, <1>9

\* What was on a connection that breaks is lost.
LEMMA DroppedAccount ==
  ASSUME TypeOK, OrderInv, Dropped, NEW e \in Events, Accounted(e)
  PROVE  Accounted(e)'
<1>0. published' = published /\ sent' = sent /\ dispatcher' = dispatcher /\ wire' = <<>>
  BY Zenon DEF Dropped
<1>1. Lost(e)' <=> Lost(e) \/ OnWire(e)
  <2>1. PICK gone : gone = Range(wire)
    OBVIOUS
  <2>2. \E why \in Reasons : Lose(gone, why)
    BY <2>1, Zenon DEF Dropped
  <2>3. Lost(e)' <=> Lost(e) \/ e \in gone
    BY <2>2, LoseMarks
  <2> QED
    BY <2>1, <2>3, Zenon DEF OnWire, wire
<1>2. ~OnWire(e)'
  BY <1>0, EmptyInOrder DEF OnWire, wire
<1>3. /\ InRing(e)' <=> InRing(e)
      /\ Loading(e)' <=> Loading(e)
      /\ Loaded(e)' <=> Loaded(e)
      /\ Taken(e)' <=> Taken(e)
  BY <1>0, Zenon DEF InRing, Loading, Loaded, Taken
<1>4. e > published <=> ~(e <= published)
  BY EventsAreNat DEF TypeOK
<1> QED
  BY <1>0, <1>1, <1>2, <1>3, <1>4, Zenon DEF Accounted, ExactlyOne

\* The dispatcher takes the event at its position, and no other is equal to it.
LEMMA ReceivedAccount ==
  ASSUME TypeOK, Offline, OrderInv, [Next]_vars, ReceiveEvent, NEW e \in Events, Accounted(e)
  PROVE  Accounted(e)'
<1> DEFINE next == dispatcher.next
           x == sent[next]
<1>0. /\ next \in Nat \ {0} /\ sent \in Seq(Events) /\ Len(sent) \in Nat
      /\ dispatcher \in DispatcherType /\ dispatcher.event = NULL
  BY DEF TypeOK, DispatcherType, WithinSent, ReceiveEvent
<1>1. next \in 1 .. Len(sent) /\ x \in Events
  <2>1. next <= Len(sent)
    BY DEF ReceiveEvent, Waiting
  <2> QED
    BY <1>0, <2>1
<1>2. /\ dispatcher'.next = next + 1 /\ dispatcher'.event = x
      /\ dispatcher'.loaded = dispatcher.loaded
  BY <1>0 DEF ReceiveEvent, DispatcherType
<1>3. published' = published /\ sent' = sent /\ missed' = missed /\ listener' = listener
  BY Zenon DEF ReceiveEvent
<1>4. InRing(e)' <=> InRing(e) /\ e # x
  <2>1. InRing(e)' <=> \E i \in next + 1 .. Len(sent) : sent[i] = e
    BY <1>2, <1>3 DEF InRing
  <2>2. \A i \in next + 1 .. Len(sent) : i \in next .. Len(sent) /\ sent[i] # x
    <3> SUFFICES ASSUME NEW i \in next + 1 .. Len(sent)
                 PROVE  i \in next .. Len(sent) /\ sent[i] # x
      OBVIOUS
    <3>1. i \in 1 .. Len(sent) /\ next < i
      BY <1>0
    <3>2. x < sent[i]
      BY <1>1, <3>1 DEF OrderInv, Increasing
    <3> QED
      BY <1>0, <1>1, <3>1, <3>2, EventsAreNat
  <2>3. \A i \in next .. Len(sent) : i = next \/ i \in next + 1 .. Len(sent)
    BY <1>0
  <2> QED
    BY <2>1, <2>2, <2>3 DEF InRing
<1>5. InRing(x)
  BY <1>0, <1>1 DEF InRing
<1>6. /\ Loading(e)' <=> e = x
      /\ ~Loading(e)
      /\ Loaded(e)' <=> Loaded(e)
      /\ Lost(e)' <=> Lost(e)
      /\ OnWire(e)' <=> OnWire(e)
  BY <1>0, <1>2, <1>3, FanoutConstants, EventsAreNat DEF Loading, Loaded, Lost, OnWire
<1>7. Loading(e)' \/ Loaded(e)' => Taken(e)'
  <2>1. CASE e = x
    <3>1. next \in 1 .. dispatcher'.next - 1
      BY <1>0, <1>2
    <3> QED
      BY <1>3, <2>1, <3>1 DEF Taken
  <2>2. CASE Loaded(e)
    <3>1. dispatcher'.next \in Nat /\ dispatcher.next <= dispatcher'.next
      BY <1>0, <1>2
    <3> QED
      BY <2>2, <3>1, TakenStays DEF Accounted
  <2> QED
    BY <1>6, <2>1, <2>2, Zenon
<1>8. e > published <=> ~(e <= published)
  BY EventsAreNat, FanoutConstants DEF TypeOK
<1> HIDE DEF x
<1> QED
  BY <1>3, <1>4, <1>5, <1>6, <1>7, <1>8, Zenon DEF Accounted, ExactlyOne

\* A lagging dispatcher resumes at the oldest event the ring still has: what it
\* skips, and only that, is lost.
LEMMA SkippedAccount ==
  ASSUME TypeOK, Offline, OrderInv, [Next]_vars, SkipLagged, NEW e \in Events, Accounted(e)
  PROVE  Accounted(e)'
<1> DEFINE next == dispatcher.next
<1>0. /\ next \in Nat \ {0} /\ sent \in Seq(Events) /\ Len(sent) \in Nat
      /\ dispatcher \in DispatcherType
      /\ Oldest \in Nat \ {0} /\ Oldest <= Len(sent) + 1 /\ next < Oldest
  <2>1. /\ next \in Nat \ {0} /\ sent \in Seq(Events) /\ Len(sent) \in Nat
        /\ dispatcher \in DispatcherType
    BY DEF TypeOK, DispatcherType
  <2>2. Oldest \in Nat \ {0} /\ Oldest <= Len(sent) + 1
    BY <2>1, FanoutConstants DEF Oldest
  <2> QED
    BY <2>1, <2>2, Zenon DEF SkipLagged, Lagging
<1>1. /\ dispatcher'.next = Oldest /\ dispatcher'.event = dispatcher.event
      /\ dispatcher'.loaded = dispatcher.loaded
  BY <1>0 DEF SkipLagged, SkipTo, DispatcherType
<1>2. published' = published /\ sent' = sent /\ listener' = listener
  BY Zenon DEF SkipLagged
<1>3. Lost(e)' <=> Lost(e) \/ \E i \in next .. Oldest - 1 : sent[i] = e
  <2>1. PICK gone : gone = {sent[i] : i \in next .. Oldest - 1}
    BY Zenon
  <2>2. \E why \in Reasons : Lose(gone, why)
    BY <2>1, Zenon DEF SkipLagged, Reasons
  <2>3. Lost(e)' <=> Lost(e) \/ e \in gone
    BY <2>2, LoseMarks
  <2> QED
    BY <2>1, <2>3
<1>4. InRing(e)' <=> \E i \in Oldest .. Len(sent) : sent[i] = e
  BY <1>1, <1>2 DEF InRing
<1>5. InRing(e) <=> InRing(e)' \/ \E i \in next .. Oldest - 1 : sent[i] = e
  <2>1. \A i \in next .. Len(sent) : i \in Oldest .. Len(sent) \/ i \in next .. Oldest - 1
    BY <1>0
  <2>2. \A i \in Oldest .. Len(sent) : i \in next .. Len(sent)
    BY <1>0
  <2>3. \A i \in next .. Oldest - 1 : i \in next .. Len(sent)
    BY <1>0
  <2> QED
    BY <1>4, <2>1, <2>2, <2>3 DEF InRing
<1>6. ~(InRing(e)' /\ \E i \in next .. Oldest - 1 : sent[i] = e)
  <2> SUFFICES ASSUME NEW i \in next .. Oldest - 1, NEW j \in Oldest .. Len(sent),
                      sent[i] = sent[j]
               PROVE  FALSE
    BY <1>4
  <2>1. i \in 1 .. Len(sent) /\ j \in 1 .. Len(sent) /\ i < j
    BY <1>0
  <2>2. sent[i] < sent[j] /\ sent[j] \in Events
    BY <1>0, <2>1 DEF OrderInv, Increasing
  <2> QED
    BY <2>2, EventsAreNat
<1>7. /\ Loading(e)' <=> Loading(e)
      /\ Loaded(e)' <=> Loaded(e)
      /\ OnWire(e)' <=> OnWire(e)
  BY <1>1, <1>2, Zenon DEF Loading, Loaded, OnWire
<1>8. Loading(e) \/ Loaded(e) => Taken(e)'
  <2>1. dispatcher'.next \in Nat /\ dispatcher.next <= dispatcher'.next
    BY <1>0, <1>1
  <2> QED
    BY <2>1, TakenStays DEF Accounted
<1>9. e > published <=> ~(e <= published)
  BY EventsAreNat, FanoutConstants DEF TypeOK
<1>10. PICK skipped : skipped \in BOOLEAN /\ (skipped <=> \E i \in next .. Oldest - 1 : sent[i] = e)
  <2> WITNESS (\E i \in next .. Oldest - 1 : sent[i] = e)
  <2> QED
    OBVIOUS
<1>11. /\ Lost(e)' <=> Lost(e) \/ skipped
       /\ InRing(e) <=> InRing(e)' \/ skipped
       /\ ~(InRing(e)' /\ skipped)
  BY <1>3, <1>5, <1>6, <1>10
<1> QED
  BY <1>2, <1>7, <1>8, <1>9, <1>11, Zenon DEF Accounted, ExactlyOne

\* The event whose rows were asked for is dispatched, or lost when the query fails.
LEMMA LoadedAccount ==
  ASSUME TypeOK, DispatchWebhooks \/ LoadFails, NEW e \in Events, Accounted(e)
  PROVE  Accounted(e)'
<1>0. dispatcher \in DispatcherType /\ dispatcher.event \in Events /\ dispatcher.at = "load"
  BY DEF TypeOK, DispatcherType, WithinSent, DispatchWebhooks, LoadFails
<1>1. published' = published /\ sent' = sent /\ listener' = listener
  BY Zenon DEF DispatchWebhooks, LoadFails
<1>2. dispatcher'.next = dispatcher.next /\ dispatcher'.event = NULL
  BY <1>0, Zenon DEF DispatchWebhooks, LoadFails, DispatcherType
<1>3. /\ InRing(e)' <=> InRing(e)
      /\ OnWire(e)' <=> OnWire(e)
      /\ Taken(e)' <=> Taken(e)
  BY <1>1, <1>2, Zenon DEF InRing, OnWire, Taken
<1>4. ~Loading(e)'
  BY <1>2, FanoutConstants, EventsAreNat DEF Loading
<1>5. e > published <=> ~(e <= published)
  BY EventsAreNat, FanoutConstants DEF TypeOK
<1>6. CASE DispatchWebhooks
  <2>1. dispatcher'.loaded = dispatcher.loaded \cup {dispatcher.event} /\ missed' = missed
    BY <1>0, <1>6 DEF DispatchWebhooks, DispatcherType
  <2>2. /\ Loaded(e)' <=> Loaded(e) \/ Loading(e)
        /\ Lost(e)' <=> Lost(e)
    BY <2>1 DEF Loaded, Loading, Lost
  <2> QED
    BY <1>1, <1>3, <1>4, <1>5, <2>2, Zenon DEF Accounted, ExactlyOne
<1>7. CASE LoadFails
  <2>1. dispatcher'.loaded = dispatcher.loaded
    BY <1>0, <1>7 DEF LoadFails, DispatcherType
  <2>2. Lost(e)' <=> Lost(e) \/ Loading(e)
    <3>1. PICK gone : gone = {dispatcher.event}
      BY Zenon
    <3>2. \E why \in Reasons : Lose(gone, why)
      BY <1>7, <3>1, Zenon DEF LoadFails, Reasons
    <3>3. Lost(e)' <=> Lost(e) \/ e \in gone
      BY <3>2, LoseMarks
    <3> QED
      BY <3>1, <3>3 DEF Loading
  <2>3. Loaded(e)' <=> Loaded(e)
    BY <2>1, Zenon DEF Loaded
  <2> QED
    BY <1>1, <1>3, <1>4, <1>5, <2>2, <2>3, Zenon DEF Accounted, ExactlyOne
<1> QED
  BY <1>6, <1>7

\* Every step leaves every event accounted for.
LEMMA AccountStep ==
  ASSUME TypeOK, TypeOK', Offline, OrderInv, AccountInv, [Next]_vars
  PROVE  AccountInv'
<1> SUFFICES ASSUME NEW e \in Events PROVE Accounted(e)'
  BY AccountMeansNext
<1>0. Accounted(e)
  BY AccountMeans
<1>1. CASE Published \/ Forwarded \/ Dropped
  BY <1>0, <1>1, PublishedAccount, ForwardedAccount, DroppedAccount, Zenon
<1>2. CASE SkipLagged \/ ReceiveEvent \/ DispatchWebhooks \/ LoadFails
  BY <1>0, <1>2, SkippedAccount, ReceivedAccount, LoadedAccount, Zenon
<1>3. CASE BeginDrain \/ Drain
  <2>1. /\ dispatcher'.next = dispatcher.next /\ dispatcher'.event = dispatcher.event
        /\ dispatcher'.loaded = dispatcher.loaded
    BY <1>3 DEF BeginDrain, Drain, TypeOK, DispatcherType
  <2>2. published' = published /\ sent' = sent /\ listener' = listener /\ missed' = missed
    BY <1>3, Zenon DEF BeginDrain, Drain
  <2> QED
    BY <1>0, <2>1, <2>2, Zenon
       DEF Accounted, Lost, OnWire, InRing, Loading, Loaded, Taken
<1>4. CASE Standing /\ missed' = missed /\ dispatcher' = dispatcher
  BY <1>0, <1>4, Zenon
     DEF Standing, wire, Accounted, Lost, OnWire, InRing, Loading, Loaded, Taken
<1>5. CASE Publish \/ PublishFails \/ Listen
  BY <1>1, <1>4, <1>5, ListenShape, Zenon
<1>6. CASE UNCHANGED <<published, listener, sent, missed, dispatcher>>
  BY <1>4, <1>6, Zenon DEF Standing, wire
<1> QED
  BY <1>2, <1>3, <1>5, <1>6, Zenon
     DEF Next, Dispatch, Cancel, Finished, OpenSubscription, YieldNext, EndLagged,
         CloseSubscription, CreateWebhook, DeleteWebhook, Deliver, DeliverUnanswered,
         DeliverFails, vars, consumers

-----------------------------------------------------------------------------
(* Webhooks.                                                               *)

\* An event is dispatched once: the one in the dispatcher's hands was not
\* dispatched before.
LEMMA DispatchedOnce ==
  ASSUME TypeOK, AccountInv, dispatcher.at = "load"
  PROVE  /\ dispatcher.event \in Events /\ dispatcher.event \notin dispatcher.loaded
         /\ Taken(dispatcher.event)
<1>1. dispatcher.event \in Events /\ published \in Nat
  BY FanoutConstants DEF TypeOK, DispatcherType, WithinSent
<1>2. PICK e \in Events : e = dispatcher.event
  BY <1>1
<1>3. Accounted(e) /\ Loading(e)
  BY <1>2, AccountMeans DEF Loading
<1>4. ~(e > published) => e <= published
  BY <1>1, EventsAreNat
<1>5. ~Loaded(e) /\ Taken(e)
  BY <1>3, <1>4, Zenon DEF Accounted, ExactlyOne
<1> QED
  BY <1>2, <1>5, Zenon DEF Loaded

\* A delivery that was made or is being made.
Owed(d) == posted[d] > 0 \/ d \in flying

\* A channel position below the cursor stays below it as the cursor advances.
LEMMA BelowStays ==
  ASSUME NEW a \in Nat, NEW b \in Nat, NEW c \in Nat, a < b, b <= c
  PROVE  a < c
  OBVIOUS

\* A channel position within a prefix is one within the whole.
LEMMA InLongerRange ==
  ASSUME NEW a \in Nat, NEW b \in Nat, a <= b, NEW i \in 1 .. a
  PROVE  i \in 1 .. b
  OBVIOUS

\* While no row is deleted, a delivery is made only to a live row, of an event
\* that is dispatched.
LEMMA HooksStay ==
  ASSUME TypeOK, TypeOK', Offline, OrderInv, HookInv, [Next]_vars,
         UNCHANGED silentFrom,
         \A w \in Hooks : hooks'[w] = "deleted" <=> hooks[w] = "deleted",
         dispatcher.loaded \subseteq dispatcher'.loaded, dispatcher.next <= dispatcher'.next,
         AtMostOnePost',
         \A d \in Deliveries : Owed(d)' =>
           Owed(d) \/ (hooks[d[1]] # "deleted" /\ d[2] \in dispatcher'.loaded)
  PROVE  HookInv'
<1>1. \A d \in Deliveries : Owed(d)' => d[2] \in dispatcher'.loaded
  BY DEF HookInv, Owed
<1>2. /\ dispatcher.next \in Nat \ {0} /\ dispatcher'.next \in Nat \ {0}
      /\ dispatcher.next <= Len(sent) + 1
  BY DEF TypeOK, DispatcherType, WithinSent
<1>3. ASSUME NEW w \in Hooks
      PROVE  /\ silentFrom'[w] # NULL <=> hooks'[w] = "deleted"
             /\ silentFrom'[w] # NULL => silentFrom'[w] \in Nat /\ silentFrom'[w] < dispatcher'.next
  <2>1. silentFrom[w] \in Nat \cup {NULL}
    BY Zenon DEF TypeOK
  <2>2. /\ silentFrom[w] # NULL <=> hooks[w] = "deleted"
        /\ silentFrom[w] # NULL => silentFrom[w] < dispatcher.next
    BY Zenon DEF HookInv
  <2>3. silentFrom'[w] # NULL <=> hooks'[w] = "deleted"
    BY <2>2, Zenon
  <2>4. ASSUME silentFrom[w] # NULL
        PROVE  silentFrom[w] \in Nat /\ silentFrom[w] < dispatcher'.next
    <3>1. silentFrom[w] \in Nat /\ silentFrom[w] < dispatcher.next
      BY <2>1, <2>2, <2>4, Zenon
    <3>2. dispatcher.next \in Nat /\ dispatcher'.next \in Nat
      BY <1>2, Zenon
    <3> QED
      BY <3>1, <3>2, BelowStays, Zenon
  <2> QED
    BY <2>3, <2>4, Zenon
<1>4. DeletedHookSilent'
  <2> SUFFICES ASSUME NEW w \in Hooks, NEW e \in Events, silentFrom[w] # NULL, Owed(<<w, e>>)'
               PROVE  \E i \in 1 .. silentFrom[w] : sent'[i] = e
    BY DEF DeletedHookSilent, Owed
  <2>1. <<w, e>> \in Deliveries /\ <<w, e>>[1] = w
    BY Zenon DEF Deliveries
  <2>2. hooks[w] = "deleted" /\ silentFrom[w] < dispatcher.next
    BY Zenon DEF HookInv
  <2>3. Owed(<<w, e>>)
    BY <2>1, <2>2, Zenon
  <2>4. PICK i \in 1 .. silentFrom[w] : sent[i] = e
    BY <2>3, Zenon DEF HookInv, HookContract, DeletedHookSilent, Owed
  <2>5. i \in 1 .. Len(sent)
    <3>1. silentFrom[w] \in Nat
      BY DEF TypeOK
    <3>2. Len(sent) \in Nat
      BY SentGrows, Zenon
    <3>3. silentFrom[w] <= Len(sent)
      BY <1>2, <2>2, <3>1, <3>2
    <3> QED
      BY <2>4, <3>1, <3>2, <3>3, InLongerRange, Zenon
  <2> QED
    BY <2>4, <2>5, SentGrows, Zenon
<1> QED
  BY <1>1, <1>3, <1>4 DEF HookInv, HookContract, Owed

\* A row's deletion: what was posted or is being posted to it was dispatched, and
\* so taken from the channel, before.
LEMMA DeleteStep ==
  ASSUME TypeOK, AccountInv, HookInv, NEW w \in Hooks, DeleteWebhook(w)
  PROVE  HookInv'
<1>0. /\ dispatcher.next \in Nat \ {0} /\ dispatcher.next - 1 \in Nat
      /\ silentFrom \in [Hooks -> Nat \cup {NULL}] /\ hooks \in [Hooks -> {"absent", "live", "deleted"}]
  BY DEF TypeOK, DispatcherType
<1>1. UNCHANGED <<sent, dispatcher, flying, posted>>
  BY Zenon DEF DeleteWebhook
<1>2. /\ silentFrom' = [silentFrom EXCEPT ![w] = dispatcher.next - 1]
      /\ hooks' = [hooks EXCEPT ![w] = "deleted"]
  BY Zenon DEF DeleteWebhook
<1>3. AtMostOnePost'
  BY <1>1, Zenon DEF HookInv, HookContract, AtMostOnePost
<1>4. \A d \in Deliveries : Owed(d)' <=> Owed(d)
  BY <1>1, Zenon DEF Owed
<1>5. ASSUME NEW v \in Hooks
      PROVE  /\ silentFrom'[v] # NULL <=> hooks'[v] = "deleted"
             /\ silentFrom'[v] # NULL => silentFrom'[v] < dispatcher.next
  <2>1. CASE v = w
    BY <1>0, <1>2, <2>1, FanoutConstants
  <2>2. CASE v # w
    BY <1>0, <1>2, <2>2 DEF HookInv
  <2> QED
    BY <2>1, <2>2, Zenon
<1>6. DeletedHookSilent'
  <2> SUFFICES ASSUME NEW v \in Hooks, NEW e \in Events, silentFrom'[v] # NULL, Owed(<<v, e>>)'
               PROVE  \E i \in 1 .. silentFrom'[v] : sent[i] = e
    BY <1>1 DEF DeletedHookSilent, Owed
  <2>1. <<v, e>> \in Deliveries /\ <<v, e>>[2] = e /\ Owed(<<v, e>>)
    BY <1>4 DEF Deliveries
  <2>2. CASE v = w
    <3>1. e \in dispatcher.loaded
      BY <2>1 DEF HookInv, Owed
    <3>2. Taken(e)
      BY <3>1, AccountMeans, Zenon DEF Accounted, Loaded
    <3> QED
      BY <1>0, <1>2, <2>2, <3>2 DEF Taken
  <2>3. CASE v # w
    <3>1. silentFrom'[v] = silentFrom[v]
      BY <1>0, <1>2, <2>3
    <3> QED
      BY <2>1, <3>1 DEF HookInv, HookContract, DeletedHookSilent, Owed
  <2> QED
    BY <2>2, <2>3
<1> QED
  BY <1>1, <1>3, <1>4, <1>5, <1>6 DEF HookInv, HookContract, Owed

\* Every step keeps what a webhook's owner may count on.
LEMMA HookStep ==
  ASSUME TypeOK, TypeOK', Offline, OrderInv, AccountInv, HookInv, [Next]_vars
  PROVE  HookInv'
<1>0. /\ dispatcher \in DispatcherType /\ dispatcher.next \in Nat \ {0}
      /\ flying \subseteq Deliveries /\ posted \in [Deliveries -> Nat]
      /\ AtMostOnePost
  BY DEF TypeOK, DispatcherType, HookInv, HookContract
<1>1. CASE UNCHANGED <<hooks, silentFrom, flying, posted>>
  <2>1. dispatcher.loaded \subseteq dispatcher'.loaded /\ dispatcher.next <= dispatcher'.next
    <3>1. CASE UNCHANGED dispatcher
      BY <1>0, <3>1
    <3>2. CASE ReceiveEvent
      BY <1>0, <3>2 DEF ReceiveEvent, DispatcherType
    <3>3. CASE SkipLagged
      <4>1. Oldest \in Nat /\ dispatcher.next < Oldest
        BY <3>3, FanoutConstants DEF SkipLagged, Lagging, Oldest, TypeOK
      <4> QED
        BY <1>0, <3>3, <4>1 DEF SkipLagged, SkipTo, DispatcherType
    <3>4. CASE DispatchWebhooks \/ LoadFails
      <4>1. dispatcher'.next = dispatcher.next
        BY <1>0, <3>4, Zenon DEF DispatchWebhooks, LoadFails, DispatcherType
      <4>2. dispatcher.loaded \subseteq dispatcher'.loaded
        <5>1. CASE DispatchWebhooks
          <6>1. dispatcher'.loaded = dispatcher.loaded \cup {dispatcher.event}
            BY <1>0, <5>1, Zenon DEF DispatchWebhooks, DispatcherType
          <6> QED
            BY <6>1, Zenon
        <5>2. CASE LoadFails
          <6>1. dispatcher'.loaded = dispatcher.loaded
            BY <1>0, <5>2, Zenon DEF LoadFails, DispatcherType
          <6> QED
            BY <6>1, Zenon
        <5> QED
          BY <3>4, <5>1, <5>2, Zenon
      <4> QED
        BY <1>0, <4>1, <4>2
    <3>6. CASE BeginDrain \/ Drain
      BY <1>0, <3>6 DEF BeginDrain, Drain, DispatcherType
    <3>5. CASE Publish \/ PublishFails \/ Listen
      <4>1. UNCHANGED dispatcher
        BY <3>5, ListenShape, Zenon DEF consumers
      <4> QED
        BY <3>1, <4>1
    <3> QED
      BY <3>1, <3>2, <3>3, <3>4, <3>5, <3>6, Zenon
         DEF Next, Dispatch, Cancel, Finished, OpenSubscription, YieldNext, EndLagged,
             CloseSubscription, CreateWebhook, DeleteWebhook, Deliver, DeliverUnanswered,
             DeliverFails, vars, consumers
  <2>2. AtMostOnePost' /\ \A d \in Deliveries : Owed(d)' => Owed(d)
    BY <1>0, <1>1, Zenon DEF AtMostOnePost, Owed
  <2>3. UNCHANGED silentFrom /\ \A w \in Hooks : hooks'[w] = "deleted" <=> hooks[w] = "deleted"
    BY <1>1, Zenon
  <2> QED
    BY <2>1, <2>2, <2>3, HooksStay
<1>2. ASSUME NEW w \in Hooks, CreateWebhook(w) PROVE HookInv'
  <2>1. UNCHANGED <<silentFrom, flying, posted, dispatcher>>
    BY <1>2, Zenon DEF CreateWebhook
  <2>2. \A v \in Hooks : hooks'[v] = "deleted" <=> hooks[v] = "deleted"
    BY <1>2 DEF CreateWebhook, TypeOK
  <2>3. AtMostOnePost' /\ \A d \in Deliveries : Owed(d)' => Owed(d)
    BY <1>0, <2>1, Zenon DEF AtMostOnePost, Owed
  <2>4. dispatcher.loaded \subseteq dispatcher'.loaded /\ dispatcher.next <= dispatcher'.next
    BY <1>0, <2>1
  <2> QED
    BY <2>1, <2>2, <2>3, <2>4, HooksStay
<1>3. ASSUME NEW w \in Hooks, DeleteWebhook(w) PROVE HookInv'
  BY <1>3, DeleteStep
<1>4. CASE DispatchWebhooks
  <2>1. /\ dispatcher.at = "load" /\ UNCHANGED <<hooks, silentFrom, posted>>
        /\ flying' = flying \cup (LoadWebhooks(dispatcher.event) \X {dispatcher.event})
    BY <1>4, Zenon DEF DispatchWebhooks, hookVars
  <2>2. dispatcher'.loaded = dispatcher.loaded \cup {dispatcher.event} /\ dispatcher'.next = dispatcher.next
    BY <1>0, <1>4 DEF DispatchWebhooks, DispatcherType
  <2>3. dispatcher.event \notin dispatcher.loaded
    BY <2>1, DispatchedOnce
  <2>4. ASSUME NEW d \in Deliveries, d \in flying', d \notin flying
        PROVE  d[2] = dispatcher.event /\ hooks[d[1]] = "live" /\ ~Owed(d)
    <3>1. d[2] = dispatcher.event /\ d[1] \in LoadWebhooks(dispatcher.event)
      BY <2>1, <2>4
    <3>2. hooks[d[1]] = "live"
      BY <3>1 DEF LoadWebhooks
    <3> QED
      BY <2>3, <3>1, <3>2 DEF HookInv, Owed
  <2>5. AtMostOnePost'
    <3> SUFFICES ASSUME NEW d \in Deliveries
                 PROVE  posted[d] + (IF d \in flying' THEN 1 ELSE 0) <= 1
      BY <2>1 DEF AtMostOnePost
    <3>1. CASE d \in flying' /\ d \notin flying
      BY <1>0, <2>4, <3>1 DEF Owed
    <3>2. CASE d \in flying' <=> d \in flying
      BY <1>0, <3>2 DEF AtMostOnePost
    <3> QED
      BY <2>1, <3>1, <3>2, Zenon
  <2>6. \A d \in Deliveries : Owed(d)' =>
          Owed(d) \/ (hooks[d[1]] # "deleted" /\ d[2] \in dispatcher'.loaded)
    BY <2>1, <2>2, <2>4 DEF Owed
  <2>7. dispatcher.loaded \subseteq dispatcher'.loaded /\ dispatcher.next <= dispatcher'.next
    BY <1>0, <2>2
  <2>8. UNCHANGED silentFrom /\ \A w \in Hooks : hooks'[w] = "deleted" <=> hooks[w] = "deleted"
    BY <2>1, Zenon
  <2> QED
    BY <2>5, <2>6, <2>7, <2>8, HooksStay
<1>5. ASSUME NEW d \in flying, Deliver(d) \/ DeliverUnanswered(d) \/ DeliverFails(d)
      PROVE  HookInv'
  <2>1. UNCHANGED <<hooks, silentFrom, dispatcher>> /\ flying' = flying \ {d}
    BY <1>5, Zenon DEF Deliver, DeliverUnanswered, DeliverFails, hookVars
  <2>2. posted' = posted \/ posted' = [posted EXCEPT ![d] = @ + 1]
    BY <1>5, Zenon DEF Deliver, DeliverUnanswered, DeliverFails
  <2>3. posted[d] = 0 /\ d \in Deliveries
    BY <1>0 DEF AtMostOnePost
  <2>4. AtMostOnePost'
    <3> SUFFICES ASSUME NEW x \in Deliveries
                 PROVE  posted'[x] + (IF x \in flying' THEN 1 ELSE 0) <= 1
      BY DEF AtMostOnePost
    <3>1. CASE x = d
      BY <1>0, <2>1, <2>2, <2>3, <3>1
    <3>2. CASE x # d
      <4>1. posted'[x] = posted[x] /\ (x \in flying' <=> x \in flying)
        BY <1>0, <2>1, <2>2, <3>2
      <4> QED
        BY <1>0, <4>1 DEF AtMostOnePost
    <3> QED
      BY <3>1, <3>2
  <2>5. \A x \in Deliveries : Owed(x)' => Owed(x)
    BY <1>0, <2>1, <2>2, <2>3 DEF Owed
  <2>6. dispatcher.loaded \subseteq dispatcher'.loaded /\ dispatcher.next <= dispatcher'.next
    BY <1>0, <2>1
  <2>7. UNCHANGED silentFrom /\ \A w \in Hooks : hooks'[w] = "deleted" <=> hooks[w] = "deleted"
    BY <2>1, Zenon
  <2> QED
    BY <2>4, <2>5, <2>6, <2>7, HooksStay
<1>6. CASE Publish \/ PublishFails \/ Listen
  BY <1>1, <1>6, ListenShape, Zenon DEF consumers
<1> QED
  BY <1>1, <1>2, <1>3, <1>4, <1>5, <1>6, Zenon
     DEF Next, Dispatch, ReceiveEvent, SkipLagged, LoadFails, BeginDrain, Drain, Cancel, Finished,
         OpenSubscription, YieldNext, EndLagged, CloseSubscription, vars, consumers, hookVars

-----------------------------------------------------------------------------
(* The theorems.                                                           *)

\* A process that starts has nothing on its way and nothing dispatched.
LEMMA FanoutInit == Init => FanoutInv
<1> SUFFICES ASSUME Init PROVE FanoutInv
  OBVIOUS
<1>1. TypeOK
  BY TypeInit
<1>2. /\ wire = <<>> /\ listener.chans = {} /\ sent = <<>> /\ published = 0
      /\ \A e \in Events : missed[e] = NULL
      /\ dispatcher.event = NULL /\ dispatcher.loaded = {} /\ dispatcher.next = 1
      /\ flying = {} /\ \A d \in Deliveries : posted[d] = 0
      /\ \A w \in Hooks : hooks[w] = "absent" /\ silentFrom[w] = NULL
      /\ \A s \in Subs : subs[s].at = "closed"
  BY DEF Init, wire, Listener, Receiver, Deliveries
<1>3. Offline /\ OrderInv
  <2>1. 1 .. Len(sent) = {} /\ 1 .. Len(wire) = {}
    BY <1>2, EmptyInOrder
  <2> QED
    BY <1>2, <2>1, EmptyInOrder DEF Offline, OrderInv, wire
<1>4. StreamHasNoGap
  BY <1>2, Zenon DEF StreamHasNoGap
<1>5. AccountInv
  <2> SUFFICES ASSUME NEW e \in Events PROVE Accounted(e)
    BY <1>1, AccountMeans
  <2>1. ~Lost(e) /\ ~OnWire(e) /\ ~Loading(e) /\ ~Loaded(e)
    BY <1>2, EmptyInOrder, EventsAreNat, FanoutConstants DEF Lost, OnWire, Loading, Loaded, wire
  <2>2. ~InRing(e)
    <3>1. dispatcher.next .. Len(sent) = {}
      BY <1>2, EmptyInOrder
    <3> QED
      BY <3>1 DEF InRing
  <2>3. ~(e <= published)
    BY <1>2, FanoutConstants DEF Events
  <2> QED
    BY <2>1, <2>2, <2>3, Zenon DEF Accounted
<1>6. HookInv
  <2>1. AtMostOnePost
    BY <1>2 DEF AtMostOnePost
  <2>2. DeletedHookSilent
    BY <1>2, Zenon DEF DeletedHookSilent
  <2> QED
    BY <1>2, <2>1, <2>2 DEF HookInv, HookContract
<1> QED
  BY <1>1, <1>3, <1>4, <1>5, <1>6, Zenon DEF FanoutInv

\* The invariant holds throughout.
LEMMA FanoutAlways == Spec => []FanoutInv
<1>1. FanoutInv /\ [Next]_vars => FanoutInv'
  BY TypeStep, OfflineStep, OrderStep, StreamStep, AccountStep, HookStep, Zenon DEF FanoutInv
<1> QED
  BY FanoutInit, <1>1, PTL DEF Spec

\* For any messages, ring, subscriptions and failures of Redis: the listener
\* broadcasts in the published order and never twice, and a subscription has
\* yielded exactly the matching events since its start (run_event_listener,
\* blocks_latest and cells).
THEOREM StreamsAreFaithful == Spec => []StreamIsFaithful
<1>1. FanoutInv => StreamIsFaithful
  BY Zenon DEF FanoutInv, OrderInv, StreamIsFaithful, ForwardedInOrder
<1> QED
  BY FanoutAlways, <1>1, PTL

\* For any sizes: every published event is in exactly one place on its way to
\* the webhooks or lost for one reason (run_event_listener, run_webhook_dispatcher).
THEOREM EventsAreAccounted == Spec => []EventAccounted
<1>1. FanoutInv => EventAccounted
  BY Zenon DEF FanoutInv, AccountInv
<1> QED
  BY FanoutAlways, <1>1, PTL

\* For any rows and events: at most one POST of an event to a webhook, and after
\* its deletion only of events that were already taken (dispatch, deliver).
THEOREM HooksGetTheirDue == Spec => []HookContract
<1>1. FanoutInv => HookContract
  BY Zenon DEF FanoutInv, HookInv
<1> QED
  BY FanoutAlways, <1>1, PTL
=============================================================================
