----------------------------- MODULE EventFanout -----------------------------
(***************************************************************************)
(* From the indexer's PUBLISH to the consumers of one API process:         *)
(* run_event_listener (crates/api/src/events.rs) subscribes to Redis and   *)
(* forwards to a tokio broadcast channel; the GraphQL subscriptions of     *)
(* crates/api/src/graphql.rs and the webhook dispatcher of                 *)
(* crates/api/src/webhooks.rs each hold a receiver of that channel.        *)
(*                                                                         *)
(* Event n is the n-th message the indexer publishes; Message gives its    *)
(* channel and, for a cell, its lock hash.  sent is the history of the     *)
(* broadcast channel, of which the ring keeps the last Capacity.  missed   *)
(* is a history variable: why an event never reached load_webhooks.        *)
(***************************************************************************)
EXTENDS Integers, Sequences, Functions, Null

CONSTANTS Message, Last,          \* messages 1 .. Last, Last is a bound
          Subs, Wants,            \* GraphQL subscriptions and what each asks for
          Hooks, HookEvents,      \* webhook rows and their events column
          Capacity,               \* of broadcast::channel
          MaxBackoff,
          MaxFaults               \* bound on Redis, Postgres and delivery failures

\* Why an event never reached the webhooks.
Reasons == {"unpublished", "unsubscribed", "unheard", "dropped", "lagged", "load_failed"}

ASSUME FanoutConstants ==
  /\ Last \in Nat /\ Capacity \in Nat \ {0}
  /\ MaxBackoff \in Nat \ {0} /\ MaxFaults \in Nat
  /\ NULL \notin Nat /\ NULL \notin Reasons

Events == 1 .. Last
Channels == {"cellora:blocks", "cellora:cells", "cellora:reorg"}

VARIABLES published, missed, listener, sent, subs, dispatcher,
          hooks, silentFrom, flying, posted, cancelled, faults

vars == <<published, missed, listener, sent, subs, dispatcher,
          hooks, silentFrom, flying, posted, cancelled, faults>>

consumers == <<subs, dispatcher, hooks, silentFrom, flying, posted>>

Listener(at, chans, wire, backoff) ==
  [at |-> at, chans |-> chans, wire |-> wire, backoff |-> backoff]

Receiver(at, next, from, got) == [at |-> at, next |-> next, from |-> from, got |-> got]

\* silentFrom[w] is the number of events the dispatcher had taken from the
\* channel when row w was deleted.
Init ==
  /\ published = 0 /\ faults = 0 /\ cancelled = FALSE
  /\ missed = [e \in Events |-> NULL]
  /\ listener = Listener("connect", {}, <<>>, 1)
  /\ sent = <<>>
  /\ subs = [s \in Subs |-> Receiver("closed", 1, 1, <<>>)]
  /\ dispatcher = [at |-> "select", next |-> 1, event |-> NULL, loaded |-> {}]
  /\ hooks = [w \in Hooks |-> "absent"] /\ silentFrom = [w \in Hooks |-> NULL]
  /\ flying = {} /\ posted = [d \in Hooks \X Events |-> 0]

Fault == faults < MaxFaults /\ faults' = faults + 1
Lose(lost, why) == missed' = [e \in Events |-> IF e \in lost THEN why ELSE missed[e]]

-----------------------------------------------------------------------------
(* The indexer's publisher and Redis.                                      *)

\* Redis delivers to the connections subscribed at this moment, and keeps nothing.
Publish ==
  LET e == published + 1 IN
  /\ published < Last
  /\ published' = e
  /\ \/ /\ Message[e].channel \in listener.chans
        /\ listener' = [listener EXCEPT !.wire = Append(@, e)]
        /\ UNCHANGED missed
     \/ /\ Message[e].channel \notin listener.chans
        /\ Lose({e}, IF listener.at = "listen" THEN "unheard" ELSE "unsubscribed")
        /\ UNCHANGED listener
  /\ UNCHANGED <<sent, consumers, cancelled, faults>>

\* The PUBLISH fails; the indexer logs it and goes on.
PublishFails ==
  /\ published < Last
  /\ Fault
  /\ published' = published + 1
  /\ Lose({published + 1}, "unpublished")
  /\ UNCHANGED <<listener, sent, consumers, cancelled>>

-----------------------------------------------------------------------------
(* run_event_listener.                                                     *)

NextBackoff(b) == IF 2 * b < MaxBackoff THEN 2 * b ELSE MaxBackoff

Connect ==
  /\ listener.at = "connect"
  /\ listener' = [listener EXCEPT !.at = "sub_blocks"]
  /\ UNCHANGED <<published, missed, sent, consumers, cancelled, faults>>

ConnectFails ==
  /\ listener.at = "connect"
  /\ Fault
  /\ listener' = [listener EXCEPT !.at = "backoff"]
  /\ UNCHANGED <<published, missed, sent, consumers, cancelled>>

BackedOff ==
  /\ listener.at = "backoff"
  /\ listener' = Listener("connect", {}, <<>>, NextBackoff(listener.backoff))
  /\ UNCHANGED <<published, missed, sent, consumers, cancelled, faults>>

SubscribeBlocks ==
  /\ listener.at = "sub_blocks"
  /\ listener' = [listener EXCEPT !.at = "sub_cells", !.chans = {"cellora:blocks"}]
  /\ UNCHANGED <<published, missed, sent, consumers, cancelled, faults>>

SubscribeCells ==
  /\ listener.at = "sub_cells"
  /\ listener' = [listener EXCEPT !.at = "listen", !.chans = @ \cup {"cellora:cells"},
                                  !.backoff = 1]
  /\ UNCHANGED <<published, missed, sent, consumers, cancelled, faults>>

\* A SUBSCRIBE is refused: the connection is dropped with what it buffered,
\* and the listener sleeps for a second without watching for shutdown.
SubscribeFails ==
  /\ listener.at \in {"sub_blocks", "sub_cells"}
  /\ listener' = Listener("pause", {}, <<>>, listener.backoff)
  /\ Lose(Range(listener.wire), "dropped")
  /\ Fault
  /\ UNCHANGED <<published, sent, consumers, cancelled>>

Paused ==
  /\ listener.at = "pause"
  /\ listener' = [listener EXCEPT !.at = "connect"]
  /\ UNCHANGED <<published, missed, sent, consumers, cancelled, faults>>

\* tx.send: the oldest event leaves a full ring.
Forward ==
  /\ listener.at = "listen" /\ listener.wire # <<>>
  /\ sent' = Append(sent, Head(listener.wire))
  /\ listener' = [listener EXCEPT !.wire = Tail(@)]
  /\ UNCHANGED <<published, missed, consumers, cancelled, faults>>

\* The connection breaks; what was on its way is gone.
ConnectionLost ==
  /\ listener.at = "listen"
  /\ Fault
  /\ listener' = Listener("connect", {}, <<>>, listener.backoff)
  /\ Lose(Range(listener.wire), "dropped")
  /\ UNCHANGED <<published, sent, consumers, cancelled>>

StopListener ==
  /\ listener.at \in {"backoff", "listen"}
  /\ cancelled
  /\ listener' = Listener("done", {}, <<>>, listener.backoff)
  /\ Lose(Range(listener.wire), "dropped")
  /\ UNCHANGED <<published, sent, consumers, cancelled, faults>>

-----------------------------------------------------------------------------
(* Receivers of the broadcast channel.                                     *)

Oldest == IF Len(sent) > Capacity THEN Len(sent) - Capacity + 1 ELSE 1
Lagging(next) == next < Oldest
Waiting(next) == Oldest <= next /\ next <= Len(sent)

EventType(e) == IF Message[e].channel = "cellora:blocks" THEN "block_mined" ELSE "cell_created"

\* publish_block_and_cells encodes a hash as hex without the 0x prefix.
Encoded(hash) == <<"bare", hash>>

\* The filter of blocks_latest and of cells(lock_hash).
Matches(s, e) ==
  /\ EventType(e) = Wants[s].type
  /\ Wants[s].type = "cell_created" => Encoded(Message[e].lock) = Wants[s].lock

OpenSubscription(s) ==
  /\ subs[s].at = "closed" /\ ~cancelled
  /\ subs' = [subs EXCEPT ![s] = Receiver("open", Len(sent) + 1, Len(sent) + 1, <<>>)]
  /\ UNCHANGED <<published, missed, listener, sent, dispatcher, hooks, silentFrom,
                 flying, posted, cancelled, faults>>

YieldNext(s) ==
  LET e == sent[subs[s].next] IN
  /\ subs[s].at = "open" /\ Waiting(subs[s].next)
  /\ subs' = [subs EXCEPT ![s] = Receiver("open", @.next + 1, @.from,
                                          IF Matches(s, e) THEN Append(@.got, e) ELSE @.got)]
  /\ UNCHANGED <<published, missed, listener, sent, dispatcher, hooks, silentFrom,
                 flying, posted, cancelled, faults>>

\* The stream skips over the gap, as the dispatcher does.
EndLagged_Skip(s) ==
  /\ subs[s].at = "open" /\ Lagging(subs[s].next)
  /\ subs' = [subs EXCEPT ![s].next = Oldest]
  /\ UNCHANGED <<published, missed, listener, sent, dispatcher, hooks, silentFrom,
                 flying, posted, cancelled, faults>>

\* while let Ok(event) = rx.recv(): Lagged ends the stream.
EndLagged(s) ==
  /\ subs[s].at = "open" /\ Lagging(subs[s].next)
  /\ subs' = [subs EXCEPT ![s].at = "ended"]
  /\ UNCHANGED <<published, missed, listener, sent, dispatcher, hooks, silentFrom,
                 flying, posted, cancelled, faults>>

\* The client goes away; it may subscribe again.
CloseSubscription(s) ==
  /\ subs[s].at \in {"open", "ended"}
  /\ subs' = [subs EXCEPT ![s] = Receiver("closed", 1, 1, <<>>)]
  /\ UNCHANGED <<published, missed, listener, sent, dispatcher, hooks, silentFrom,
                 flying, posted, cancelled, faults>>

-----------------------------------------------------------------------------
(* Webhook rows (crates/api/src/routes/webhooks.rs).                       *)

hookVars == <<hooks, silentFrom>>

CreateWebhook(w) ==
  /\ hooks[w] = "absent" /\ HookEvents[w] # {}
  /\ hooks' = [hooks EXCEPT ![w] = "live"]
  /\ UNCHANGED <<published, missed, listener, sent, subs, dispatcher, silentFrom,
                 flying, posted, cancelled, faults>>

\* DELETE ... WHERE id = $1 AND user_id = $2, by the row's owner; for anybody else
\* it finds no row, answers 404 and changes nothing.
DeleteWebhook(w) ==
  /\ hooks[w] = "live"
  /\ hooks' = [hooks EXCEPT ![w] = "deleted"]
  /\ silentFrom' = [silentFrom EXCEPT ![w] = dispatcher.next - 1]
  /\ UNCHANGED <<published, missed, listener, sent, subs, dispatcher,
                 flying, posted, cancelled, faults>>

-----------------------------------------------------------------------------
(* run_webhook_dispatcher.                                                 *)

ReceiveEvent ==
  /\ dispatcher.at = "select" /\ Waiting(dispatcher.next)
  /\ dispatcher' = [dispatcher EXCEPT !.at = "load", !.next = @ + 1,
                                      !.event = sent[dispatcher.next]]
  /\ UNCHANGED <<published, missed, listener, sent, subs, hookVars,
                 flying, posted, cancelled, faults>>

\* Lagged: the receiver jumps to the newest event.
SkipTo_Newest == Len(sent)

\* Lagged: the receiver resumes at the oldest event the ring still has.
SkipTo == Oldest

SkipLagged ==
  /\ dispatcher.at = "select" /\ Lagging(dispatcher.next)
  /\ dispatcher' = [dispatcher EXCEPT !.next = SkipTo]
  /\ Lose({sent[i] : i \in dispatcher.next .. Oldest - 1}, "lagged")
  /\ UNCHANGED <<published, listener, sent, subs, hookVars,
                 flying, posted, cancelled, faults>>

\* The rows are cached in memory and a deleted one is not dropped.
LoadWebhooks_Cached(e) == {w \in Hooks : hooks[w] # "absent" /\ EventType(e) \in HookEvents[w]}

\* SELECT ... WHERE $1 = ANY(events), over the rows of every user.
LoadWebhooks(e) == {w \in Hooks : hooks[w] = "live" /\ EventType(e) \in HookEvents[w]}

\* The rows arrive and a delivery is spawned for each.
DispatchWebhooks ==
  /\ dispatcher.at = "load"
  /\ flying' = flying \cup (LoadWebhooks(dispatcher.event) \X {dispatcher.event})
  /\ dispatcher' = [dispatcher EXCEPT !.at = "select", !.event = NULL,
                                      !.loaded = @ \cup {dispatcher.event}]
  /\ UNCHANGED <<published, missed, listener, sent, subs, hookVars,
                 posted, cancelled, faults>>

LoadFails ==
  /\ dispatcher.at = "load"
  /\ Fault
  /\ Lose({dispatcher.event}, "load_failed")
  /\ dispatcher' = [dispatcher EXCEPT !.at = "select", !.event = NULL]
  /\ UNCHANGED <<published, listener, sent, subs, hookVars, flying, posted, cancelled>>

\* One POST, whatever its answer.  A delivery that outlasts the drain runs on
\* until the process is gone.
Deliver(d) ==
  /\ d \in flying
  /\ flying' = flying \ {d}
  /\ posted' = [posted EXCEPT ![d] = @ + 1]
  /\ UNCHANGED <<published, missed, listener, sent, subs, dispatcher, hookVars,
                 cancelled, faults>>

\* The POST arrives but its answer does not; the error is logged.
DeliverUnanswered(d) ==
  /\ d \in flying
  /\ Fault
  /\ flying' = flying \ {d}
  /\ posted' = [posted EXCEPT ![d] = @ + 1]
  /\ UNCHANGED <<published, missed, listener, sent, subs, dispatcher, hookVars, cancelled>>

\* The client cannot be built for the URL, or the POST does not arrive.
DeliverFails(d) ==
  /\ d \in flying
  /\ Fault
  /\ flying' = flying \ {d}
  /\ UNCHANGED <<published, missed, listener, sent, subs, dispatcher, hookVars,
                 posted, cancelled>>

BeginDrain ==
  /\ dispatcher.at = "select" /\ cancelled
  /\ dispatcher' = [dispatcher EXCEPT !.at = "drain"]
  /\ UNCHANGED <<published, missed, listener, sent, subs, hookVars,
                 flying, posted, cancelled, faults>>

\* The wait for outstanding deliveries has no time limit.
Drain_NoTimeout ==
  /\ dispatcher.at = "drain" /\ flying = {}
  /\ dispatcher' = [dispatcher EXCEPT !.at = "done"]
  /\ UNCHANGED <<published, missed, listener, sent, subs, hookVars,
                 flying, posted, cancelled, faults>>

\* tracker.wait() returns, or SHUTDOWN_DRAIN_TIMEOUT passes first.
Drain ==
  /\ dispatcher.at = "drain"
  /\ dispatcher' = [dispatcher EXCEPT !.at = "done"]
  /\ UNCHANGED <<published, missed, listener, sent, subs, hookVars,
                 flying, posted, cancelled, faults>>

\* main: cancel.cancel() once the server has stopped.
Cancel ==
  /\ ~cancelled
  /\ cancelled' = TRUE
  /\ UNCHANGED <<published, missed, listener, sent, consumers, faults>>

\* Both tasks have ended, and the indexer has published all the messages of the
\* instance.
Finished ==
  /\ listener.at = "done" /\ dispatcher.at = "done" /\ published = Last
  /\ UNCHANGED vars

Listen ==
  Connect \/ ConnectFails \/ BackedOff \/ SubscribeBlocks \/ SubscribeCells
  \/ SubscribeFails \/ Paused \/ Forward \/ ConnectionLost \/ StopListener

Dispatch == ReceiveEvent \/ SkipLagged \/ DispatchWebhooks \/ LoadFails \/ BeginDrain \/ Drain

Next ==
  \/ Publish \/ PublishFails \/ Listen \/ Dispatch \/ Cancel \/ Finished
  \/ \E s \in Subs : OpenSubscription(s) \/ YieldNext(s) \/ EndLagged(s) \/ CloseSubscription(s)
  \/ \E w \in Hooks : CreateWebhook(w) \/ DeleteWebhook(w)
  \/ \E d \in flying : Deliver(d) \/ DeliverUnanswered(d) \/ DeliverFails(d)

Spec == Init /\ [][Next]_vars

\* Both tasks run; a query and a SUBSCRIBE end one way or the other.  Nothing
\* is assumed of deliveries, whose DNS lookup has no time limit.
FairSpec == Spec /\ WF_vars(Listen) /\ WF_vars(Dispatch)

-----------------------------------------------------------------------------
(* Properties.                                                             *)

Deliveries == Hooks \X Events

ListenerType ==
  [at : {"connect", "backoff", "sub_blocks", "sub_cells", "pause", "listen", "done"},
   chans : SUBSET Channels, wire : Seq(Events), backoff : 1 .. MaxBackoff]
ReceiverType ==
  [at : {"closed", "open", "ended"}, next : Nat \ {0}, from : Nat \ {0}, got : Seq(Events)]
DispatcherType ==
  [at : {"select", "load", "drain", "done"}, next : Nat \ {0}, event : Events \cup {NULL},
   loaded : SUBSET Events]

\* No receiver is past the next event to be broadcast, and the dispatcher holds
\* an event while it loads the rows for it.
WithinSent ==
  /\ \A s \in Subs : subs[s].from <= subs[s].next /\ subs[s].next <= Len(sent) + 1
  /\ dispatcher.next <= Len(sent) + 1
  /\ dispatcher.event # NULL <=> dispatcher.at = "load"

\* Type invariant: the listener's back-off stays within its cap, and a receiver
\* never reads past what was broadcast.
TypeOK ==
  /\ published \in 0 .. Last /\ faults \in 0 .. MaxFaults /\ cancelled \in BOOLEAN
  /\ missed \in [Events -> {NULL} \cup Reasons]
  /\ listener \in ListenerType /\ sent \in Seq(Events)
  /\ subs \in [Subs -> ReceiverType] /\ dispatcher \in DispatcherType
  /\ WithinSent
  /\ hooks \in [Hooks -> {"absent", "live", "deleted"}]
  /\ silentFrom \in [Hooks -> Nat \cup {NULL}]
  /\ flying \subseteq Deliveries /\ posted \in [Deliveries -> Nat]

Increasing(q) == \A i, j \in 1 .. Len(q) : i < j => q[i] < q[j]

\* Through lost connections and reconnects, the listener broadcasts events in
\* the order the indexer published them and never one twice: a cell's event
\* does not overtake its block's.
ForwardedInOrder == Increasing(sent)

\* A GraphQL subscription has yielded every matching event that was broadcast
\* between its start and the point it has read to, each once, in order, and no
\* other: falling behind the ring ends the stream, it never leaves a hole in it.
StreamHasNoGap ==
  \A s \in Subs :
    subs[s].at # "closed" =>
      /\ Increasing(subs[s].got)
      /\ Range(subs[s].got) =
           {e \in {sent[i] : i \in subs[s].from .. subs[s].next - 1} : Matches(s, e)}

\* What a subscriber sees, end to end: the published order, from run_event_listener
\* through the ring to the stream, with no hole.
StreamIsFaithful == ForwardedInOrder /\ StreamHasNoGap

OnWire(e) == e \in Range(listener.wire)
InRing(e) == \E i \in dispatcher.next .. Len(sent) : sent[i] = e
PlaceNames == {"missed", "wire", "ring", "loading", "loaded"}
Places(e) == {p \in PlaceNames : \/ p = "missed" /\ missed[e] # NULL
                                 \/ p = "wire" /\ OnWire(e)
                                 \/ p = "ring" /\ InRing(e)
                                 \/ p = "loading" /\ dispatcher.event = e
                                 \/ p = "loaded" /\ e \in dispatcher.loaded}

\* Every published event is in exactly one place on the way to the webhooks,
\* or was lost for a reason the code logs or Redis pub/sub implies; the
\* dispatcher's resumption after a lag loses only what the ring overwrote.
EventAccounted == \A e \in 1 .. published : \E p \in PlaceNames : Places(e) = {p}

\* One process posts an event to a webhook at most once, whatever becomes of
\* the answer.
AtMostOnePost == \A d \in Deliveries : posted[d] + (IF d \in flying THEN 1 ELSE 0) <= 1

\* A deleted webhook is posted only events the dispatcher had already taken
\* from the channel when the row was deleted.
DeletedHookSilent ==
  \A w \in Hooks, e \in Events :
    (silentFrom[w] # NULL /\ (posted[<<w, e>>] > 0 \/ <<w, e>> \in flying)) =>
      \E i \in 1 .. silentFrom[w] : sent[i] = e

\* What the owner of a webhook may count on: no event twice, and silence after a
\* deletion but for what dispatch had in hand (webhooks.rs dispatch, deliver).
HookContract == AtMostOnePost /\ DeletedHookSilent

\* After shutdown is requested both tasks end, with deliveries that never
\* return, with Redis down and in the middle of a reconnect.
TasksStop == cancelled ~> (listener.at = "done" /\ dispatcher.at = "done")

-----------------------------------------------------------------------------
(* Inductive invariants.                                                   *)

\* Without a connection nothing is on its way.
Offline ==
  listener.at \notin {"sub_cells", "listen"} => listener.chans = {} /\ listener.wire = <<>>

\* The connection holds later events than the channel, and neither an event
\* that was not published.
OrderInv ==
  /\ Increasing(sent) /\ Increasing(listener.wire)
  /\ \A i \in 1 .. Len(sent) : sent[i] <= published
  /\ \A j \in 1 .. Len(listener.wire) : listener.wire[j] <= published
  /\ \A i \in 1 .. Len(sent), j \in 1 .. Len(listener.wire) : sent[i] < listener.wire[j]

\* What the dispatcher holds or has dispatched it took from the channel.
AccountInv ==
  /\ EventAccounted
  /\ \A e \in Events : e > published => Places(e) = {}
  /\ \A e \in Events : e = dispatcher.event \/ e \in dispatcher.loaded =>
       \E i \in 1 .. dispatcher.next - 1 : sent[i] = e

\* Deliveries are of dispatched events only.
HookInv ==
  /\ HookContract
  /\ \A d \in Deliveries : posted[d] > 0 \/ d \in flying => d[2] \in dispatcher.loaded
  /\ \A w \in Hooks : /\ silentFrom[w] # NULL <=> hooks[w] = "deleted"
                      /\ silentFrom[w] # NULL => silentFrom[w] < dispatcher.next

FanoutInv == TypeOK /\ Offline /\ OrderInv /\ StreamHasNoGap /\ AccountInv /\ HookInv

=============================================================================
