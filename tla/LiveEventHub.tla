--------------------------- MODULE LiveEventHub ---------------------------
(***************************************************************************)
(* The web tier's live event hub (Web/Services/LiveEventHub.cs), the Redis *)
(* subscription that feeds it (Eddn/Storage/EventSubscriber.cs) and the    *)
(* SSE endpoint that reads from it (Web/Endpoints/StreamEndpoint.cs), in   *)
(* one pod.                                                                *)
(*                                                                         *)
(* An event, and the frame rendered from it, is its place in the order of  *)
(* publication.  A client is one request on /api/stream.                   *)
(***************************************************************************)
EXTENDS Integers, Sequences

CONSTANTS
  Clients,               \* requests; one that has ended may be used again
  ClientQueueCapacity,   \* 100 in the code
  RecentEventCapacity,   \* 40 in the code
  MaxEvents              \* bound: events published

ASSUME HubAssumption ==
  /\ ClientQueueCapacity \in Nat \ {0}
  /\ RecentEventCapacity \in Nat \ {0}
  /\ MaxEvents \in Nat

VARIABLES
  published,     \* how many events the consumers have published
  connecting,    \* ConnectAsync: "subscribing", "delay" or "done"
  stopping,      \* StopAsync: "no", "cancelled", "disposed", "done" or "failed"
  subscribed,    \* the subscription to the Redis channel
  inbox,         \* messages received and not handled yet, oldest first
  handling,      \* OnEventAsync: the event being rendered, 0 for none
  fanout,        \* OnEventAsync: the frame in _recent that is yet to be fanned out, 0 for none
  recent,        \* _recent, oldest first
  targets,       \* the clients the running fan-out has still to write to
  clients,       \* _clients
  queue,         \* the channel of each client, oldest first
  completed,     \* the clients whose channel StopAsync has completed
  log,           \* history: the frames fanned out so far
  position,      \* history: for each client the place in log after the last frame it read
  lastRead       \* history: the last frame each client read, 0 for none

Events == 1 .. MaxEvents

connectVars == <<connecting, stopping, subscribed>>
handlerVars == <<inbox, handling, fanout, recent, targets, log>>
clientVars == <<clients, queue, completed, position, lastRead>>
hubVars == <<published, connectVars, handlerVars, clientVars>>

HubInit ==
  /\ published = 0
  /\ connecting = "subscribing" /\ stopping = "no" /\ subscribed = FALSE
  /\ inbox = <<>> /\ handling = 0 /\ fanout = 0
  /\ recent = <<>> /\ targets = {} /\ log = <<>>
  /\ clients = {} /\ completed = {}
  /\ queue = [c \in Clients |-> <<>>]
  /\ position = [c \in Clients |-> 1]
  /\ lastRead = [c \in Clients |-> 0]

\* A bounded queue that drops its oldest entry when it is full.
Pushed(s, e, capacity) ==
  IF Len(s) < capacity THEN Append(s, e) ELSE Append(Tail(s), e)

-----------------------------------------------------------------------------
(* The subscription: ConnectAsync and StopAsync. *)

SubscribeSucceeds ==
  /\ connecting = "subscribing"
  /\ connecting' = "done"
  /\ subscribed' = TRUE
  /\ UNCHANGED <<published, stopping, handlerVars, clientVars>>

\* Mutant: the first refusal ends the loop.
SubscribeFailsForGood ==
  /\ connecting = "subscribing"
  /\ connecting' = "done"
  /\ UNCHANGED <<published, stopping, subscribed, handlerVars, clientVars>>

\* After a failure a cancelled token ends the delay, and with it the loop, at once.
SubscribeFails ==
  /\ connecting = "subscribing"
  /\ connecting' = IF stopping = "no" THEN "delay" ELSE "done"
  /\ UNCHANGED <<published, stopping, subscribed, handlerVars, clientVars>>

DelayEnds ==
  /\ connecting = "delay"
  /\ connecting' = IF stopping = "no" THEN "subscribing" ELSE "done"
  /\ UNCHANGED <<published, stopping, subscribed, handlerVars, clientVars>>

CancelStopping ==
  /\ stopping = "no"
  /\ stopping' = "cancelled"
  /\ UNCHANGED <<published, connecting, subscribed, handlerVars, clientVars>>

\* Mutant: StopAsync does not await the connect task.
DisposeWithoutAwait ==
  /\ stopping = "cancelled"
  /\ stopping' = "disposed"
  /\ subscribed' = FALSE
  /\ UNCHANGED <<published, connecting, handlerVars, clientVars>>

\* StopAsync awaits ConnectAsync before it looks at the subscription.
DisposeSubscription ==
  /\ stopping = "cancelled"
  /\ connecting = "done"
  /\ stopping' = "disposed"
  /\ subscribed' = FALSE
  /\ UNCHANGED <<published, connecting, handlerVars, clientVars>>

\* The unsubscribe throws, and StopAsync ends without completing the clients.
DisposeFails ==
  /\ stopping = "cancelled"
  /\ connecting = "done"
  /\ subscribed
  /\ stopping' = "failed"
  /\ subscribed' \in BOOLEAN
  /\ UNCHANGED <<published, connecting, handlerVars, clientVars>>

\* The host disposes the hub, which tries once more what StopAsync left.
DisposeAsync ==
  /\ stopping = "failed"
  /\ subscribed
  /\ subscribed' = FALSE
  /\ UNCHANGED <<published, connecting, stopping, handlerVars, clientVars>>

CompleteClients ==
  /\ stopping = "disposed"
  /\ stopping' = "done"
  /\ completed' = clients
  /\ UNCHANGED <<published, connecting, subscribed, handlerVars,
                 clients, queue, position, lastRead>>

-----------------------------------------------------------------------------
(* Events: publication, the sequential OnMessage loop, and OnEventAsync. *)

\* Redis pub/sub keeps nothing: an event published while the hub is not
\* subscribed, or while its connection is broken, is lost to it.
PublishEvent ==
  /\ published < MaxEvents
  /\ published' = published + 1
  /\ \/ subscribed /\ inbox' = Append(inbox, published')
     \/ UNCHANGED inbox
  /\ UNCHANGED <<connectVars, handling, fanout, recent, targets, log, clientVars>>

HandlerIdle == handling = 0 /\ fanout = 0 /\ targets = {}

\* Mutant: messages are handled in any order.
TakeMessageOutOfOrder ==
  /\ HandlerIdle
  /\ \E i \in DOMAIN inbox :
       /\ handling' = inbox[i]
       /\ inbox' = SubSeq(inbox, 1, i - 1) \o SubSeq(inbox, i + 1, Len(inbox))
  /\ UNCHANGED <<published, connectVars, fanout, recent, targets, log, clientVars>>

\* The next message is taken when the callback for the one before has returned.
TakeMessage ==
  /\ HandlerIdle
  /\ inbox # <<>>
  /\ handling' = Head(inbox)
  /\ inbox' = Tail(inbox)
  /\ UNCHANGED <<published, connectVars, fanout, recent, targets, log, clientVars>>

\* A frame that does not parse, or an event that does not render, is dropped.
DiscardEvent ==
  /\ handling # 0
  /\ handling' = 0
  /\ UNCHANGED <<published, connectVars, inbox, fanout, recent, targets, log, clientVars>>

EnqueueRecent ==
  /\ handling # 0
  /\ handling' = 0
  /\ fanout' = handling
  /\ recent' = Pushed(recent, handling, RecentEventCapacity)
  /\ UNCHANGED <<published, connectVars, inbox, targets, log, clientVars>>

\* Enumerating _clients.Values takes a snapshot of the clients.
BeginFanOut ==
  /\ fanout # 0
  /\ fanout' = 0
  /\ log' = Append(log, fanout)
  /\ targets' = clients
  /\ UNCHANGED <<published, connectVars, inbox, handling, recent, clientVars>>

\* Mutant: a full channel drops what is written to it (DropWrite).
WriteToUnlessFull(c) ==
  /\ c \in targets
  /\ targets' = targets \ {c}
  /\ queue' = IF c \in completed \/ Len(queue[c]) = ClientQueueCapacity THEN queue
              ELSE [queue EXCEPT ![c] = Append(@, log[Len(log)])]
  /\ UNCHANGED <<published, connectVars, inbox, handling, fanout, recent, log,
                 clients, completed, position, lastRead>>

\* TryWrite, which a completed channel refuses.
WriteTo(c) ==
  /\ c \in targets
  /\ targets' = targets \ {c}
  /\ queue' = IF c \in completed THEN queue
              ELSE [queue EXCEPT ![c] = Pushed(@, log[Len(log)], ClientQueueCapacity)]
  /\ UNCHANGED <<published, connectVars, inbox, handling, fanout, recent, log,
                 clients, completed, position, lastRead>>

-----------------------------------------------------------------------------
(* The endpoint. *)

SubscribeClient(c) ==
  /\ c \notin clients
  /\ clients' = clients \cup {c}
  /\ position' = [position EXCEPT ![c] = Len(log) + 1]
  /\ UNCHANGED <<published, connectVars, handlerVars, queue, completed, lastRead>>

\* Mutant: the last frame of a queue is left until another follows.
ReadFrameButLast(c) ==
  /\ c \in clients
  /\ Len(queue[c]) > 1
  /\ queue' = [queue EXCEPT ![c] = Tail(@)]
  /\ lastRead' = [lastRead EXCEPT ![c] = Head(queue[c])]
  /\ position' = [position EXCEPT ![c] =
       (CHOOSE i \in 1 .. Len(log) : log[i] = Head(queue[c])) + 1]
  /\ UNCHANGED <<published, connectVars, handlerVars, clients, completed>>

\* The loop around TryRead: one frame is taken and written to the response.
\* What the loop does between frames is in LiveTicker.
ReadFrame(c) ==
  /\ c \in clients
  /\ queue[c] # <<>>
  /\ queue' = [queue EXCEPT ![c] = Tail(@)]
  /\ lastRead' = [lastRead EXCEPT ![c] = Head(queue[c])]
  /\ position' = [position EXCEPT ![c] =
       (CHOOSE i \in 1 .. Len(log) : log[i] = Head(queue[c])) + 1]
  /\ UNCHANGED <<published, connectVars, handlerVars, clients, completed>>

\* The request ends and the subscription is disposed.  A write that a running
\* fan-out still makes goes to a channel nobody reads.
Unsubscribe(c) ==
  /\ c \in clients
  /\ clients' = clients \ {c}
  /\ targets' = targets \ {c}
  /\ completed' = completed \ {c}
  /\ queue' = [queue EXCEPT ![c] = <<>>]
  /\ position' = [position EXCEPT ![c] = 1]
  /\ lastRead' = [lastRead EXCEPT ![c] = 0]
  /\ UNCHANGED <<published, connectVars, inbox, handling, fanout, recent, log>>

-----------------------------------------------------------------------------
ServerNext ==
  \/ SubscribeSucceeds \/ SubscribeFails \/ DelayEnds
  \/ CancelStopping \/ DisposeSubscription \/ DisposeFails \/ DisposeAsync
  \/ CompleteClients
  \/ PublishEvent \/ TakeMessage \/ DiscardEvent \/ EnqueueRecent \/ BeginFanOut
  \/ \E c \in Clients : WriteTo(c)

HubNext ==
  \/ ServerNext
  \/ \E c \in Clients : SubscribeClient(c) \/ ReadFrame(c) \/ Unsubscribe(c)

HubSpec == HubInit /\ [][HubNext]_hubVars

-----------------------------------------------------------------------------
(* Properties. *)

Feed == INSTANCE LossyFeed WITH
  Capacity <- ClientQueueCapacity,
  attached <- clients,
  next <- position,
  last <- lastRead

\* "ticker order should match publish order" (EventSubscriber.cs) and "A client
\* that can't keep up drops its oldest pending rows" (LiveEventHub.cs): behind
\* the sequential handler, the snapshot of the clients and the bounded channels
\* every client is given a feed in publish order, from its subscription on,
\* without repetition, and with gaps only where it was a full queue behind.
ImplementsLossyFeed == Feed!FeedSpec

\* "A client that can't keep up drops its oldest pending rows": the newest frame
\* is never what is dropped.  Whoever the fan-out has finished with has the
\* newest frame at the end of its queue, or has read everything.
NewestNeverDropped ==
  \A c \in clients \ (targets \cup completed) :
    IF queue[c] = <<>> THEN position[c] = Len(log) + 1
    ELSE queue[c][Len(queue[c])] = log[Len(log)]

\* Once StopAsync has disposed the subscription none is left behind: not one
\* that ConnectAsync was establishing while the token was cancelled either.
StoppedIsUnsubscribed == stopping \in {"disposed", "done"} => ~subscribed
=============================================================================
