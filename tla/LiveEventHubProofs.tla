------------------------ MODULE LiveEventHubProofs ------------------------
(***************************************************************************)
(* LiveEventHub implements LossyFeed for any number of clients and events  *)
(* and any capacities.                                                     *)
(***************************************************************************)
EXTENDS LiveEventHub, TLAPS

HubTypes ==
  /\ published \in Nat
  /\ inbox \in Seq(Events)
  /\ handling \in {0} \cup Events
  /\ fanout \in {0} \cup Events
  /\ log \in Seq(Events)
  /\ targets \subseteq clients
  /\ completed \subseteq clients
  /\ clients \subseteq Clients
  /\ queue \in [Clients -> Seq(Events)]
  /\ position \in [Clients -> Nat]
  /\ lastRead \in [Clients -> {0} \cup Events]

\* One event is handled at a time.
OneAtATime ==
  /\ handling # 0 => fanout = 0 /\ targets = {}
  /\ fanout # 0 => targets = {}
  /\ targets # {} => Len(log) > 0

\* Fanned out, being handled, waiting, published: in the order of publication.
InOrder ==
  /\ \A i, j \in 1 .. Len(log) : i < j => log[i] < log[j]
  /\ \A i, j \in 1 .. Len(inbox) : i < j => inbox[i] < inbox[j]
  /\ \A i \in 1 .. Len(log), j \in 1 .. Len(inbox) : log[i] < inbox[j]
  /\ \A i \in 1 .. Len(log) : /\ handling # 0 => log[i] < handling
                              /\ fanout # 0 => log[i] < fanout
  /\ \A j \in 1 .. Len(inbox) : /\ handling # 0 => handling < inbox[j]
                                /\ fanout # 0 => fanout < inbox[j]
  /\ \A i \in 1 .. Len(log) : log[i] <= published
  /\ \A i \in 1 .. Len(inbox) : inbox[i] <= published
  /\ handling <= published /\ fanout <= published

\* The last place of log that client c has been written.
Written(c) == IF c \in targets THEN Len(log) - 1 ELSE Len(log)

\* The queue of client c is the stretch of log that begins at place f; what lies
\* between its position and f was overwritten when the queue was full.
Window(c, f) ==
  /\ f >= position[c]
  /\ f + Len(queue[c]) <= Len(log) + 1
  /\ c \notin completed => f + Len(queue[c]) = Written(c) + 1
  /\ \A k \in 1 .. Len(queue[c]) : queue[c][k] = log[f + k - 1]
  /\ \A j \in position[c] .. f - 1 : j + ClientQueueCapacity <= Len(log)

QueueInv ==
  \A c \in Clients :
    /\ position[c] >= 1
    /\ Len(queue[c]) <= ClientQueueCapacity
    /\ c \in clients => \E f \in Nat : Window(c, f)
    /\ c \notin clients => queue[c] = <<>> /\ lastRead[c] = 0

HubInv == HubTypes /\ OneAtATime /\ InOrder /\ QueueInv

-----------------------------------------------------------------------------
LEMMA EventsAreNumbers ==
  /\ Events \subseteq Nat \ {0}
  /\ \A s \in Seq(Events) : \A i \in 1 .. Len(s) : s[i] \in Events
  BY HubAssumption DEF Events

\* What a bounded queue holds after a write.
LEMMA PushedFacts ==
  ASSUME NEW s \in Seq(Events), NEW e \in Events, NEW n \in Nat \ {0}, Len(s) <= n
  PROVE  /\ Pushed(s, e, n) \in Seq(Events)
         /\ Len(Pushed(s, e, n)) <= n
         /\ \E d \in 0 .. 1 :
              /\ Len(Pushed(s, e, n)) = Len(s) + 1 - d
              /\ d = 1 => Len(s) = n
              /\ \A k \in 1 .. Len(Pushed(s, e, n)) :
                   Pushed(s, e, n)[k] = IF k = Len(Pushed(s, e, n)) THEN e ELSE s[k + d]
  <1>1. CASE Len(s) < n
    <2>1. Pushed(s, e, n) = Append(s, e)
      BY <1>1 DEF Pushed
    <2>2. /\ Append(s, e) \in Seq(Events) /\ Len(Append(s, e)) = Len(s) + 1 - 0
          /\ \A k \in 1 .. Len(s) + 1 : Append(s, e)[k] = IF k = Len(s) + 1 THEN e ELSE s[k + 0]
      OBVIOUS
    <2> QED
      BY <1>1, <2>1, <2>2
  <1>2. CASE ~(Len(s) < n)
    <2>1. Len(s) = n /\ s # <<>>
      BY <1>2
    <2>2. Tail(s) \in Seq(Events) /\ Len(Tail(s)) = Len(s) - 1
      BY <2>1
    <2>3. \A k \in 1 .. Len(s) - 1 : Tail(s)[k] = s[k + 1]
      BY <2>1
    <2>4. Pushed(s, e, n) = Append(Tail(s), e)
      BY <1>2 DEF Pushed
    <2>5. /\ Append(Tail(s), e) \in Seq(Events) /\ Len(Append(Tail(s), e)) = Len(s) + 1 - 1
          /\ \A k \in 1 .. Len(s) : Append(Tail(s), e)[k] = IF k = Len(s) THEN e ELSE s[k + 1]
      BY <2>1, <2>2, <2>3
    <2> QED
      BY <2>1, <2>4, <2>5
  <1> QED
    BY <1>1, <1>2

LEMMA HubInitInv == HubInit => HubInv
  <1> SUFFICES ASSUME HubInit PROVE HubInv
    OBVIOUS
  <1> USE DEF HubInit
  <1>1. HubTypes
    BY DEF HubTypes
  <1>2. OneAtATime /\ InOrder
    BY DEF OneAtATime, InOrder
  <1>3. QueueInv
    <2> SUFFICES ASSUME NEW c \in Clients
                 PROVE  /\ position[c] >= 1
                        /\ Len(queue[c]) <= ClientQueueCapacity
                        /\ c \notin clients /\ queue[c] = <<>> /\ lastRead[c] = 0
      BY DEF QueueInv
    <2>1. position[c] = 1 /\ queue[c] = <<>> /\ lastRead[c] = 0 /\ c \notin clients
      OBVIOUS
    <2> QED
      BY <2>1, HubAssumption
  <1> QED
    BY <1>1, <1>2, <1>3 DEF HubInv

\* A step that touches neither the log nor the clients keeps every window.
LEMMA WindowsKept ==
  ASSUME QueueInv, UNCHANGED <<log, targets, clientVars>>
  PROVE  QueueInv'
  BY DEF QueueInv, Window, Written, clientVars

-----------------------------------------------------------------------------
(* One lemma per group of actions. *)

LEMMA ConnectStep ==
  ASSUME HubInv,
         \/ SubscribeSucceeds \/ SubscribeFails \/ DelayEnds
         \/ CancelStopping \/ DisposeSubscription \/ DisposeFails \/ DisposeAsync
  PROVE  HubInv' /\ UNCHANGED <<log, clients, position, lastRead>>
  <1>1. UNCHANGED <<published, handlerVars, clientVars>>
    BY DEF SubscribeSucceeds, SubscribeFails, DelayEnds, CancelStopping, DisposeSubscription,
           DisposeFails, DisposeAsync
  <1>2. UNCHANGED <<published, inbox, handling, fanout, log, targets,
                    clients, queue, completed, position, lastRead>>
    BY <1>1 DEF handlerVars, clientVars
  <1>3. HubTypes' /\ OneAtATime' /\ InOrder'
    BY <1>2 DEF HubInv, HubTypes, OneAtATime, InOrder
  <1>4. QueueInv'
    BY <1>1, <1>2, WindowsKept DEF HubInv
  <1> QED
    BY <1>2, <1>3, <1>4 DEF HubInv

LEMMA CompleteStep ==
  ASSUME HubInv, CompleteClients
  PROVE  HubInv' /\ UNCHANGED <<log, clients, position, lastRead>>
  <1>1. /\ UNCHANGED <<published, inbox, handling, fanout, log, targets,
                       clients, queue, position, lastRead>>
        /\ completed' = clients
    BY DEF CompleteClients, handlerVars
  <1>2. HubTypes' /\ OneAtATime' /\ InOrder'
    BY <1>1 DEF HubInv, HubTypes, OneAtATime, InOrder
  <1>3. QueueInv'
    BY <1>1 DEF HubInv, QueueInv, Window, Written
  <1> QED
    BY <1>1, <1>2, <1>3 DEF HubInv

LEMMA PublishStep ==
  ASSUME HubInv, PublishEvent
  PROVE  HubInv' /\ UNCHANGED <<log, clients, position, lastRead>>
  <1> USE DEF HubInv
  <1>1. /\ UNCHANGED <<handling, fanout, log, targets, clientVars,
                       clients, queue, completed, position, lastRead>>
        /\ published' = published + 1 /\ published < MaxEvents
        /\ inbox' = inbox \/ inbox' = Append(inbox, published + 1)
    BY DEF PublishEvent, clientVars
  <1>2. published + 1 \in Events /\ published + 1 \in Nat
    BY <1>1, HubAssumption DEF HubTypes, Events
  <1>3. HubTypes'
    <2>0. inbox \in Seq(Events)
      BY DEF HubTypes
    <2>1. Append(inbox, published + 1) \in Seq(Events)
      BY <1>2, <2>0
    <2>2. inbox' \in Seq(Events)
      BY <1>1, <2>0, <2>1
    <2> QED
      BY <1>1, <1>2, <2>2 DEF HubTypes
  <1>4. /\ Len(inbox') \in Len(inbox) .. Len(inbox) + 1
        /\ \A j \in 1 .. Len(inbox') :
             \/ j \in 1 .. Len(inbox) /\ inbox'[j] = inbox[j]
             \/ j = Len(inbox) + 1 /\ inbox'[j] = published + 1
    BY <1>1, <1>2 DEF HubTypes
  <1>5. InOrder'
    <2>0. published \in Nat /\ Len(inbox) \in Nat /\ Len(log) \in Nat
      BY DEF HubTypes
    <2>1. \A i \in 1 .. Len(log) : log[i] \in Nat /\ log[i] <= published
      BY EventsAreNumbers DEF InOrder, HubTypes
    <2>2. \A i \in 1 .. Len(inbox) : inbox[i] \in Nat /\ inbox[i] <= published
      BY EventsAreNumbers DEF InOrder, HubTypes
    <2>3. handling \in Nat /\ fanout \in Nat /\ handling <= published /\ fanout <= published
      BY EventsAreNumbers DEF InOrder, HubTypes
    <2>4. \A i, j \in 1 .. Len(inbox') : i < j => inbox'[i] < inbox'[j]
      BY <1>4, <2>0, <2>2 DEF InOrder
    <2>5. \A i \in 1 .. Len(log), j \in 1 .. Len(inbox') : log[i] < inbox'[j]
      BY <1>4, <2>0, <2>1 DEF InOrder
    <2>6. \A j \in 1 .. Len(inbox') :
            /\ handling # 0 => handling < inbox'[j]
            /\ fanout # 0 => fanout < inbox'[j]
            /\ inbox'[j] <= published + 1
      BY <1>4, <2>0, <2>2, <2>3 DEF InOrder
    <2>7. /\ \A i \in 1 .. Len(log) : log[i] <= published + 1
          /\ handling <= published + 1 /\ fanout <= published + 1
      BY <2>0, <2>1, <2>3
    <2>8. /\ \A i, j \in 1 .. Len(log) : i < j => log[i] < log[j]
          /\ \A i \in 1 .. Len(log) : /\ handling # 0 => log[i] < handling
                                      /\ fanout # 0 => log[i] < fanout
      BY DEF InOrder
    <2>9. log' = log /\ handling' = handling /\ fanout' = fanout /\ published' = published + 1
      BY <1>1
    <2> QED
      BY <2>4, <2>5, <2>6, <2>7, <2>8, <2>9 DEF InOrder
  <1>6. OneAtATime' /\ QueueInv'
    BY <1>1, WindowsKept DEF OneAtATime
  <1> QED
    BY <1>1, <1>3, <1>5, <1>6

LEMMA HandleStep ==
  ASSUME HubInv, TakeMessage \/ DiscardEvent \/ EnqueueRecent
  PROVE  HubInv' /\ UNCHANGED <<log, clients, position, lastRead>>
  <1> USE DEF HubInv
  <1>1. UNCHANGED <<published, log, targets, clientVars,
                    clients, queue, completed, position, lastRead>>
    BY DEF TakeMessage, DiscardEvent, EnqueueRecent, clientVars
  <1>2. QueueInv'
    BY <1>1, WindowsKept
  <1>3. CASE TakeMessage
    <2>1. /\ inbox # <<>> /\ handling' = inbox[1] /\ inbox' = Tail(inbox)
          /\ fanout' = 0 /\ targets = {}
      BY <1>3 DEF TakeMessage, HandlerIdle
    <2>2. /\ Len(inbox') = Len(inbox) - 1 /\ Len(inbox) >= 1
          /\ \A j \in 1 .. Len(inbox') : j + 1 \in 1 .. Len(inbox) /\ inbox'[j] = inbox[j + 1]
          /\ inbox' \in Seq(Events) /\ inbox[1] \in Events
      BY <2>1 DEF HubTypes
    <2>3. HubTypes' /\ OneAtATime'
      BY <1>1, <2>1, <2>2 DEF HubTypes, OneAtATime
    <2>4. InOrder'
      <3>1. \A i, j \in 1 .. Len(inbox') : i < j => inbox'[i] < inbox'[j]
        BY <2>2 DEF InOrder
      <3>2. \A i \in 1 .. Len(log), j \in 1 .. Len(inbox') : log[i] < inbox'[j]
        BY <2>2 DEF InOrder
      <3>3. \A i \in 1 .. Len(log) : log[i] < handling'
        BY <2>1, <2>2 DEF InOrder
      <3>4. \A j \in 1 .. Len(inbox') : handling' < inbox'[j] /\ inbox'[j] <= published
        BY <2>1, <2>2 DEF InOrder
      <3>5. handling' <= published /\ fanout' <= published
        BY <2>1, <2>2 DEF InOrder, HubTypes
      <3> QED
        BY <1>1, <2>1, <3>1, <3>2, <3>3, <3>4, <3>5 DEF InOrder
    <2> QED
      BY <1>1, <1>2, <2>3, <2>4
  <1>4. CASE DiscardEvent \/ EnqueueRecent
    <2>1. /\ handling # 0 /\ handling' = 0 /\ UNCHANGED inbox
          /\ fanout' = fanout \/ fanout' = handling
      BY <1>4 DEF DiscardEvent, EnqueueRecent
    <2>2. HubTypes' /\ OneAtATime'
      BY <1>1, <2>1 DEF HubTypes, OneAtATime
    <2>3. InOrder'
      BY <1>1, <2>1 DEF InOrder, HubTypes
    <2> QED
      BY <1>1, <1>2, <2>2, <2>3
  <1> QED
    BY <1>1, <1>3, <1>4

\* The snapshot of the clients is where an event enters the feed.
LEMMA FanOutStep ==
  ASSUME HubInv, BeginFanOut
  PROVE  HubInv' /\ Feed!Publish
  <1> USE DEF HubInv
  <1>1. /\ fanout # 0 /\ fanout' = 0 /\ handling = 0 /\ targets = {}
        /\ log' = Append(log, fanout) /\ targets' = clients
        /\ published' = published /\ inbox' = inbox /\ handling' = handling
        /\ UNCHANGED <<clients, queue, completed, position, lastRead>>
    BY DEF BeginFanOut, clientVars, OneAtATime
  <1>2. fanout \in Events /\ log \in Seq(Events) /\ Len(log) \in Nat
    BY <1>1 DEF HubTypes
  <1>3. /\ log' \in Seq(Events) /\ Len(log') = Len(log) + 1
        /\ \A i \in 1 .. Len(log) : log'[i] = log[i]
        /\ log'[Len(log) + 1] = fanout
    BY <1>1, <1>2
  <1>4. HubTypes' /\ OneAtATime'
    BY <1>1, <1>2, <1>3 DEF HubTypes, OneAtATime
  <1>5. \A i \in 1 .. Len(log) : log[i] < fanout /\ log[i] \in Nat
    BY <1>1, <1>2, EventsAreNumbers DEF InOrder
  <1>6. InOrder'
    <2>1. \A i, j \in 1 .. Len(log') : i < j => log'[i] < log'[j]
      BY <1>2, <1>3, <1>5 DEF InOrder
    <2>2. \A i \in 1 .. Len(log'), j \in 1 .. Len(inbox) : log'[i] < inbox[j]
      BY <1>1, <1>2, <1>3 DEF InOrder
    <2>3. \A i \in 1 .. Len(log') : log'[i] <= published
      BY <1>1, <1>2, <1>3 DEF InOrder
    <2>4. fanout' <= published
      BY <1>1 DEF InOrder
    <2> QED
      BY <1>1, <2>1, <2>2, <2>3, <2>4 DEF InOrder
  <1>7. QueueInv'
    <2> SUFFICES ASSUME NEW c \in Clients, c \in clients, NEW f \in Nat, Window(c, f)
                 PROVE  Window(c, f)'
      BY <1>1 DEF QueueInv
    <2>1. /\ position[c] \in Nat /\ position[c] >= 1 /\ Len(queue[c]) \in Nat
          /\ f >= position[c] /\ f + Len(queue[c]) <= Len(log) + 1
      BY DEF HubTypes, QueueInv, Window
    <2>2. c \notin completed => f + Len(queue[c]) = Len(log) + 1
      BY <1>1 DEF Window, Written
    <2>3. Written(c)' = Len(log)
      BY <1>1, <1>2, <1>3 DEF Written
    <2>4. ASSUME NEW k \in 1 .. Len(queue[c])
          PROVE  queue[c][k] = log'[f + k - 1]
      <3>1. f + k - 1 \in 1 .. Len(log)
        BY <1>2, <2>1
      <3>2. queue[c][k] = log[f + k - 1]
        BY DEF Window
      <3> QED
        BY <1>3, <3>1, <3>2
    <2>5. \A j \in position[c] .. f - 1 : j + ClientQueueCapacity <= Len(log) + 1
      BY <1>2, <2>1, HubAssumption DEF Window
    <2> QED
      BY <1>1, <1>2, <1>3, <2>1, <2>2, <2>3, <2>4, <2>5 DEF Window
  <1>8. Feed!Publish
    BY <1>1, <1>2, <1>5 DEF Feed!Publish
  <1> QED
    BY <1>4, <1>6, <1>7, <1>8

LEMMA WriteStep ==
  ASSUME HubInv, NEW t \in Clients, WriteTo(t)
  PROVE  HubInv' /\ UNCHANGED <<log, clients, position, lastRead>>
  <1> DEFINE e == log[Len(log)]
             pushed == Pushed(queue[t], e, ClientQueueCapacity)
  <1> USE DEF HubInv
  <1>1. /\ t \in targets /\ targets' = targets \ {t} /\ t \in clients
        /\ queue' = IF t \in completed THEN queue ELSE [queue EXCEPT ![t] = pushed]
        /\ published' = published /\ inbox' = inbox /\ handling' = handling
        /\ fanout' = fanout /\ log' = log /\ clients' = clients /\ completed' = completed
        /\ position' = position /\ lastRead' = lastRead
    BY DEF WriteTo, HubTypes
  <1>2. Len(log) \in Nat /\ Len(log) > 0 /\ e \in Events
    BY <1>1, EventsAreNumbers DEF OneAtATime, HubTypes
  <1>3. queue[t] \in Seq(Events) /\ Len(queue[t]) <= ClientQueueCapacity /\ Len(queue[t]) \in Nat
    BY DEF HubTypes, QueueInv
  <1>n. ClientQueueCapacity \in Nat \ {0}
    BY HubAssumption
  <1> HIDE DEF e
  <1>4. pushed \in Seq(Events) /\ Len(pushed) \in Nat /\ Len(pushed) <= ClientQueueCapacity
    BY <1>2, <1>3, <1>n, PushedFacts
  <1>d. PICK d \in 0 .. 1 :
          /\ Len(pushed) = Len(queue[t]) + 1 - d
          /\ d = 1 => Len(queue[t]) = ClientQueueCapacity
          /\ \A k \in 1 .. Len(pushed) : pushed[k] = IF k = Len(pushed) THEN e ELSE queue[t][k + d]
    BY <1>2, <1>3, <1>n, PushedFacts, Zenon
  <1> HIDE DEF pushed
  <1>5. HubTypes' /\ OneAtATime'
    BY <1>1, <1>4 DEF HubTypes, OneAtATime
  <1>6. InOrder'
    BY <1>1 DEF InOrder
  <1>7. QueueInv'
    <2>1. ASSUME NEW c \in Clients, c # t \/ t \in completed
          PROVE  /\ queue'[c] = queue[c]
                 /\ \A f \in Nat : Window(c, f) => Window(c, f)'
      BY <1>1, <2>1 DEF Window, Written, HubTypes
    <2>2. ASSUME t \notin completed
          PROVE  /\ queue'[t] = pushed
                 /\ \E f \in Nat : Window(t, f)'
      <3>1. queue'[t] = pushed
        BY <1>1, <2>2 DEF HubTypes
      <3>2. PICK f \in Nat : Window(t, f)
        BY <1>1 DEF QueueInv
      <3>3. f + Len(queue[t]) = Len(log) /\ position[t] \in Nat /\ position[t] >= 1 /\ f >= position[t]
        BY <1>1, <1>2, <2>2, <3>2 DEF Window, Written, QueueInv, HubTypes
      <3>4. f + d \in Nat /\ f + d >= position[t] /\ (f + d) + Len(pushed) = Len(log) + 1
        <4>1. Len(pushed) = Len(queue[t]) + 1 - d
          BY <1>d
        <4>2. f + d \in Nat
          OBVIOUS
        <4>3. f + d >= position[t]
          BY <3>3
        <4>4. (f + d) + Len(pushed) = Len(log) + 1
          <5>1. Len(queue[t]) \in Nat /\ Len(pushed) \in Nat /\ Len(log) \in Nat
            BY <1>2, <1>3, <1>4
          <5>2. f + Len(queue[t]) = Len(log)
            BY <3>3
          <5>3. ASSUME NEW q \in Nat, NEW r \in Nat, NEW n \in Nat, f + q = n, r = q + 1 - d
                PROVE  (f + d) + r = n + 1
            BY <5>3
          <5> QED
            BY <4>1, <5>1, <5>2, <5>3, ZenonT(30)
        <4> QED
          BY <4>2, <4>3, <4>4
      <3>5. ASSUME NEW k \in 1 .. Len(pushed)
            PROVE  pushed[k] = log[(f + d) + k - 1]
        <4>1. CASE k = Len(pushed)
          <5>1. (f + d) + k - 1 = Len(log)
            BY <1>2, <3>4, <4>1
          <5> QED
            BY <1>d, <4>1, <5>1 DEF e
        <4>2. CASE k # Len(pushed)
          <5>1. k + d \in 1 .. Len(queue[t]) /\ f + (k + d) - 1 = (f + d) + k - 1
            BY <1>3, <1>4, <1>d, <4>2
          <5>2. queue[t][k + d] = log[f + (k + d) - 1]
            BY <3>2, <5>1 DEF Window
          <5> QED
            BY <1>d, <4>2, <5>1, <5>2
        <4> QED
          BY <4>1, <4>2
      <3>6. \A j \in position[t] .. (f + d) - 1 : j + ClientQueueCapacity <= Len(log)
        BY <1>2, <1>3, <1>d, <3>2, <3>3, HubAssumption DEF Window
      <3>7. Window(t, f + d)'
        <4>1. Written(t)' = Len(log)
          BY <1>1 DEF Written
        <4> QED
          BY <1>1, <1>2, <3>1, <3>4, <3>5, <3>6, <4>1 DEF Window
      <3> QED
        BY <3>1, <3>4, <3>7
    <2> SUFFICES ASSUME NEW c \in Clients
                 PROVE  /\ position'[c] >= 1
                        /\ Len(queue'[c]) <= ClientQueueCapacity
                        /\ c \in clients' => \E f \in Nat : Window(c, f)'
                        /\ c \notin clients' => queue'[c] = <<>> /\ lastRead'[c] = 0
      BY DEF QueueInv
    <2>3. CASE c # t \/ t \in completed
      BY <1>1, <2>1, <2>3 DEF QueueInv
    <2>4. CASE c = t /\ t \notin completed
      BY <1>1, <1>4, <2>2, <2>4 DEF QueueInv
    <2> QED
      BY <2>3, <2>4
  <1> QED
    BY <1>1, <1>5, <1>6, <1>7

LEMMA SubscribeStep ==
  ASSUME HubInv, NEW t \in Clients, SubscribeClient(t)
  PROVE  HubInv' /\ Feed!Attach(t)
  <1> USE DEF HubInv
  <1>1. /\ t \notin clients /\ clients' = clients \cup {t}
        /\ position' = [position EXCEPT ![t] = Len(log) + 1]
        /\ published' = published /\ inbox' = inbox /\ handling' = handling
        /\ fanout' = fanout /\ log' = log /\ targets' = targets /\ completed' = completed
        /\ queue' = queue /\ lastRead' = lastRead
    BY DEF SubscribeClient, handlerVars
  <1>2. Len(log) \in Nat /\ Len(log) + 1 \in Nat
    BY DEF HubTypes
  <1>3. HubTypes' /\ OneAtATime'
    BY <1>1, <1>2 DEF HubTypes, OneAtATime
  <1>4. InOrder'
    BY <1>1 DEF InOrder
  <1>5. QueueInv'
    <2> SUFFICES ASSUME NEW c \in Clients
                 PROVE  /\ position'[c] >= 1
                        /\ Len(queue'[c]) <= ClientQueueCapacity
                        /\ c \in clients' => \E f \in Nat : Window(c, f)'
                        /\ c \notin clients' => queue'[c] = <<>> /\ lastRead'[c] = 0
      BY DEF QueueInv
    <2>1. CASE c = t
      <3>1. queue[t] = <<>> /\ Len(queue[t]) = 0 /\ t \notin targets /\ t \notin completed
        BY <1>1 DEF QueueInv, HubTypes
      <3>2. position'[t] = Len(log) + 1
        BY <1>1 DEF HubTypes
      <3>3. Written(t)' = Len(log)
        BY <1>1, <3>1 DEF Written
      <3>4. Window(t, Len(log) + 1)'
        BY <1>1, <1>2, <3>1, <3>2, <3>3 DEF Window
      <3> QED
        BY <1>1, <1>2, <2>1, <3>1, <3>2, <3>4, HubAssumption
    <2>2. CASE c # t
      <3>1. position'[c] = position[c] /\ (c \in clients' <=> c \in clients)
        BY <1>1, <2>2 DEF HubTypes
      <3>2. \A f \in Nat : Window(c, f) => Window(c, f)'
        BY <1>1, <3>1 DEF Window, Written
      <3> QED
        BY <1>1, <3>1, <3>2 DEF QueueInv
    <2> QED
      BY <2>1, <2>2
  <1>6. Feed!Attach(t)
    BY <1>1 DEF Feed!Attach
  <1> QED
    BY <1>3, <1>4, <1>5, <1>6

\* The frame at the head of a queue is the first of its window, and what a
\* client skips by reading it was overwritten when it was a full queue behind.
LEMMA ReadStep ==
  ASSUME HubInv, NEW t \in Clients, ReadFrame(t)
  PROVE  HubInv' /\ Feed!Receive(t)
  <1> DEFINE e == Head(queue[t])
             i == CHOOSE n \in 1 .. Len(log) : log[n] = e
  <1> USE DEF HubInv
  <1>1. /\ t \in clients /\ queue[t] # <<>>
        /\ queue' = [queue EXCEPT ![t] = Tail(queue[t])]
        /\ lastRead' = [lastRead EXCEPT ![t] = e]
        /\ position' = [position EXCEPT ![t] = i + 1]
        /\ published' = published /\ inbox' = inbox /\ handling' = handling
        /\ fanout' = fanout /\ log' = log /\ targets' = targets /\ completed' = completed
        /\ clients' = clients
    BY DEF ReadFrame, handlerVars, HubTypes
  <1>2. /\ queue[t] \in Seq(Events) /\ Len(queue[t]) \in Nat /\ Len(queue[t]) >= 1
        /\ e = queue[t][1] /\ e \in Events
        /\ position[t] \in Nat /\ position[t] >= 1 /\ Len(log) \in Nat
    BY <1>1 DEF HubTypes, QueueInv
  <1>3. PICK f \in Nat : Window(t, f)
    BY <1>1 DEF QueueInv
  <1>4. f \in 1 .. Len(log) /\ f >= position[t] /\ f + Len(queue[t]) <= Len(log) + 1
    BY <1>2, <1>3 DEF Window
  <1>5. log[f] = e
    <2>1. queue[t][1] = log[f + 1 - 1] /\ f + 1 - 1 = f
      BY <1>2, <1>3 DEF Window
    <2> QED
      BY <1>2, <2>1
  <1>6. i = f
    <2>1. ASSUME NEW m \in 1 .. Len(log), NEW n \in 1 .. Len(log), log[m] = log[n]
          PROVE  m = n
      <3>1. log[m] \in Nat /\ log[n] \in Nat
        BY <1>2, EventsAreNumbers DEF HubTypes
      <3>2. ~(m < n) /\ ~(n < m)
        BY <2>1, <3>1 DEF InOrder
      <3> QED
        BY <1>2, <3>2
    <2>2. i \in 1 .. Len(log) /\ log[i] = e
      BY <1>4, <1>5
    <2> QED
      BY <1>4, <1>5, <2>1, <2>2
  <1> HIDE DEF e, i
  <1>7. /\ Tail(queue[t]) \in Seq(Events) /\ Len(Tail(queue[t])) = Len(queue[t]) - 1
        /\ \A k \in 1 .. Len(queue[t]) - 1 : Tail(queue[t])[k] = queue[t][k + 1]
    BY <1>1, <1>2
  <1>8. HubTypes' /\ OneAtATime'
    BY <1>1, <1>2, <1>4, <1>6, <1>7 DEF HubTypes, OneAtATime
  <1>9. InOrder'
    BY <1>1 DEF InOrder
  <1>10. QueueInv'
    <2> SUFFICES ASSUME NEW c \in Clients
                 PROVE  /\ position'[c] >= 1
                        /\ Len(queue'[c]) <= ClientQueueCapacity
                        /\ c \in clients' => \E g \in Nat : Window(c, g)'
                        /\ c \notin clients' => queue'[c] = <<>> /\ lastRead'[c] = 0
      BY DEF QueueInv
    <2>1. CASE c = t
      <3>1. queue'[t] = Tail(queue[t]) /\ position'[t] = f + 1 /\ f + 1 \in Nat
        BY <1>1, <1>6 DEF HubTypes
      <3>2. Written(t)' = Written(t)
        BY <1>1 DEF Written
      <3>3. ASSUME NEW k \in 1 .. Len(Tail(queue[t]))
            PROVE  Tail(queue[t])[k] = log[(f + 1) + k - 1]
        <4>1. k + 1 \in 1 .. Len(queue[t]) /\ f + (k + 1) - 1 = (f + 1) + k - 1
          BY <1>2, <1>7
        <4>2. queue[t][k + 1] = log[f + (k + 1) - 1]
          BY <1>3, <4>1 DEF Window
        <4>3. Tail(queue[t])[k] = queue[t][k + 1]
          BY <1>2, <1>7
        <4> QED
          BY <4>1, <4>2, <4>3
      <3>4. (f + 1) + Len(Tail(queue[t])) = f + Len(queue[t])
        <4>1. \A q \in Nat, r \in Int : r = q - 1 => (f + 1) + r = f + q
          OBVIOUS
        <4>2. Len(Tail(queue[t])) \in Int
          BY <1>2, <1>7
        <4> QED
          BY <1>2, <1>7, <4>1, <4>2, Zenon
      <3>5. Window(t, f + 1)'
        <4>1. \A j \in f + 1 .. (f + 1) - 1 : FALSE
          OBVIOUS
        <4>2. /\ f + Len(queue[t]) <= Len(log) + 1
              /\ t \notin completed => f + Len(queue[t]) = Written(t) + 1
          BY <1>3 DEF Window
        <4>3. f + 1 >= position'[t]
          BY <3>1
        <4>4. /\ (f + 1) + Len(queue'[t]) <= Len(log') + 1
              /\ t \notin completed' => (f + 1) + Len(queue'[t]) = Written(t)' + 1
          BY <1>1, <3>1, <3>2, <3>4, <4>2
        <4>5. \A k \in 1 .. Len(queue'[t]) : queue'[t][k] = log'[(f + 1) + k - 1]
          BY <1>1, <3>1, <3>3
        <4>6. \A j \in position'[t] .. (f + 1) - 1 : j + ClientQueueCapacity <= Len(log')
          BY <3>1, <4>1
        <4> QED
          BY <4>3, <4>4, <4>5, <4>6 DEF Window
      <3>6. Len(queue[t]) <= ClientQueueCapacity
        BY DEF QueueInv
      <3> QED
        BY <1>1, <1>2, <1>7, <2>1, <3>1, <3>5, <3>6, HubAssumption
    <2>2. CASE c # t
      <3>1. position'[c] = position[c] /\ queue'[c] = queue[c] /\ lastRead'[c] = lastRead[c]
        BY <1>1, <2>2 DEF HubTypes
      <3>2. \A g \in Nat : Window(c, g) => Window(c, g)'
        BY <1>1, <3>1 DEF Window, Written
      <3> QED
        BY <1>1, <3>1, <3>2 DEF QueueInv
    <2> QED
      BY <2>1, <2>2
  <1>11. Feed!Receive(t)
    <2>1. f \in position[t] .. Len(log)
      BY <1>2, <1>4
    <2>2. \A j \in position[t] .. f - 1 : j + ClientQueueCapacity <= Len(log)
      BY <1>3 DEF Window
    <2> QED
      BY <1>1, <1>5, <1>6, <2>1, <2>2 DEF Feed!Receive
  <1> QED
    BY <1>8, <1>9, <1>10, <1>11

LEMMA UnsubscribeStep ==
  ASSUME HubInv, NEW t \in Clients, Unsubscribe(t)
  PROVE  HubInv' /\ Feed!Detach(t)
  <1> USE DEF HubInv
  <1>1. /\ t \in clients /\ clients' = clients \ {t}
        /\ targets' = targets \ {t} /\ completed' = completed \ {t}
        /\ queue' = [queue EXCEPT ![t] = <<>>]
        /\ position' = [position EXCEPT ![t] = 1]
        /\ lastRead' = [lastRead EXCEPT ![t] = 0]
        /\ published' = published /\ inbox' = inbox /\ handling' = handling
        /\ fanout' = fanout /\ log' = log
    BY DEF Unsubscribe
  <1>2. HubTypes'
    <2>1. queue' \in [Clients -> Seq(Events)]
      BY <1>1 DEF HubTypes
    <2>2. position' \in [Clients -> Nat] /\ lastRead' \in [Clients -> {0} \cup Events]
      BY <1>1 DEF HubTypes
    <2> QED
      BY <1>1, <2>1, <2>2 DEF HubTypes
  <1>3. OneAtATime'
    BY <1>1 DEF OneAtATime
  <1>4. InOrder'
    BY <1>1 DEF InOrder
  <1>5. QueueInv'
    <2> SUFFICES ASSUME NEW c \in Clients
                 PROVE  /\ position'[c] >= 1
                        /\ Len(queue'[c]) <= ClientQueueCapacity
                        /\ c \in clients' => \E f \in Nat : Window(c, f)'
                        /\ c \notin clients' => queue'[c] = <<>> /\ lastRead'[c] = 0
      BY DEF QueueInv
    <2>1. CASE c = t
      <3>1. position'[t] = 1 /\ queue'[t] = <<>> /\ lastRead'[t] = 0 /\ t \notin clients'
        BY <1>1 DEF HubTypes
      <3> QED
        BY <2>1, <3>1, HubAssumption
    <2>2. CASE c # t
      <3>1. /\ position'[c] = position[c] /\ queue'[c] = queue[c] /\ lastRead'[c] = lastRead[c]
            /\ c \in clients' <=> c \in clients
            /\ c \in targets' <=> c \in targets
            /\ c \in completed' <=> c \in completed
        BY <1>1, <2>2 DEF HubTypes
      <3>2. \A f \in Nat : Window(c, f) => Window(c, f)'
        BY <1>1, <3>1 DEF Window, Written
      <3> QED
        BY <3>1, <3>2 DEF QueueInv
    <2> QED
      BY <2>1, <2>2
  <1>6. Feed!Detach(t)
    BY <1>1 DEF Feed!Detach
  <1> QED
    BY <1>2, <1>3, <1>4, <1>5, <1>6

-----------------------------------------------------------------------------
\* Every step of the hub keeps the invariant and is a step of the feed or
\* leaves the feed alone.
LEMMA HubStep == HubInv /\ [HubNext]_hubVars => HubInv' /\ [Feed!FeedNext]_Feed!feedVars
  <1> SUFFICES ASSUME HubInv, [HubNext]_hubVars
               PROVE  HubInv' /\ [Feed!FeedNext]_Feed!feedVars
    OBVIOUS
  <1> DEFINE Silent == UNCHANGED <<log, clients, position, lastRead>>
  <1>0. Silent => [Feed!FeedNext]_Feed!feedVars
    BY DEF Feed!feedVars
  <1>1. CASE \/ SubscribeSucceeds \/ SubscribeFails \/ DelayEnds
             \/ CancelStopping \/ DisposeSubscription \/ DisposeFails \/ DisposeAsync
    BY <1>0, <1>1, ConnectStep
  <1>2. CASE CompleteClients
    BY <1>0, <1>2, CompleteStep
  <1>3. CASE PublishEvent
    BY <1>0, <1>3, PublishStep
  <1>4. CASE TakeMessage \/ DiscardEvent \/ EnqueueRecent
    BY <1>0, <1>4, HandleStep
  <1>5. CASE BeginFanOut
    BY <1>5, FanOutStep DEF Feed!FeedNext
  <1>6. ASSUME NEW c \in Clients, WriteTo(c)
        PROVE  HubInv' /\ [Feed!FeedNext]_Feed!feedVars
    BY <1>0, <1>6, WriteStep
  <1>7. ASSUME NEW c \in Clients, SubscribeClient(c) \/ ReadFrame(c) \/ Unsubscribe(c)
        PROVE  HubInv' /\ [Feed!FeedNext]_Feed!feedVars
    BY <1>7, SubscribeStep, ReadStep, UnsubscribeStep DEF Feed!FeedNext
  <1>8. CASE UNCHANGED hubVars
    <2>1. UNCHANGED <<published, inbox, handling, fanout, log, targets, clientVars,
                      clients, queue, completed, position, lastRead>>
      BY <1>8 DEF hubVars, handlerVars, clientVars
    <2>2. HubTypes' /\ OneAtATime' /\ InOrder'
      BY <2>1 DEF HubInv, HubTypes, OneAtATime, InOrder
    <2>3. QueueInv'
      BY <2>1, WindowsKept DEF HubInv
    <2> QED
      BY <1>0, <2>1, <2>2, <2>3 DEF HubInv
  <1> QED
    BY <1>1, <1>2, <1>3, <1>4, <1>5, <1>6, <1>7, <1>8 DEF HubNext, ServerNext

\* The hub with its sequential handler, its snapshot of the clients and its
\* bounded channels implements the lossy feed: publish order, no repetition,
\* and gaps only for a client that is a full queue behind.
THEOREM HubImplementsLossyFeed == HubSpec => ImplementsLossyFeed
  <1>1. HubInit => HubInv /\ Feed!FeedInit
    <2>1. HubInit => Feed!FeedInit
      BY DEF HubInit, Feed!FeedInit
    <2> QED
      BY <2>1, HubInitInv
  <1> QED
    BY <1>1, HubStep, PTL DEF HubSpec, ImplementsLossyFeed, Feed!FeedSpec

\* A full channel gives up its oldest frame, never the newest, for any capacity:
\* what was overwritten lies a full queue behind the end of the log, so a queue
\* that the fan-out has written to cannot have been emptied by overwriting.
THEOREM HubKeepsTheNewest == HubSpec => []NewestNeverDropped
  <1>1. HubInv => NewestNeverDropped
    <2> SUFFICES ASSUME HubInv, NEW c \in clients, c \notin targets, c \notin completed
                 PROVE  IF queue[c] = <<>> THEN position[c] = Len(log) + 1
                        ELSE queue[c][Len(queue[c])] = log[Len(log)]
      BY DEF NewestNeverDropped
    <2>1. /\ c \in Clients /\ Len(log) \in Nat /\ position[c] \in Nat
          /\ queue[c] \in Seq(Events) /\ Len(queue[c]) \in Nat
      BY DEF HubInv, HubTypes
    <2>2. PICK f \in Nat : Window(c, f)
      BY <2>1 DEF HubInv, QueueInv
    <2>3. f >= position[c] /\ f + Len(queue[c]) = Len(log) + 1
      BY <2>2 DEF Window, Written
    <2>4. CASE queue[c] = <<>>
      <3>1. f = Len(log) + 1
        BY <2>1, <2>3, <2>4
      <3>2. ASSUME position[c] < f PROVE FALSE
        <4>1. f - 1 \in position[c] .. f - 1 /\ f - 1 = Len(log)
          BY <2>1, <3>1, <3>2
        <4>2. Len(log) + ClientQueueCapacity <= Len(log)
          BY <2>2, <4>1 DEF Window
        <4> QED
          BY <2>1, <4>2, HubAssumption
      <3> QED
        BY <2>1, <2>3, <2>4, <3>1, <3>2
    <2>5. CASE queue[c] # <<>>
      <3>1. Len(queue[c]) \in 1 .. Len(queue[c]) /\ f + Len(queue[c]) - 1 = Len(log)
        BY <2>1, <2>3, <2>5
      <3> QED
        BY <2>2, <2>5, <3>1 DEF Window
    <2> QED
      BY <2>4, <2>5
  <1> QED
    BY HubInitInv, HubStep, <1>1, PTL DEF HubSpec

\* No subscription to the Redis channel outlives a StopAsync that got past the
\* unsubscribe, wherever ConnectAsync was when the host began to stop.
THEOREM StopLeavesNoSubscription == HubSpec => []StoppedIsUnsubscribed
  <1> DEFINE Inv == stopping \in {"disposed", "done"} => subscribed = FALSE /\ connecting = "done"
  <1>1. HubInit => Inv
    BY DEF HubInit
  <1>2. Inv /\ [HubNext]_hubVars => Inv'
    BY DEF HubNext, ServerNext, hubVars, connectVars, SubscribeSucceeds, SubscribeFails, DelayEnds,
           CancelStopping, DisposeSubscription, DisposeFails, DisposeAsync, CompleteClients,
           PublishEvent, TakeMessage, DiscardEvent, EnqueueRecent, BeginFanOut, WriteTo, SubscribeClient, ReadFrame, Unsubscribe
  <1>3. Inv => StoppedIsUnsubscribed
    BY DEF StoppedIsUnsubscribed
  <1> QED
    BY <1>1, <1>2, <1>3, PTL DEF HubSpec
=============================================================================
