------------------------- MODULE LiveTickerProofs -------------------------
(***************************************************************************)
(* The page on top of the hub: every behaviour of LiveTicker is one of the *)
(* hub, so that what is proved of the hub holds for the page's server, and *)
(* the rows are in order, for any capacities with a ring no larger than    *)
(* the page and any number of reconnects.                                  *)
(***************************************************************************)
EXTENDS LiveTicker, LiveEventHubProofs

\* The newest row is not yet shown twice.
Once == Len(rows) >= 2 => rows[2] < rows[1]

\* Event e may still be put above the rows.
Above(e) == Len(rows) >= 1 => rows[1] < e
AboveOrSeed(e) == Len(rows) >= 1 => rows[1] < e \/ (rows[1] = e /\ e = seeded /\ Once)

\* The ring is in publish order, and behind everything that is yet to be handled.
RecentInv ==
  /\ recent \in Seq(Events)
  /\ Len(recent) <= RecentEventCapacity
  /\ \A i, j \in 1 .. Len(recent) : i < j => recent[i] < recent[j]
  /\ \A i \in 1 .. Len(recent) :
       /\ recent[i] <= published
       /\ handling # 0 => recent[i] < handling
       /\ fanout # 0 => recent[i] <= fanout
       /\ \A j \in 1 .. Len(inbox) : recent[i] < inbox[j]

\* So is the page: what its connection has still to deliver goes on top.
PageInv ==
  /\ rows \in Seq(Events)
  /\ Len(rows) <= MaxRows
  /\ loaded \in BOOLEAN
  /\ loaded = FALSE => conn = None /\ rows = <<>>
  /\ \A i, j \in 1 .. Len(rows) :
       i < j => rows[i] >= rows[j] /\ (rows[i] = rows[j] => rows[i] = seeded /\ j = i + 1)
  /\ Len(rows) >= 1 => rows[1] <= published
  /\ handling # 0 => Above(handling)
  /\ fanout # 0 => AboveOrSeed(fanout)
  /\ \A j \in 1 .. Len(inbox) : Above(inbox[j])
  /\ \A c \in Clients : conn = c => \A j \in position[c] .. Len(log) : AboveOrSeed(log[j])

TickerInv == HubInv /\ RecentInv /\ PageInv

-----------------------------------------------------------------------------
\* Whichever way a request ends, it is disposed in the same way.
LEMMA RequestsEnd ==
  ASSUME NEW c \in Clients, WriteFails(c) \/ AbortRequest(c) PROVE EndRequest(c)
  BY DEF WriteFails, AbortRequest

\* The comments change nothing that the page or the hub knows of.
LEMMA CommentStep ==
  ASSUME NEW c \in Clients, KeepAlive(c) \/ Ping(c)
  PROVE  UNCHANGED <<hubVars, loaded, rows, placeholder, conn, seeded>>
  BY DEF KeepAlive, Ping

LEMMA StepIsHubStep == [Next]_vars => [HubNext]_hubVars
  <1> SUFFICES ASSUME [Next]_vars PROVE [HubNext]_hubVars
    OBVIOUS
  <1>1. CASE ServerNext /\ UNCHANGED pageVars
    BY <1>1 DEF HubNext
  <1>2. CASE LoadPage \/ LoseConnection
    BY <1>2 DEF LoadPage, LoseConnection
  <1>3. ASSUME NEW c \in Clients, Connect(c) \/ SendFrame(c) \/ EndRequest(c)
        PROVE  HubNext
    BY <1>3 DEF Connect, SendFrame, EndRequest, HubNext
  <1>4. ASSUME NEW c \in Clients, KeepAlive(c) \/ Ping(c) PROVE UNCHANGED hubVars
    BY <1>4, CommentStep
  <1>5. CASE UNCHANGED vars
    BY <1>5 DEF vars
  <1> QED
    BY <1>1, <1>2, <1>3, <1>4, <1>5, RequestsEnd DEF Next

LEMMA InitTicker == Init => TickerInv
  <1> SUFFICES ASSUME Init PROVE TickerInv
    OBVIOUS
  <1>1. HubInv
    BY HubInitInv DEF Init
  <1>2. /\ recent = <<>> /\ rows = <<>> /\ conn = None /\ inbox = <<>> /\ log = <<>>
        /\ handling = 0 /\ fanout = 0
    BY DEF Init, HubInit
  <1>3. RecentInv
    BY <1>2, HubAssumption DEF RecentInv
  <1>4. PageInv
    <2>1. loaded \in BOOLEAN
      BY Zenon DEF Init
    <2> QED
      BY <1>2, <2>1, TickerAssumption DEF PageInv
  <1> QED
    BY <1>1, <1>3, <1>4 DEF TickerInv

-----------------------------------------------------------------------------
(* Steps of the hub, which leave the page alone. *)

\* Steps that leave the handler alone too.
LEMMA QuietStep ==
  ASSUME RecentInv, PageInv,
         UNCHANGED <<published, inbox, handling, fanout, recent, log, position,
                     loaded, rows, conn, seeded>>
  PROVE  RecentInv' /\ PageInv'
  BY DEF RecentInv, PageInv, Above, AboveOrSeed, Once

LEMMA PublishKeeps ==
  ASSUME HubInv, RecentInv, PageInv, PublishEvent, UNCHANGED pageVars
  PROVE  RecentInv' /\ PageInv'
  <1>0. /\ published \in Nat /\ published' = published + 1
        /\ inbox \in Seq(Events) /\ Len(inbox) \in Nat
        /\ inbox' = inbox \/ inbox' = Append(inbox, published + 1)
        /\ UNCHANGED <<handling, fanout, recent, log, position, loaded, rows, conn, seeded>>
    BY DEF HubInv, HubTypes, PublishEvent, handlerVars, clientVars, pageVars
  <1>1. \A j \in 1 .. Len(inbox') : (j \in 1 .. Len(inbox) /\ inbox'[j] = inbox[j])
                                     \/ inbox'[j] = published + 1
    BY <1>0
  <1>2. RecentInv'
    <2>1. \A i \in 1 .. Len(recent) : recent[i] \in Nat
      BY EventsAreNumbers DEF RecentInv
    <2>2. ASSUME NEW i \in 1 .. Len(recent), NEW j \in 1 .. Len(inbox')
          PROVE  recent[i] < inbox'[j]
      <3>1. recent[i] <= published /\ recent[i] \in Nat
        BY <2>1 DEF RecentInv
      <3>2. CASE inbox'[j] = published + 1
        BY <1>0, <3>1, <3>2
      <3>3. CASE j \in 1 .. Len(inbox) /\ inbox'[j] = inbox[j]
        BY <3>3 DEF RecentInv
      <3> QED
        BY <1>1, <3>2, <3>3
    <2>3. ASSUME NEW i \in 1 .. Len(recent) PROVE recent[i] <= published'
      <3>1. recent[i] <= published /\ recent[i] \in Nat
        BY <2>1 DEF RecentInv
      <3> QED
        BY <1>0, <3>1
    <2> QED
      BY <1>0, <2>2, <2>3 DEF RecentInv
  <1>3. PageInv'
    <2>1. \A i \in 1 .. Len(rows) : rows[i] \in Nat
      BY EventsAreNumbers DEF PageInv
    <2>2. Len(rows) \in Nat
      BY DEF PageInv
    <2>4. ASSUME NEW j \in 1 .. Len(inbox'), Len(rows) >= 1
          PROVE  rows[1] < inbox'[j]
      <3>1. rows[1] \in Nat /\ rows[1] <= published
        BY <2>1, <2>2, <2>4 DEF PageInv
      <3>2. CASE inbox'[j] = published + 1
        BY <1>0, <3>1, <3>2
      <3>3. CASE j \in 1 .. Len(inbox) /\ inbox'[j] = inbox[j]
        BY <2>4, <3>3 DEF PageInv, Above
      <3> QED
        BY <1>1, <3>2, <3>3
    <2>5. Len(rows) >= 1 => rows[1] <= published'
      BY <1>0, <2>1, <2>2 DEF PageInv
    <2> QED
      BY <1>0, <2>4, <2>5 DEF PageInv, Above, AboveOrSeed, Once
  <1> QED
    BY <1>2, <1>3

LEMMA TakeKeeps ==
  ASSUME HubInv, RecentInv, PageInv, TakeMessage, UNCHANGED pageVars
  PROVE  RecentInv' /\ PageInv'
  <1>0. /\ inbox \in Seq(Events) /\ inbox # <<>> /\ Len(inbox) \in Nat /\ Len(inbox) >= 1
        /\ handling' = Head(inbox) /\ inbox' = Tail(inbox) /\ fanout = 0
        /\ UNCHANGED <<published, fanout, recent, log, position, loaded, rows, conn, seeded>>
    BY DEF HubInv, HubTypes, TakeMessage, HandlerIdle, clientVars, pageVars
  <1>1. /\ handling' = inbox[1]
        /\ \A j \in 1 .. Len(inbox') : j + 1 \in 1 .. Len(inbox) /\ inbox'[j] = inbox[j + 1]
    BY <1>0
  <1>2. RecentInv'
    BY <1>0, <1>1 DEF RecentInv
  <1>3. PageInv'
    BY <1>0, <1>1 DEF PageInv, Above, AboveOrSeed, Once
  <1> QED
    BY <1>2, <1>3

LEMMA DiscardKeeps ==
  ASSUME RecentInv, PageInv, DiscardEvent, UNCHANGED pageVars
  PROVE  RecentInv' /\ PageInv'
  BY DEF RecentInv, PageInv, Above, AboveOrSeed, Once, pageVars, DiscardEvent, clientVars

LEMMA EnqueueKeeps ==
  ASSUME HubInv, RecentInv, PageInv, EnqueueRecent, UNCHANGED pageVars
  PROVE  RecentInv' /\ PageInv'
  <1>0. /\ handling \in Events /\ handling # 0 /\ handling' = 0 /\ fanout' = handling
        /\ recent' = Pushed(recent, handling, RecentEventCapacity)
        /\ UNCHANGED <<published, inbox, log, position, loaded, rows, conn, seeded>>
        /\ handling <= published
        /\ \A j \in 1 .. Len(inbox) : handling < inbox[j]
    BY DEF HubInv, HubTypes, InOrder, EnqueueRecent, clientVars, pageVars
  <1>1. /\ recent' \in Seq(Events) /\ Len(recent') <= RecentEventCapacity
        /\ \E d \in 0 .. 1 :
             /\ Len(recent') = Len(recent) + 1 - d
             /\ \A k \in 1 .. Len(recent') :
                  recent'[k] = IF k = Len(recent') THEN handling ELSE recent[k + d]
    <2>1. recent \in Seq(Events) /\ Len(recent) <= RecentEventCapacity
      BY DEF RecentInv
    <2>2. RecentEventCapacity \in Nat \ {0} /\ handling \in Events
      BY <1>0, HubAssumption
    <2>3. LET p == Pushed(recent, handling, RecentEventCapacity)
          IN  /\ p \in Seq(Events)
              /\ Len(p) <= RecentEventCapacity
              /\ \E d \in 0 .. 1 :
                   /\ Len(p) = Len(recent) + 1 - d
                   /\ d = 1 => Len(recent) = RecentEventCapacity
                   /\ \A k \in 1 .. Len(p) : p[k] = IF k = Len(p) THEN handling ELSE recent[k + d]
      BY <2>1, <2>2, PushedFacts, Zenon
    <2> QED
      BY <1>0, <2>3, Zenon
  <1>2. PICK d \in 0 .. 1 :
             /\ Len(recent') = Len(recent) + 1 - d
             /\ \A k \in 1 .. Len(recent') :
                  recent'[k] = IF k = Len(recent') THEN handling ELSE recent[k + d]
    BY <1>1
  <1>3. Len(recent) \in Nat /\ Len(recent') \in Nat
    BY <1>1 DEF RecentInv
  <1>4. /\ Len(recent') >= 1 => recent'[Len(recent')] = handling
        /\ \A k \in 1 .. Len(recent') - 1 :
             k + d \in 1 .. Len(recent) /\ recent'[k] = recent[k + d]
    BY <1>2, <1>3
  <1>5. \A k \in 1 .. Len(recent') : recent'[k] \in Nat
    BY <1>1, EventsAreNumbers
  <1>6. \A k \in 1 .. Len(recent') - 1 : recent'[k] < handling
    BY <1>0, <1>4 DEF RecentInv
  <1>7. \A i, j \in 1 .. Len(recent') : i < j => recent'[i] < recent'[j]
    <2> SUFFICES ASSUME NEW i \in 1 .. Len(recent'), NEW j \in 1 .. Len(recent'), i < j
                 PROVE  recent'[i] < recent'[j]
      OBVIOUS
    <2>1. i \in 1 .. Len(recent') - 1
      BY <1>3
    <2>2. CASE j = Len(recent')
      BY <1>3, <1>4, <1>6, <2>1, <2>2
    <2>3. CASE j # Len(recent')
      <3>1. j \in 1 .. Len(recent') - 1
        BY <1>3, <2>3
      <3>2. i + d \in 1 .. Len(recent) /\ j + d \in 1 .. Len(recent) /\ i + d < j + d
        BY <1>4, <2>1, <3>1
      <3>3. recent[i + d] < recent[j + d]
        BY <3>2 DEF RecentInv
      <3> QED
        BY <1>4, <2>1, <3>1, <3>3
    <2> QED
      BY <2>2, <2>3
  <1>8. \A k \in 1 .. Len(recent') : recent'[k] <= handling
    <2> SUFFICES ASSUME NEW k \in 1 .. Len(recent') PROVE recent'[k] <= handling
      OBVIOUS
    <2>1. CASE k = Len(recent')
      BY <1>0, <1>3, <1>4, <2>1, EventsAreNumbers
    <2>2. CASE k # Len(recent')
      <3>1. k \in 1 .. Len(recent') - 1
        BY <1>3, <2>2
      <3>2. recent'[k] < handling /\ recent'[k] \in Nat /\ handling \in Nat
        BY <1>0, <1>5, <1>6, <3>1, EventsAreNumbers
      <3> QED
        BY <3>2
    <2> QED
      BY <2>1, <2>2
  <1>9. RecentInv'
    <2>1. published \in Nat /\ handling \in Nat /\ \A j \in 1 .. Len(inbox) : inbox[j] \in Nat
      BY <1>0, EventsAreNumbers DEF HubInv, HubTypes
    <2>2. ASSUME NEW i \in 1 .. Len(recent')
          PROVE  recent'[i] <= published /\ \A j \in 1 .. Len(inbox) : recent'[i] < inbox[j]
      BY <1>0, <1>5, <1>8, <2>1
    <2> QED
      BY <1>0, <1>1, <1>7, <1>8, <2>2 DEF RecentInv
  <1>10. PageInv'
    BY <1>0 DEF PageInv, Above, AboveOrSeed, Once
  <1> QED
    BY <1>9, <1>10

LEMMA FanOutKeeps ==
  ASSUME HubInv, RecentInv, PageInv, BeginFanOut, UNCHANGED pageVars
  PROVE  RecentInv' /\ PageInv'
  <1>0. /\ fanout # 0 /\ fanout' = 0 /\ log' = Append(log, fanout)
        /\ log \in Seq(Events) /\ Len(log) \in Nat
        /\ \A c \in Clients : position[c] \in Nat
        /\ UNCHANGED <<published, inbox, handling, recent, position, loaded, rows, conn, seeded>>
    BY DEF HubInv, HubTypes, BeginFanOut, clientVars, pageVars
  <1>1. \A j \in 1 .. Len(log') : (j \in 1 .. Len(log) /\ log'[j] = log[j]) \/ log'[j] = fanout
    BY <1>0
  <1>2. Len(log') = Len(log) + 1
    BY <1>0
  <1>3. RecentInv'
    BY <1>0 DEF RecentInv
  <1>4. ASSUME NEW c \in Clients, conn = c, NEW j \in position[c] .. Len(log')
        PROVE  AboveOrSeed(log'[j])
    <2>1. position[c] >= 1
      BY DEF HubInv, QueueInv
    <2>2. j \in 1 .. Len(log')
      BY <1>0, <1>2, <2>1
    <2>3. CASE log'[j] = fanout
      BY <1>0, <2>3 DEF PageInv
    <2>4. CASE j \in 1 .. Len(log) /\ log'[j] = log[j]
      <3>1. j \in position[c] .. Len(log)
        BY <1>0, <1>2, <2>4
      <3> QED
        BY <1>4, <2>4, <3>1 DEF PageInv
    <2> QED
      BY <1>1, <2>2, <2>3, <2>4
  <1>5. (\A c \in Clients : conn = c => \A j \in position[c] .. Len(log) : AboveOrSeed(log[j]))'
    BY <1>0, <1>4 DEF AboveOrSeed, Once
  <1>6. /\ (handling # 0 => Above(handling))' /\ (fanout # 0 => AboveOrSeed(fanout))'
        /\ (\A j \in 1 .. Len(inbox) : Above(inbox[j]))'
    BY <1>0 DEF PageInv, Above
  <1>7. UNCHANGED <<published, loaded, rows, conn, seeded>>
    BY <1>0
  <1>8. PageInv'
    BY <1>5, <1>6, <1>7 DEF PageInv
  <1> QED
    BY <1>3, <1>8

-----------------------------------------------------------------------------
(* Steps of the page. *)

LEMMA LoadKeeps ==
  ASSUME HubInv, RecentInv, PageInv, LoadPage
  PROVE  RecentInv' /\ PageInv'
  <1>0. /\ rows' = [i \in 1 .. Len(recent) |-> recent[Len(recent) - i + 1]]
        /\ seeded' = IF recent = <<>> THEN 0 ELSE recent[Len(recent)]
        /\ UNCHANGED <<published, inbox, handling, fanout, recent, log, position, conn>>
    BY DEF LoadPage, hubVars, handlerVars, clientVars
  <1>1. loaded' \in BOOLEAN /\ loaded' # FALSE
    BY Zenon DEF LoadPage
  <1>2. conn = None
    <2>1. loaded = FALSE
      BY Zenon DEF LoadPage, PageInv
    <2> QED
      BY <2>1 DEF PageInv
  <1>3. /\ recent \in Seq(Events) /\ Len(recent) \in Nat
        /\ \A i \in 1 .. Len(recent) : recent[i] \in Events /\ recent[i] \in Nat
    <2>1. recent \in Seq(Events) /\ Len(recent) \in Nat
      BY DEF RecentInv
    <2>2. \A i \in 1 .. Len(recent) : recent[i] \in Events
      BY <2>1
    <2> QED
      BY <2>1, <2>2, EventsAreNumbers
  <1>4. /\ rows' \in Seq(Events) /\ Len(rows') = Len(recent)
        /\ \A i \in 1 .. Len(recent) : (Len(recent) - i) + 1 \in 1 .. Len(recent)
                                       /\ rows'[i] = recent[(Len(recent) - i) + 1]
    BY <1>0, <1>3
  <1>5. Len(recent) >= 1 => rows'[1] = recent[Len(recent)] /\ seeded' = rows'[1]
    <2> SUFFICES ASSUME Len(recent) >= 1
                 PROVE  rows'[1] = recent[Len(recent)] /\ seeded' = rows'[1]
      OBVIOUS
    <2>1. 1 \in 1 .. Len(recent) /\ (Len(recent) - 1) + 1 = Len(recent) /\ recent # <<>>
      BY <1>3
    <2> QED
      BY <1>0, <1>4, <2>1
  <1>6. ASSUME NEW i \in 1 .. Len(rows'), NEW j \in 1 .. Len(rows'), i < j
        PROVE  rows'[i] > rows'[j]
    <2>1. (Len(recent) - j) + 1 < (Len(recent) - i) + 1
      BY <1>3, <1>4, <1>6
    <2>2. recent[(Len(recent) - j) + 1] < recent[(Len(recent) - i) + 1]
      BY <1>4, <2>1 DEF RecentInv
    <2> QED
      BY <1>3, <1>4, <2>2
  <1>7. \A i \in 1 .. Len(rows') : rows'[i] \in Nat
    BY <1>4, EventsAreNumbers
  <1>8. Once'
    <2> SUFFICES ASSUME Len(rows') >= 2 PROVE rows'[2] < rows'[1]
      BY DEF Once
    <2>1. 1 \in 1 .. Len(rows') /\ 2 \in 1 .. Len(rows')
      BY <1>3, <1>4
    <2>2. rows'[1] > rows'[2] /\ rows'[1] \in Nat /\ rows'[2] \in Nat
      BY <1>6, <1>7, <2>1
    <2> QED
      BY <2>2
  <1>9. Len(recent) >= 1 =>
          /\ rows'[1] <= published
          /\ handling # 0 => rows'[1] < handling
          /\ fanout # 0 => rows'[1] <= fanout
          /\ \A j \in 1 .. Len(inbox) : rows'[1] < inbox[j]
    BY <1>3, <1>5 DEF RecentInv
  <1>10. RecentInv'
    BY <1>0 DEF RecentInv
  <1>11. PageInv'
    <2>1. Len(rows') <= MaxRows
      BY <1>3, <1>4, HubAssumption, TickerAssumption DEF RecentInv
    <2>2. \A i, j \in 1 .. Len(rows') :
            i < j => rows'[i] >= rows'[j] /\ (rows'[i] = rows'[j] => rows'[i] = seeded' /\ j = i + 1)
      BY <1>6, <1>7
    <2>3. fanout # 0 => (Len(rows') >= 1 =>
            rows'[1] < fanout \/ (rows'[1] = fanout /\ fanout = seeded' /\ Once'))
      <3>1. fanout # 0 => fanout \in Nat
        BY EventsAreNumbers DEF HubInv, HubTypes
      <3>2. Len(rows') >= 1 => rows'[1] \in Nat
        BY <1>3, <1>4, <1>7
      <3> QED
        BY <1>4, <1>5, <1>8, <1>9, <3>1, <3>2
    <2>4. \A c \in Clients : conn' # c
      BY <1>0, <1>2, TickerAssumption
    <2> QED
      BY <1>0, <1>1, <1>4, <1>9, <2>1, <2>2, <2>3, <2>4 DEF PageInv, Above, AboveOrSeed
  <1> QED
    BY <1>10, <1>11

LEMMA ConnectionKeeps ==
  ASSUME HubInv, RecentInv, PageInv, NEW t \in Clients,
         Connect(t) \/ LoseConnection \/ EndRequest(t)
  PROVE  RecentInv' /\ PageInv'
  <1>1. UNCHANGED <<published, inbox, handling, fanout, recent, log, rows, loaded, seeded>>
    BY DEF Connect, SubscribeClient, LoseConnection, EndRequest, Unsubscribe, hubVars, handlerVars, pageVars
  <1>2. RecentInv'
    BY <1>1 DEF RecentInv
  <1>3. loaded = FALSE => conn' = None
    <2>1. CASE Connect(t)
      BY <2>1, Zenon DEF Connect
    <2>2. CASE LoseConnection \/ EndRequest(t)
      BY <2>2 DEF LoseConnection, EndRequest, PageInv
    <2> QED
      BY <2>1, <2>2
  <1>4. ASSUME NEW c \in Clients, conn' = c, NEW j \in position'[c] .. Len(log)
        PROVE  AboveOrSeed(log[j])
    <2>0. position \in [Clients -> Nat] /\ Len(log) \in Nat
      BY DEF HubInv, HubTypes
    <2>1. CASE Connect(t)
      <3>1. c = t /\ position'[c] = Len(log) + 1
        BY <1>4, <2>0, <2>1 DEF Connect, SubscribeClient
      <3> QED
        BY <1>4, <2>0, <3>1
    <2>2. CASE LoseConnection
      BY <1>4, <2>2, TickerAssumption DEF LoseConnection
    <2>3. CASE EndRequest(t)
      <3>1. conn = c /\ c # t
        BY <1>4, <2>3, TickerAssumption DEF EndRequest
      <3>2. position'[c] = position[c]
        BY <2>0, <2>3, <3>1 DEF EndRequest, Unsubscribe
      <3> QED
        BY <1>4, <3>1, <3>2 DEF PageInv
    <2> QED
      BY <2>1, <2>2, <2>3
  <1>5. PageInv'
    <2>1. \A c \in Clients : conn' = c =>
            \A j \in position'[c] .. Len(log') : AboveOrSeed(log[j])'
      BY <1>1, <1>4 DEF AboveOrSeed, Once
    <2>2. /\ handling' # 0 => Above(handling)'
          /\ fanout' # 0 => AboveOrSeed(fanout)'
          /\ \A j \in 1 .. Len(inbox') : Above(inbox[j])'
      BY <1>1 DEF PageInv, Above, AboveOrSeed, Once
    <2> QED
      BY <1>1, <1>3, <2>1, <2>2 DEF PageInv
  <1> QED
    BY <1>2, <1>5

\* A frame that goes on top of rows it may go on top of keeps them in order.
LEMMA PrependKeepsOrder ==
  ASSUME PageInv, NEW e \in Events, AboveOrSeed(e), rows' = AfterBegin(e), seeded' = seeded
  PROVE  /\ rows' \in Seq(Events)
         /\ Len(rows') <= MaxRows /\ Len(rows') >= 1
         /\ rows'[1] = e
         /\ Len(rows') >= 2 => Len(rows) >= 1 /\ rows'[2] = rows[1]
         /\ \A i, j \in 1 .. Len(rows') :
              i < j => rows'[i] >= rows'[j] /\ (rows'[i] = rows'[j] => rows'[i] = seeded' /\ j = i + 1)
  <1> DEFINE n == IF Len(rows) < MaxRows THEN Len(rows) + 1 ELSE MaxRows
             all == <<e>> \o rows
  <1>1. /\ rows \in Seq(Events) /\ Len(rows) \in Nat /\ Len(rows) <= MaxRows
        /\ MaxRows \in Nat /\ MaxRows >= 1
    BY HubAssumption, TickerAssumption DEF PageInv
  <1>2. /\ all \in Seq(Events) /\ Len(all) = Len(rows) + 1
        /\ all[1] = e
        /\ \A i \in 2 .. Len(rows) + 1 : i - 1 \in 1 .. Len(rows) /\ all[i] = rows[i - 1]
    BY <1>1
  <1>3. n \in 1 .. Len(rows) + 1 /\ n <= MaxRows /\ n \in Nat
    BY <1>1
  <1>4. rows' = SubSeq(all, 1, n)
    BY DEF AfterBegin
  <1> HIDE DEF n, all
  <1>5. /\ rows' \in Seq(Events) /\ Len(rows') = n
        /\ \A i \in 1 .. n : rows'[i] = all[i]
    BY <1>1, <1>2, <1>3, <1>4
  <1>6. /\ rows'[1] = e
        /\ \A i \in 2 .. n : i - 1 \in 1 .. Len(rows) /\ rows'[i] = rows[i - 1]
    BY <1>1, <1>2, <1>3, <1>5
  <1>7. e \in Nat /\ \A i \in 1 .. Len(rows) : rows[i] \in Nat
    BY <1>1, EventsAreNumbers
  <1>8. ASSUME NEW i \in 1 .. n, NEW j \in 1 .. n, i < j
        PROVE  rows'[i] >= rows'[j] /\ (rows'[i] = rows'[j] => rows'[i] = seeded /\ j = i + 1)
    <2>1. j \in 2 .. n
      BY <1>3, <1>8
    <2>2. j - 1 \in 1 .. Len(rows) /\ rows'[j] = rows[j - 1] /\ 1 \in 1 .. Len(rows)
      BY <1>1, <1>6, <2>1
    <2>3. CASE i = 1
      <3>1. rows'[i] = e
        BY <1>6, <2>3
      <3>2. rows[1] >= rows[j - 1]
        <4>1. CASE j - 1 = 1
          BY <1>7, <2>2, <4>1
        <4>2. CASE 1 < j - 1
          BY <2>2, <4>2 DEF PageInv
        <4> QED
          BY <2>2, <4>1, <4>2
      <3>3. rows[1] < e \/ (rows[1] = e /\ e = seeded /\ Once)
        BY <1>1, <2>2 DEF AboveOrSeed
      <3>4. rows[1] \in Nat /\ rows[j - 1] \in Nat
        BY <1>7, <2>2
      <3>5. CASE rows[1] < e
        BY <1>7, <2>2, <3>1, <3>2, <3>4, <3>5
      <3>6. CASE rows[1] = e /\ e = seeded /\ Once
        <4>1. CASE j - 1 = 1
          BY <2>1, <2>2, <2>3, <3>1, <3>4, <3>6, <4>1
        <4>2. CASE 1 < j - 1
          <5>1. 2 \in 1 .. Len(rows) /\ rows[2] < rows[1]
            BY <1>1, <2>2, <3>6, <4>2 DEF Once
          <5>2. rows[2] >= rows[j - 1]
            <6>1. CASE j - 1 = 2
              BY <1>7, <2>2, <6>1
            <6>2. CASE 2 < j - 1
              BY <2>2, <5>1, <6>2 DEF PageInv
            <6> QED
              BY <2>2, <4>2, <6>1, <6>2
          <5>3. rows[2] \in Nat /\ rows[j - 1] < e
            BY <1>7, <3>4, <3>6, <5>1, <5>2
          <5> QED
            BY <1>7, <2>2, <3>1, <3>4, <5>3
        <4> QED
          BY <2>2, <4>1, <4>2
      <3> QED
        BY <3>3, <3>5, <3>6
    <2>4. CASE i # 1
      <3>1. i \in 2 .. n
        BY <1>3, <2>4
      <3>2. i - 1 \in 1 .. Len(rows) /\ rows'[i] = rows[i - 1] /\ i - 1 < j - 1
        BY <1>6, <1>8, <2>1, <3>1
      <3>3. /\ rows[i - 1] >= rows[j - 1]
            /\ rows[i - 1] = rows[j - 1] => rows[i - 1] = seeded /\ j - 1 = (i - 1) + 1
        BY <2>2, <3>2 DEF PageInv
      <3> QED
        BY <2>1, <2>2, <3>1, <3>2, <3>3
    <2> QED
      BY <2>3, <2>4
  <1>9. Len(rows') >= 2 => Len(rows) >= 1 /\ rows'[2] = rows[1]
    BY <1>1, <1>3, <1>5, <1>6
  <1> QED
    BY <1>1, <1>3, <1>5, <1>6, <1>8, <1>9

LEMMA SendKeeps ==
  ASSUME HubInv, RecentInv, PageInv, NEW t \in Clients, SendFrame(t)
  PROVE  RecentInv' /\ PageInv'
  <1>0. /\ UNCHANGED <<published, inbox, handling, fanout, recent, log, loaded, conn, seeded>>
        /\ log \in Seq(Events) /\ Len(log) \in Nat
        /\ position \in [Clients -> Nat] /\ position[t] >= 1
    BY DEF SendFrame, ReadFrame, handlerVars, HubInv, HubTypes, QueueInv
  <1>1. RecentInv'
    BY <1>0 DEF RecentInv
  <1>2. PICK f \in position[t] .. Len(log) :
          /\ position' = [position EXCEPT ![t] = f + 1]
          /\ lastRead' = [lastRead EXCEPT ![t] = log[f]]
    BY ReadStep DEF SendFrame, Feed!Receive
  <1>3. f \in 1 .. Len(log) /\ log[f] \in Events /\ log[f] \in Nat
    <2>1. position[t] \in Nat
      BY <1>0
    <2>2. f \in 1 .. Len(log)
      BY <1>0, <2>1
    <2>3. log[f] \in Events
      BY <1>0, <2>2
    <2> QED
      BY <2>2, <2>3, EventsAreNumbers
  <1>4. Head(queue[t]) = log[f]
    <2>1. lastRead' = [lastRead EXCEPT ![t] = Head(queue[t])]
      BY DEF SendFrame, ReadFrame
    <2>2. lastRead'[t] = Head(queue[t]) /\ lastRead'[t] = log[f]
      BY <1>2, <2>1 DEF HubInv, HubTypes
    <2> QED
      BY <2>2
  <1>5. CASE conn = t
    <2>0. AboveOrSeed(log[f])
      BY <1>2, <1>5 DEF PageInv
    <2>1. rows' = AfterBegin(log[f])
      BY <1>4, <1>5 DEF SendFrame
    <2>2. /\ rows' \in Seq(Events)
          /\ Len(rows') <= MaxRows /\ Len(rows') >= 1
          /\ rows'[1] = log[f]
          /\ \A i, j \in 1 .. Len(rows') :
               i < j => rows'[i] >= rows'[j] /\ (rows'[i] = rows'[j] => rows'[i] = seeded' /\ j = i + 1)
      BY <1>0, <1>3, <2>0, <2>1, PrependKeepsOrder
    <2>3. /\ log[f] <= published
          /\ handling # 0 => log[f] < handling
          /\ fanout # 0 => log[f] < fanout
          /\ \A j \in 1 .. Len(inbox) : log[f] < inbox[j]
      BY <1>3 DEF HubInv, InOrder
    <2>4. ASSUME NEW c \in Clients, conn' = c, NEW j \in position'[c] .. Len(log)
          PROVE  log[f] < log[j]
      <3>1. c = t /\ position'[c] = f + 1
        BY <1>0, <1>2, <1>5, <2>4
      <3>2. j \in 1 .. Len(log) /\ f < j
        BY <1>0, <1>3, <2>4, <3>1
      <3> QED
        BY <1>3, <3>2 DEF HubInv, InOrder
    <2>5. loaded' = FALSE => conn' = None /\ rows' = <<>>
      BY <1>0, <1>5, TickerAssumption DEF PageInv
    <2>6. loaded' \in BOOLEAN
      BY <1>0 DEF PageInv
    <2>7. /\ (handling # 0 => Above(handling))'
          /\ (fanout # 0 => AboveOrSeed(fanout))'
          /\ (\A j \in 1 .. Len(inbox) : Above(inbox[j]))'
      BY <1>0, <2>2, <2>3 DEF Above, AboveOrSeed
    <2>8. (\A c \in Clients : conn = c => \A j \in position[c] .. Len(log) : AboveOrSeed(log[j]))'
      BY <1>0, <2>2, <2>4 DEF AboveOrSeed
    <2>9. PageInv'
      BY <1>0, <2>2, <2>3, <2>5, <2>6, <2>7, <2>8 DEF PageInv
    <2> QED
      BY <1>1, <2>9
  <1>6. CASE conn # t
    <2>1. rows' = rows
      BY <1>6 DEF SendFrame
    <2>2. \A c \in Clients : conn' = c => position'[c] = position[c]
      BY <1>0, <1>2, <1>6
    <2>3. PageInv'
      BY <1>0, <2>1, <2>2 DEF PageInv, Above, AboveOrSeed, Once
    <2> QED
      BY <1>1, <2>3
  <1> QED
    BY <1>5, <1>6

-----------------------------------------------------------------------------
LEMMA NextTicker == TickerInv /\ [Next]_vars => TickerInv'
  <1> SUFFICES ASSUME HubInv, RecentInv, PageInv, [Next]_vars PROVE TickerInv'
    BY DEF TickerInv
  <1>0. HubInv'
    BY StepIsHubStep, HubStep
  <1>1. CASE ServerNext /\ UNCHANGED pageVars
    <2> SUFFICES RecentInv' /\ PageInv'
      BY <1>0 DEF TickerInv
    <2>1. CASE \/ SubscribeSucceeds \/ SubscribeFails \/ DelayEnds
               \/ CancelStopping \/ DisposeSubscription \/ DisposeFails \/ DisposeAsync
               \/ CompleteClients
               \/ \E c \in Clients : WriteTo(c)
      <3>1. UNCHANGED <<published, inbox, handling, fanout, recent, log, position>>
        BY <2>1 DEF SubscribeSucceeds, SubscribeFails, DelayEnds, CancelStopping,
                    DisposeSubscription, DisposeFails, DisposeAsync, CompleteClients,
                    WriteTo, handlerVars, clientVars
      <3> QED
        BY <1>1, <3>1, QuietStep DEF pageVars
    <2>2. CASE PublishEvent
      BY <1>1, <2>2, PublishKeeps
    <2>3. CASE TakeMessage
      BY <1>1, <2>3, TakeKeeps
    <2>4. CASE DiscardEvent
      BY <1>1, <2>4, DiscardKeeps
    <2>5. CASE EnqueueRecent
      BY <1>1, <2>5, EnqueueKeeps
    <2>6. CASE BeginFanOut
      BY <1>1, <2>6, FanOutKeeps
    <2> QED
      BY <1>1, <2>1, <2>2, <2>3, <2>4, <2>5, <2>6 DEF ServerNext
  <1>2. CASE LoadPage
    BY <1>0, <1>2, LoadKeeps DEF TickerInv
  <1>3. CASE LoseConnection
    <2>1. UNCHANGED <<published, inbox, handling, fanout, recent, log, position, rows, loaded, seeded>>
      BY <1>3 DEF LoseConnection, hubVars, handlerVars, clientVars
    <2>2. conn' = None
      BY <1>3 DEF LoseConnection
    <2>3. RecentInv' /\ PageInv'
      BY <2>1, <2>2, TickerAssumption DEF RecentInv, PageInv, Above, AboveOrSeed, Once
    <2> QED
      BY <1>0, <2>3 DEF TickerInv
  <1>4. ASSUME NEW c \in Clients, Connect(c) \/ SendFrame(c) \/ EndRequest(c)
        PROVE  TickerInv'
    BY <1>0, <1>4, ConnectionKeeps, SendKeeps DEF TickerInv
  <1>5. ASSUME \/ \E c \in Clients : KeepAlive(c) \/ Ping(c)
               \/ UNCHANGED vars
        PROVE  TickerInv'
    <2>1. UNCHANGED <<hubVars, loaded, rows, placeholder, conn, seeded>>
      BY <1>5, CommentStep DEF vars, pageVars
    <2>2. UNCHANGED <<published, inbox, handling, fanout, recent, log, position,
                      loaded, rows, conn, seeded>>
      BY <2>1 DEF hubVars, handlerVars, clientVars
    <2> QED
      BY <1>0, <2>2, QuietStep DEF TickerInv
  <1> QED
    BY <1>1, <1>2, <1>3, <1>4, <1>5, RequestsEnd DEF Next

\* The rows run from the newest to the oldest event, and only a seed that was
\* being fanned out is shown twice, for any capacities of the queues, any ring
\* no larger than the page (TickerAssumption), any number of reconnects and any
\* interleaving with OnEventAsync.
THEOREM RowsNewestFirst == Spec => []NewestFirst
  <1>1. TickerInv => NewestFirst
    <2> SUFFICES ASSUME TickerInv PROVE NewestFirst
      OBVIOUS
    <2>1. DOMAIN rows = 1 .. Len(rows)
      BY DEF TickerInv, PageInv
    <2> QED
      BY <2>1 DEF TickerInv, PageInv, NewestFirst
  <1> QED
    BY InitTicker, NextTicker, <1>1, PTL DEF Spec

-----------------------------------------------------------------------------
(* Types, and the placeholder. *)

\* What TypeOK says beyond TickerInv.
ShownInv ==
  /\ published <= MaxEvents
  /\ connecting \in {"subscribing", "delay", "done"}
  /\ stopping \in {"no", "cancelled", "disposed", "done", "failed"}
  /\ subscribed \in BOOLEAN
  /\ seeded \in {0} \cup Events
  /\ conn \in clients \cup {None}
  /\ pinging \subseteq clients
  /\ placeholder = (loaded = TRUE /\ rows = <<>>)

\* The hub's own steps keep their part, and forget no client.
LEMMA ServerKeepsShown ==
  ASSUME TickerInv, ShownInv, ServerNext, UNCHANGED pageVars
  PROVE  ShownInv'
  <1>1. published' <= MaxEvents
    <2>1. published \in Nat /\ MaxEvents \in Nat
      BY HubAssumption DEF TickerInv, HubInv, HubTypes
    <2>2. published' = published \/ (published < MaxEvents /\ published' = published + 1)
      BY DEF ServerNext, SubscribeSucceeds, SubscribeFails, DelayEnds, CancelStopping,
             DisposeSubscription, DisposeFails, DisposeAsync, CompleteClients, PublishEvent,
             TakeMessage, DiscardEvent,
             EnqueueRecent, BeginFanOut, WriteTo
    <2> QED
      BY <2>1, <2>2 DEF ShownInv
  <1>2. /\ connecting' \in {"subscribing", "delay", "done"}
        /\ stopping' \in {"no", "cancelled", "disposed", "done", "failed"}
    BY DEF ShownInv, ServerNext, SubscribeSucceeds, SubscribeFails, DelayEnds, CancelStopping,
           DisposeSubscription, DisposeFails, DisposeAsync, CompleteClients, PublishEvent,
             TakeMessage, DiscardEvent,
           EnqueueRecent, BeginFanOut, WriteTo, connectVars
  <1>3. subscribed' \in BOOLEAN
    <2>1. subscribed' \in BOOLEAN \/ subscribed' = subscribed
      BY DEF ServerNext, SubscribeSucceeds, SubscribeFails, DelayEnds, CancelStopping,
             DisposeSubscription, DisposeFails, DisposeAsync, CompleteClients, PublishEvent,
             TakeMessage, DiscardEvent,
             EnqueueRecent, BeginFanOut, WriteTo, connectVars
    <2> QED
      BY <2>1, Zenon DEF ShownInv
  <1>4. clients' = clients
    BY DEF ServerNext, SubscribeSucceeds, SubscribeFails, DelayEnds, CancelStopping,
           DisposeSubscription, DisposeFails, DisposeAsync, CompleteClients, PublishEvent,
             TakeMessage, DiscardEvent,
           EnqueueRecent, BeginFanOut, WriteTo, clientVars
  <1>5. UNCHANGED <<loaded, rows, placeholder, conn, pinging, seeded>>
    BY DEF pageVars
  <1> QED
    BY <1>1, <1>2, <1>3, <1>4, <1>5 DEF ShownInv

\* The seed replaces the placeholder exactly when there is something to seed with.
LEMMA LoadKeepsShown ==
  ASSUME TickerInv, ShownInv, LoadPage
  PROVE  ShownInv'
  <1>1. /\ rows' = [i \in 1 .. Len(recent) |-> recent[Len(recent) - i + 1]]
        /\ placeholder' = (recent = <<>>)
        /\ seeded' = IF recent = <<>> THEN 0 ELSE recent[Len(recent)]
        /\ UNCHANGED <<published, connecting, stopping, subscribed, clients, conn, pinging>>
    BY DEF LoadPage, hubVars, connectVars, clientVars
  <1>2. loaded' = TRUE
    BY DEF LoadPage
  <1>3. recent \in Seq(Events) /\ Len(recent) \in Nat
    BY DEF TickerInv, RecentInv
  <1>4. rows' = <<>> <=> recent = <<>>
    <2>1. CASE recent = <<>>
      BY <1>1, <2>1
    <2>2. CASE recent # <<>>
      <3>1. 1 \in DOMAIN rows'
        BY <1>1, <1>3, <2>2
      <3> QED
        BY <2>2, <3>1
    <2> QED
      BY <2>1, <2>2
  <1>5. placeholder' = (loaded' = TRUE /\ rows' = <<>>)
    BY <1>1, <1>2, <1>4
  <1>6. seeded' \in {0} \cup Events
    BY <1>1, <1>3
  <1> QED
    BY <1>1, <1>5, <1>6 DEF ShownInv

\* A frame that is swapped in is shown.
LEMMA PrependShows ==
  ASSUME PageInv, NEW e \in Events PROVE AfterBegin(e) # <<>>
  <1>1. rows \in Seq(Events) /\ Len(rows) \in Nat /\ MaxRows \in Nat /\ MaxRows >= 1
    BY HubAssumption, TickerAssumption DEF PageInv
  <1>2. PICK n \in Nat : n >= 1 /\ n <= Len(rows) + 1 /\ AfterBegin(e) = SubSeq(<<e>> \o rows, 1, n)
    <2>1. CASE Len(rows) < MaxRows
      BY <1>1, <2>1 DEF AfterBegin
    <2>2. CASE ~(Len(rows) < MaxRows)
      BY <1>1, <2>2 DEF AfterBegin
    <2> QED
      BY <2>1, <2>2
  <1>3. <<e>> \o rows \in Seq(Events) /\ Len(<<e>> \o rows) = Len(rows) + 1
    BY <1>1
  <1>4. Len(SubSeq(<<e>> \o rows, 1, n)) = n
    BY <1>1, <1>2, <1>3
  <1> QED
    BY <1>2, <1>4

LEMMA PageKeepsShown ==
  ASSUME TickerInv, ShownInv, NEW t \in Clients, Connect(t) \/ SendFrame(t) \/ EndRequest(t)
  PROVE  ShownInv'
  <1>1. UNCHANGED <<published, connecting, stopping, subscribed, loaded, seeded>>
    BY DEF Connect, SubscribeClient, SendFrame, ReadFrame, EndRequest, Unsubscribe, connectVars
  <1>2. conn' \in clients' \cup {None} /\ pinging' \subseteq clients'
    BY DEF ShownInv, Connect, SubscribeClient, SendFrame, ReadFrame, EndRequest, Unsubscribe
  <1>3. placeholder' = (loaded = TRUE /\ rows' = <<>>)
    <2>1. CASE (Connect(t) \/ EndRequest(t)) \/ (SendFrame(t) /\ conn # t)
      <3>1. UNCHANGED <<rows, placeholder>>
        BY <2>1 DEF Connect, EndRequest, SendFrame
      <3> QED
        BY <3>1 DEF ShownInv
    <2>2. CASE SendFrame(t) /\ conn = t
      <3>1. rows' = AfterBegin(Head(queue[t])) /\ placeholder' = FALSE
        BY <2>2 DEF SendFrame
      <3>2. Head(queue[t]) \in Events
        BY <2>2 DEF SendFrame, ReadFrame, TickerInv, HubInv, HubTypes
      <3>3. rows' # <<>>
        BY <3>1, <3>2, PrependShows DEF TickerInv
      <3> QED
        BY <3>1, <3>3
    <2> QED
      BY <2>1, <2>2
  <1> QED
    BY <1>1, <1>2, <1>3 DEF ShownInv

\* The types of the hub and of the page: in particular the list never exceeds
\* MAX_ROWS, no queue its capacity, and the placeholder is shown exactly while a
\* rendered page has no row.
THEOREM TickerTypes == Spec => []TypeOK
  <1>1. Init => ShownInv
    <2>1. Init => placeholder = (loaded = TRUE /\ rows = <<>>)
      BY DEF Init
    <2>2. Init => subscribed \in BOOLEAN
      BY Zenon DEF Init, HubInit
    <2> QED
      BY <2>1, <2>2, HubAssumption DEF Init, HubInit, ShownInv
  <1>2. TickerInv /\ ShownInv /\ [Next]_vars => ShownInv'
    <2> SUFFICES ASSUME TickerInv, ShownInv, [Next]_vars PROVE ShownInv'
      OBVIOUS
    <2>1. CASE ServerNext /\ UNCHANGED pageVars
      BY <2>1, ServerKeepsShown
    <2>2. CASE LoadPage
      BY <2>2, LoadKeepsShown
    <2>3. CASE LoseConnection
      BY <2>3 DEF LoseConnection, hubVars, connectVars, clientVars, ShownInv
    <2>4. ASSUME NEW c \in Clients, Connect(c) \/ SendFrame(c) \/ EndRequest(c)
          PROVE  ShownInv'
      BY <2>4, PageKeepsShown
    <2>5. CASE UNCHANGED vars
      BY <2>5 DEF vars, hubVars, connectVars, clientVars, pageVars, ShownInv
    <2>6. ASSUME NEW c \in Clients, KeepAlive(c) \/ Ping(c) PROVE ShownInv'
      <3>1. pinging' \subseteq clients
        BY <2>6 DEF KeepAlive, Ping, ShownInv
      <3> QED
        BY <2>6, <3>1, CommentStep DEF hubVars, connectVars, clientVars, ShownInv
    <2> QED
      BY <2>1, <2>2, <2>3, <2>4, <2>5, <2>6, RequestsEnd DEF Next
  <1>3. TickerInv /\ ShownInv => TypeOK
    <2> SUFFICES ASSUME TickerInv, ShownInv PROVE TypeOK
      OBVIOUS
    <2>1. published \in 0 .. MaxEvents
      BY HubAssumption DEF TickerInv, HubInv, HubTypes, ShownInv
    <2>2. loaded \in BOOLEAN /\ (placeholder <=> loaded /\ rows = <<>>)
      BY Zenon DEF TickerInv, PageInv, ShownInv
    <2> QED
      BY <2>1, <2>2 DEF TypeOK, TickerInv, HubInv, HubTypes, QueueInv, RecentInv, PageInv, ShownInv
  <1> QED
    BY InitTicker, NextTicker, <1>1, <1>2, <1>3, PTL DEF Spec

-----------------------------------------------------------------------------
\* What the page talks to is the hub: the composition with the page, its lost
\* connections and its reconnects takes no step that the hub alone does not.
THEOREM TickerRunsTheHub == Spec => HubSpec
  <1>1. Init => HubInit
    BY DEF Init
  <1> QED
    BY <1>1, StepIsHubStep, PTL DEF Spec, HubSpec

\* Hence the page is served a lossy feed in publish order (OnMessage,
\* OnEventAsync and the bounded channels of SubscribeClient).
THEOREM PageIsServedALossyFeed == Spec => ImplementsLossyFeed
  BY TickerRunsTheHub, HubImplementsLossyFeed, PTL

=============================================================================
