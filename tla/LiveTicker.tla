---------------------------- MODULE LiveTicker ----------------------------
(***************************************************************************)
(* The home page's live ticker on top of the hub of the pod it talks to:   *)
(* Home.razor seeds the list with the hub's recent frames, sse.js prepends *)
(* every ticker event, and ticker.js trims the list after each one.        *)
(*                                                                         *)
(* The page holds at most one connection, which is LiveSourceIsOwned of    *)
(* SseExtension; when it is lost a new request is made, while the endpoint *)
(* may still be serving the old one.  The endpoint (StreamEndpoint.cs)     *)
(* finds that out from the request being aborted, which a vanished browser *)
(* may never cause, or from a write that fails.                            *)
(***************************************************************************)
EXTENDS LiveEventHub

CONSTANTS
  None,          \* no connection
  MaxRows        \* MAX_ROWS, 40 in the code

ASSUME TickerAssumption ==
  /\ None \notin Clients
  /\ MaxRows \in Nat
  /\ RecentEventCapacity <= MaxRows

VARIABLES
  loaded,        \* the page has been rendered
  rows,          \* the children of #ticker, first to last
  placeholder,   \* #ticker-empty is shown
  conn,          \* the request the page reads from
  pinging,       \* the requests that have a comment to write
  seeded         \* history: the newest frame the page was rendered with, 0 for none

pageVars == <<loaded, rows, placeholder, conn, pinging, seeded>>
vars == <<hubVars, pageVars>>

TypeOK ==
  /\ published \in 0 .. MaxEvents
  /\ connecting \in {"subscribing", "delay", "done"}
  /\ stopping \in {"no", "cancelled", "disposed", "done", "failed"}
  /\ subscribed \in BOOLEAN /\ loaded \in BOOLEAN
  /\ handling \in {0} \cup Events /\ fanout \in {0} \cup Events /\ seeded \in {0} \cup Events
  /\ recent \in Seq(Events) /\ Len(recent) <= RecentEventCapacity
  /\ targets \subseteq clients /\ completed \subseteq clients /\ clients \subseteq Clients
  /\ queue \in [Clients -> Seq(Events)]
  /\ \A c \in Clients : Len(queue[c]) <= ClientQueueCapacity
  /\ rows \in Seq(Events) /\ Len(rows) <= MaxRows
  /\ placeholder <=> loaded /\ rows = <<>>
  /\ conn \in clients \cup {None}
  /\ pinging \subseteq clients

Init ==
  /\ HubInit
  /\ loaded = FALSE
  /\ rows = <<>>
  /\ placeholder = FALSE
  /\ conn = None
  /\ pinging = {}
  /\ seeded = 0

-----------------------------------------------------------------------------
\* GET /: the page is rendered with RecentFrames, newest first.
LoadPage ==
  /\ ~loaded
  /\ loaded' = TRUE
  /\ rows' = [i \in 1 .. Len(recent) |-> recent[Len(recent) - i + 1]]
  /\ placeholder' = (recent = <<>>)
  /\ seeded' = IF recent = <<>> THEN 0 ELSE recent[Len(recent)]
  /\ UNCHANGED <<hubVars, conn, pinging>>

\* The request subscribes, and has ": connected" to write.
Connect(c) ==
  /\ loaded
  /\ conn = None
  /\ SubscribeClient(c)
  /\ conn' = c
  /\ pinging' = pinging \cup {c}
  /\ UNCHANGED <<loaded, rows, placeholder, seeded>>

\* Mutant: no trim.
AfterBeginUntrimmed(frame) == <<frame>> \o rows

\* Mutant: frames are appended.
BeforeEnd(frame) == SubSeq(rows \o <<frame>>, 1, IF Len(rows) < MaxRows THEN Len(rows) + 1 ELSE MaxRows)

\* hx-swap="afterbegin", and trim() on htmx:sseMessage.
AfterBegin(frame) ==
  SubSeq(<<frame>> \o rows, 1, IF Len(rows) < MaxRows THEN Len(rows) + 1 ELSE MaxRows)

\* The endpoint sends a frame, which a page that is still connected swaps in.
SendFrame(c) ==
  /\ c \notin pinging
  /\ ReadFrame(c)
  /\ IF conn = c
     THEN /\ rows' = AfterBegin(Head(queue[c]))
          /\ placeholder' = FALSE
     ELSE UNCHANGED <<rows, placeholder>>
  /\ UNCHANGED <<loaded, conn, pinging, seeded>>

\* Mutant: the loop goes on waiting when the keep-alive interval has passed.
KeepAliveWithoutPing(c) ==
  /\ c \in clients \ pinging
  /\ queue[c] = <<>>
  /\ UNCHANGED vars

\* WaitForFrameAsync gives up after the interval, or at once on a channel that
\* StopAsync has completed, and the loop turns to its ping.
KeepAlive(c) ==
  /\ c \in clients \ pinging
  /\ queue[c] = <<>>
  /\ pinging' = pinging \cup {c}
  /\ UNCHANGED <<hubVars, loaded, rows, placeholder, conn, seeded>>

\* The comment is written; for a browser that is gone, into a buffer.
Ping(c) ==
  /\ c \in pinging
  /\ pinging' = pinging \ {c}
  /\ UNCHANGED <<hubVars, loaded, rows, placeholder, conn, seeded>>

LoseConnection ==
  /\ conn # None
  /\ conn' = None
  /\ UNCHANGED <<hubVars, loaded, rows, placeholder, pinging, seeded>>

\* The handler is left and `using` disposes the subscription.
EndRequest(c) ==
  /\ Unsubscribe(c)
  /\ conn' = IF conn = c THEN None ELSE conn
  /\ pinging' = pinging \ {c}
  /\ UNCHANGED <<loaded, rows, placeholder, seeded>>

\* A comment or a frame is written to a browser that is gone, and that throws.
WriteFails(c) ==
  /\ conn # c
  /\ c \in pinging \/ queue[c] # <<>>
  /\ EndRequest(c)

\* RequestAborted, at any time: the server sees the connection close, or closes
\* it to shut down.  It ends the wait, the write or the loop.
AbortRequest(c) == EndRequest(c)

Next ==
  \/ ServerNext /\ UNCHANGED pageVars
  \/ LoadPage
  \/ LoseConnection
  \/ \E c \in Clients : \/ Connect(c) \/ SendFrame(c) \/ KeepAlive(c) \/ Ping(c)
                        \/ WriteFails(c) \/ AbortRequest(c)

(***************************************************************************)
(* The server's own steps are taken and the timer of the wait fires; Redis *)
(* accepts a subscription that is asked for again and again, and TCP fails *)
(* one of the writes to a browser that is gone when they go on and on.     *)
(* Nothing makes consumers publish, users open the page, the host stop or  *)
(* a request be aborted.                                                   *)
(***************************************************************************)
Step(A) == A /\ UNCHANGED pageVars

Fairness ==
  /\ SF_vars(Step(SubscribeSucceeds))
  /\ WF_vars(Step(DelayEnds))
  /\ WF_vars(Step(TakeMessage))
  /\ WF_vars(Step(EnqueueRecent \/ DiscardEvent))
  /\ WF_vars(Step(BeginFanOut))
  /\ \A c \in Clients : /\ WF_vars(Step(WriteTo(c)))
                        /\ WF_vars(SendFrame(c)) /\ WF_vars(KeepAlive(c)) /\ WF_vars(Ping(c))
                        /\ SF_vars(WriteFails(c))

Spec == Init /\ [][Next]_vars /\ Fairness

-----------------------------------------------------------------------------
(* Properties. *)

\* The rows of the page run from the newest to the oldest event, across the
\* seed, lost connections and reconnects, and none is shown twice except for
\* one: an event that OnEventAsync has put in _recent and not fanned out yet
\* is both in the seed and the first frame of the stream.
NewestFirst ==
  \A i, j \in DOMAIN rows :
    i < j => rows[i] >= rows[j] /\ (rows[i] = rows[j] => rows[i] = seeded /\ j = i + 1)

\* A connection that lasts shows everything: once the consumers pause, the
\* newest frame fanned out since it was made has reached the page, however
\* many were dropped from a full queue on the way.
PageCatchesUp ==
  \A c \in Clients :
    <>[](conn = c /\ stopping = "no") => []<>(position[c] = Len(log) + 1)

\* The comment frame "is what tells us the client has gone away" (StreamEndpoint.cs):
\* a browser that vanished without a trace is found out even on a feed that
\* stays silent, and the hub stops writing to its channel.
GoneIsForgotten ==
  \A c \in Clients : (c \in clients /\ conn # c) ~> (c \notin clients)

\* A hub that starts while Redis is away subscribes in the end.
HubSubscribes == <>(subscribed \/ stopping # "no")
=============================================================================
