--------------------------- MODULE SseExtension ---------------------------
(***************************************************************************)
(* The browser end of the live ticker: htmx's server-sent-events extension *)
(* (wwwroot/lib/htmx/sse.js) on one element, the card, that carries        *)
(* sse-connect, and the status dot that wwwroot/js/ticker.js drives from   *)
(* the extension's events.                                                 *)
(*                                                                         *)
(* Every action is one JavaScript task, which nothing interrupts.  What    *)
(* the browser's EventSource and htmx do is taken from how sse.js uses     *)
(* them: a dropped connection is re-opened by the EventSource itself       *)
(* (readyState CONNECTING), a refused one is not (readyState CLOSED), and  *)
(* either way onerror is called.                                           *)
(***************************************************************************)
EXTENDS Integers, FiniteSets

CONSTANTS
  None,            \* no EventSource
  Sources,         \* EventSource objects; a closed one may be used again
  Children,        \* descendants of the card with sse-swap or hx-trigger="sse:..."
  MaxRetryCount    \* the cap of retryCount, 128 in the code

ASSUME SseAssumption ==
  /\ None \notin Sources
  /\ MaxRetryCount \in Nat \ {0}

VARIABLES
  card,            \* "loading" (not processed yet), "attached" or "removed" from the body
  present,         \* the children that are still in the card
  eventSource,     \* internalData(card).sseEventSource
  readyState,      \* of every EventSource
  retryCount,      \* the variable that the callbacks of an EventSource share
  listeners,       \* how many listeners of each child are on an EventSource
  timers,          \* the retry counts of the pending calls of setTimeout
  dot,             \* the class of #sse-status
  ended            \* history: the message named by sse-close has been received

sseVars == <<card, present, eventSource, readyState, retryCount, listeners, timers, dot, ended>>

TypeOK ==
  /\ card \in {"loading", "attached", "removed"}
  /\ present \subseteq Children
  /\ eventSource \in Sources \cup {None}
  /\ readyState \in [Sources -> {"connecting", "open", "closed"}]
  /\ retryCount \in [Sources -> 0 .. MaxRetryCount]
  /\ listeners \in [Sources -> [Children -> Nat]]
  /\ timers \subseteq 1 .. MaxRetryCount
  /\ dot \in {"on", "off"}
  /\ ended \in BOOLEAN

Init ==
  /\ card = "loading"
  /\ present = Children
  /\ eventSource = None
  /\ readyState = [s \in Sources |-> "closed"]
  /\ retryCount = [s \in Sources |-> 0]
  /\ listeners = [s \in Sources |-> [c \in Children |-> 0]]
  /\ timers = {}
  /\ dot = "off"
  /\ ended = FALSE

Live(s) == readyState[s] # "closed"

\* ticker.js listens on the body, which an event of the card reaches by bubbling.
Status(connected) ==
  dot' = IF card = "attached" THEN (IF connected THEN "on" ELSE "off") ELSE dot

InBody(c) == card = "attached" /\ c \in present

-----------------------------------------------------------------------------
(* Creating a source and registering the children on it. *)

\* registerSSE for each of a set of children on the source that the card owns.
Registered(s, children) ==
  [listeners EXCEPT ![s] = [c \in Children |-> @[c] + (IF c \in children THEN 1 ELSE 0)]]

\* A new source s on the card, with the given retry count and no listener but
\* those of the given children.
EnsureEventSource(s, retry, children) ==
  /\ ~Live(s)
  /\ eventSource' = s
  /\ readyState' = [readyState EXCEPT ![s] = "connecting"]
  /\ retryCount' = [retryCount EXCEPT ![s] = retry]
  /\ listeners' = [listeners EXCEPT ![s] = [c \in Children |-> IF c \in children THEN 1 ELSE 0]]

\* htmx processes the card, then its descendants, when the page has loaded.
ProcessNode ==
  /\ card = "loading"
  /\ card' = "attached"
  /\ \E s \in Sources : EnsureEventSource(s, 0, present)
  /\ UNCHANGED <<present, timers, dot, ended>>

\* The reconnect that onerror scheduled.  It does not look whether the card is
\* still there, and the children are registered only once the source has opened.
TimerFires ==
  \E retry \in timers, s \in Sources :
    /\ timers' = timers \ {retry}
    /\ EnsureEventSource(s, retry, {})
    /\ UNCHANGED <<card, present, dot, ended>>

-----------------------------------------------------------------------------
(* The callbacks of a source. *)

\* maybeCloseSSESource: what belongs to a card outside the body is closed.
Orphaned == card = "removed" /\ eventSource # None

ClosedSource(states) == [states EXCEPT ![eventSource] = "closed"]

\* Mutant: the doubling has no cap.
NextRetryCountUncapped(retry) == IF retry = 0 THEN 1 ELSE retry * 2

NextRetryCount(retry) ==
  LET doubled == IF retry * 2 < MaxRetryCount THEN retry * 2 ELSE MaxRetryCount
  IN  IF doubled < 1 THEN 1 ELSE doubled

\* Mutant: any error schedules a reconnect, also one the browser recovers from.
RetriesAnyError(s, states) == ~Orphaned

\* Mutant: no further attempt once the cap is reached.
RetriesUpToCap(s, states) == ~Orphaned /\ states[s] = "closed" /\ retryCount[s] < MaxRetryCount

\* onerror schedules a reconnect only for a source that will not make one itself.
Retries(s, states) == ~Orphaned /\ states[s] = "closed"

\* Mutant: only a source that has given up turns the status off.
ErrorGivenUp(s, states) == dot' = IF states[s] = "closed" /\ card = "attached" THEN "off" ELSE dot

\* The event htmx:sseError, which comes first, for every error.
ErrorShown(s, states) == Status(FALSE)

\* onerror of s, after the browser has set the ready states.
OnError(s, states) ==
  LET retry == NextRetryCount(retryCount[s])
  IN  /\ ErrorShown(s, states)
      /\ readyState' = IF Orphaned THEN ClosedSource(states) ELSE states
      /\ IF Retries(s, states)
         THEN /\ retryCount' = [retryCount EXCEPT ![s] = retry]
              /\ timers' = timers \cup {retry}
         ELSE UNCHANGED <<retryCount, timers>>
      /\ UNCHANGED <<card, present, eventSource, listeners, ended>>

\* The connection is lost, or cannot be made: the EventSource tries again itself.
Dropped(s) ==
  /\ Live(s)
  /\ OnError(s, [readyState EXCEPT ![s] = "connecting"])

\* The server answers with an error, and the EventSource gives up.
Refused(s) ==
  /\ readyState[s] = "connecting"
  /\ OnError(s, [readyState EXCEPT ![s] = "closed"])

\* Mutant: retryCount is not reset by onopen.
OpenedKeepingRetryCount(s) ==
  /\ readyState[s] = "connecting"
  /\ readyState' = [readyState EXCEPT ![s] = "open"]
  /\ Status(TRUE)
  /\ listeners' = IF retryCount[s] > 0 /\ eventSource # None
                  THEN Registered(eventSource, present) ELSE listeners
  /\ UNCHANGED <<card, present, eventSource, retryCount, timers, ended>>

\* onopen: after a reconnect of our own the children are registered anew.
Opened(s) ==
  /\ readyState[s] = "connecting"
  /\ readyState' = [readyState EXCEPT ![s] = "open"]
  /\ Status(TRUE)
  /\ listeners' = IF retryCount[s] > 0 /\ eventSource # None
                  THEN Registered(eventSource, present) ELSE listeners
  /\ retryCount' = [retryCount EXCEPT ![s] = 0]
  /\ UNCHANGED <<card, present, eventSource, timers, ended>>

\* Mutant: the listener does not look whether its card is still there.
MessageIgnoringCard(s, c) ==
  /\ readyState[s] = "open"
  /\ listeners[s][c] > 0
  /\ listeners' = IF InBody(c) THEN listeners ELSE [listeners EXCEPT ![s][c] = 0]
  /\ UNCHANGED <<card, present, eventSource, readyState, retryCount, timers, dot, ended>>

\* An event that child c listens to, on source s.  A listener whose child has
\* left the body takes itself off; a swap leaves the state of the module alone.
Message(s, c) ==
  /\ readyState[s] = "open"
  /\ listeners[s][c] > 0
  /\ readyState' = IF Orphaned THEN ClosedSource(readyState) ELSE readyState
  /\ listeners' = IF Orphaned \/ InBody(c) THEN listeners
                  ELSE [listeners EXCEPT ![s][c] = 0]
  /\ UNCHANGED <<card, present, eventSource, retryCount, timers, dot, ended>>

\* Mutant: the close message is handled like an error.
CloseMessageThenRetry(s) ==
  /\ readyState[s] = "open"
  /\ readyState' = [readyState EXCEPT ![s] = "closed"]
  /\ timers' = timers \cup {1}
  /\ ended' = TRUE
  /\ UNCHANGED <<card, present, eventSource, retryCount, listeners, dot>>

\* The event named by sse-close.
CloseMessage(s) ==
  /\ readyState[s] = "open"
  /\ readyState' = [readyState EXCEPT ![s] = "closed"]
  /\ ended' = TRUE
  /\ UNCHANGED <<card, present, eventSource, retryCount, listeners, timers, dot>>

-----------------------------------------------------------------------------
(* Elements that leave the page. *)

\* htmx swaps the card out: beforeCleanupElement closes its source, and htmx
\* then drops the card's internal data.
CleanupElement ==
  /\ card = "attached"
  /\ card' = "removed"
  /\ readyState' = IF eventSource # None THEN ClosedSource(readyState) ELSE readyState
  /\ eventSource' = None
  /\ UNCHANGED <<present, retryCount, listeners, timers, dot, ended>>

\* Another script takes the card out of the document; htmx is not told.
RemoveCard ==
  /\ card = "attached"
  /\ card' = "removed"
  /\ UNCHANGED <<present, eventSource, readyState, retryCount, listeners, timers, dot, ended>>

RemoveChild(c) ==
  /\ InBody(c)
  /\ present' = present \ {c}
  /\ UNCHANGED <<card, eventSource, readyState, retryCount, listeners, timers, dot, ended>>

-----------------------------------------------------------------------------
Next ==
  \/ ProcessNode
  \/ TimerFires
  \/ \E s \in Sources : Dropped(s) \/ Refused(s) \/ Opened(s) \/ CloseMessage(s)
  \/ \E s \in Sources, c \in Children : Message(s, c)
  \/ CleanupElement
  \/ RemoveCard
  \/ \E c \in Children : RemoveChild(c)

(***************************************************************************)
(* A page that loads is processed and a timer that is set fires.  The      *)
(* server accepts a connection in the end when it is asked again and       *)
(* again, and keeps sending events on one that stays open.                 *)
(***************************************************************************)
Fairness ==
  /\ WF_sseVars(ProcessNode)
  /\ WF_sseVars(TimerFires)
  /\ SF_sseVars(\E s \in Sources : Opened(s))
  /\ \A c \in Children : WF_sseVars(\E s \in Sources : Message(s, c))

Spec == Init /\ [][Next]_sseVars /\ Fairness

-----------------------------------------------------------------------------
(* Properties. *)

\* A source that is connecting or open is the one the card's internal data
\* names.  It is what beforeCleanupElement and maybeCloseSSESource rely on to
\* close it, and it means that the page never holds two streams: the
\* EventSource's own reconnects and those of onerror never overlap.
LiveSourceIsOwned == \A s \in Sources : Live(s) => s = eventSource

\* While the stream is open every child on the page has exactly one listener
\* on it, so an event is swapped in once: not lost after a reconnect, where
\* onopen registers the children on the new source, and not twice, although
\* onopen is also called when the EventSource has reconnected by itself.
SwappedOnce ==
  \A s \in Sources, c \in Children :
    readyState[s] = "open" /\ InBody(c) => listeners[s][c] = 1

\* "shows whether the SSE stream is actually connected" (ticker.js): the dot is
\* on exactly when the card's source is open, through errors, retries and
\* reconnects, unless the server ended the stream with its sse-close event,
\* which ticker.js does not listen to.
DotTellsTheTruth ==
  card = "attached" /\ ~ended =>
    (dot = "on" <=> \E s \in Sources : readyState[s] = "open")

\* A stream that the server has ended with the sse-close event is not opened
\* again: no source is live and no reconnect that an earlier error scheduled
\* is pending.
EndedStaysEnded ==
  ended => timers = {} /\ \A s \in Sources : ~Live(s)

\* However often the connection is dropped or refused, a card that stays on the
\* page gets its stream back: onerror never leaves it without either the
\* EventSource's own reconnect or a pending one.
Reconnects ==
  []<>(card = "removed" \/ ended \/ \E s \in Sources : readyState[s] = "open")

\* A card that has left the page does not keep a connection for good, even when
\* htmx was not told, and even when a reconnect was pending as it left and
\* opens a source for an element nobody sees: an event or an error finds the
\* card missing and closes it.  A card without children has no listener that
\* could notice.
DetachedIsClosed ==
  (card = "removed" /\ present # {}) ~> [](\A s \in Sources : ~Live(s))
=============================================================================
