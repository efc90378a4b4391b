------------------------ MODULE SseExtensionProofs ------------------------
(***************************************************************************)
(* The safety properties of SseExtension for any number of EventSources,   *)
(* any children of the card and any cap of the retry count.                *)
(***************************************************************************)
EXTENDS SseExtension, TLAPS

\* No callback has run before htmx has processed the card.
LoadingInv ==
  card = "loading" => /\ eventSource = None
                      /\ timers = {}
                      /\ dot = "off"
                      /\ ended = FALSE

\* A reconnect is pending only while no source is live, and there is only one.
TimerInv ==
  /\ timers # {} => \A s \in Sources : ~Live(s)
  /\ \A r1, r2 \in timers : r1 = r2

\* An open source has forgotten its failures; a child is registered on the
\* source from the start, or, after a reconnect, not before it opens.
ListenerInv ==
  \A s \in Sources :
    /\ readyState[s] = "open" => retryCount[s] = 0
    /\ Live(s) => \A c \in Children :
         InBody(c) => listeners[s][c] = (IF retryCount[s] = 0 THEN 1 ELSE 0)

SseInv ==
  /\ TypeOK
  /\ LoadingInv
  /\ LiveSourceIsOwned
  /\ TimerInv
  /\ EndedStaysEnded
  /\ ListenerInv
  /\ DotTellsTheTruth

-----------------------------------------------------------------------------
\* The back-off stays between one and the cap.
LEMMA RetryCountInRange ==
  ASSUME NEW r \in 0 .. MaxRetryCount
  PROVE  NextRetryCount(r) \in 1 .. MaxRetryCount
  BY SseAssumption DEF NextRetryCount

LEMMA InitSse == Init => SseInv
  <1> SUFFICES ASSUME Init PROVE SseInv
    OBVIOUS
  <1>0. [c \in Children |-> 0] \in [Children -> Nat]
    OBVIOUS
  <1>1. TypeOK
    <2>1. listeners \in [Sources -> [Children -> Nat]]
      BY <1>0 DEF Init
    <2>2. retryCount \in [Sources -> 0 .. MaxRetryCount]
      BY SseAssumption DEF Init
    <2> QED
      BY <2>1, <2>2 DEF Init, TypeOK
  <1>2. LoadingInv /\ LiveSourceIsOwned /\ TimerInv /\ EndedStaysEnded
    BY DEF Init, LoadingInv, LiveSourceIsOwned, TimerInv, EndedStaysEnded, Live
  <1>3. ListenerInv /\ DotTellsTheTruth
    BY DEF Init, ListenerInv, DotTellsTheTruth, Live, InBody
  <1> QED
    BY <1>1, <1>2, <1>3 DEF SseInv

-----------------------------------------------------------------------------
(* One lemma per action. *)

LEMMA ProcessNodeStep == SseInv /\ ProcessNode => SseInv'
  <1> SUFFICES ASSUME SseInv, ProcessNode PROVE SseInv'
    OBVIOUS
  <1>1. PICK s \in Sources : EnsureEventSource(s, 0, present)
    BY DEF ProcessNode
  <1> USE <1>1 DEF SseInv, ProcessNode, EnsureEventSource
  <1>2. \A t \in Sources : ~Live(t)
    BY SseAssumption DEF LoadingInv, LiveSourceIsOwned
  <1>3. TypeOK'
    BY SseAssumption DEF TypeOK
  <1>4. \A t \in Sources : t # s => readyState'[t] = "closed"
    BY <1>2 DEF TypeOK, Live
  <1>5. readyState'[s] = "connecting" /\ retryCount'[s] = 0
    BY DEF TypeOK
  <1>6. \A c \in Children : listeners'[s][c] = IF c \in present THEN 1 ELSE 0
    BY DEF TypeOK
  <1>7. timers' = {} /\ dot' = "off" /\ ended' = FALSE /\ card' = "attached" /\ present' = present
    BY DEF LoadingInv
  <1>8. LoadingInv' /\ LiveSourceIsOwned' /\ TimerInv' /\ EndedStaysEnded'
    BY <1>4, <1>7 DEF LoadingInv, LiveSourceIsOwned, TimerInv, EndedStaysEnded, Live
  <1>9. ListenerInv'
    BY <1>4, <1>5, <1>6, <1>7 DEF ListenerInv, Live, InBody
  <1>10. DotTellsTheTruth'
    BY <1>4, <1>5, <1>7 DEF DotTellsTheTruth
  <1> QED
    BY <1>3, <1>8, <1>9, <1>10

LEMMA TimerFiresStep == SseInv /\ TimerFires => SseInv'
  <1> SUFFICES ASSUME SseInv, TimerFires PROVE SseInv'
    OBVIOUS
  <1>1. PICK retry \in timers, s \in Sources :
          /\ timers' = timers \ {retry}
          /\ EnsureEventSource(s, retry, {})
          /\ UNCHANGED <<card, present, dot, ended>>
    BY DEF TimerFires
  <1> USE <1>1 DEF SseInv, EnsureEventSource
  <1>2. \A t \in Sources : ~Live(t)
    BY DEF TimerInv
  <1>3. retry \in 1 .. MaxRetryCount
    BY DEF TypeOK
  <1>4. TypeOK'
    BY <1>3, SseAssumption DEF TypeOK
  <1>5. \A t \in Sources : t # s => readyState'[t] = "closed"
    BY <1>2 DEF TypeOK, Live
  <1>6. readyState'[s] = "connecting" /\ retryCount'[s] = retry
    BY DEF TypeOK
  <1>7. \A c \in Children : listeners'[s][c] = 0
    BY DEF TypeOK
  <1>8. timers' = {} /\ ended = FALSE /\ card # "loading"
    BY DEF TimerInv, EndedStaysEnded, LoadingInv, TypeOK
  <1>9. LoadingInv' /\ LiveSourceIsOwned' /\ TimerInv' /\ EndedStaysEnded'
    BY <1>5, <1>8 DEF LoadingInv, LiveSourceIsOwned, TimerInv, EndedStaysEnded, Live
  <1>10. ListenerInv'
    BY <1>3, <1>5, <1>6, <1>7 DEF ListenerInv, Live, InBody
  <1>11. DotTellsTheTruth'
    BY <1>2, <1>5, <1>6, <1>8 DEF DotTellsTheTruth, Live
  <1> QED
    BY <1>4, <1>9, <1>10, <1>11

LEMMA DroppedStep ==
  ASSUME SseInv, NEW s \in Sources, Dropped(s)
  PROVE  SseInv'
  <1> USE DEF SseInv, Dropped, OnError, Retries, ErrorShown
  <1>1. s = eventSource /\ timers = {} /\ card # "loading" /\ ended = FALSE
    BY SseAssumption DEF TypeOK, LiveSourceIsOwned, TimerInv, LoadingInv, EndedStaysEnded
  <1>2. Orphaned <=> card = "removed"
    BY <1>1, SseAssumption DEF Orphaned
  <1>3. UNCHANGED <<card, present, eventSource, retryCount, listeners, timers, ended>>
    BY DEF TypeOK
  <1>4. readyState' = [readyState EXCEPT ![s] = IF card = "removed" THEN "closed" ELSE "connecting"]
    BY <1>1, <1>2 DEF ClosedSource, TypeOK
  <1>5. dot' = IF card = "attached" THEN "off" ELSE dot
    BY DEF Status
  <1>6. TypeOK'
    BY <1>3, <1>4, <1>5 DEF TypeOK
  <1>7. \A t \in Sources : t # s => readyState'[t] = "closed"
    BY <1>1, <1>4 DEF TypeOK, LiveSourceIsOwned, Live
  <1>8. readyState'[s] # "open" /\ Live(s)
    BY <1>4 DEF TypeOK
  <1>9. LoadingInv' /\ LiveSourceIsOwned' /\ TimerInv' /\ EndedStaysEnded'
    BY <1>1, <1>3, <1>7 DEF LoadingInv, LiveSourceIsOwned, TimerInv, EndedStaysEnded, Live
  <1> HIDE DEF Dropped, OnError, Retries, ErrorShown
  <1>10. ListenerInv'
    BY <1>3, <1>7, <1>8 DEF ListenerInv, Live, InBody
  <1>11. DotTellsTheTruth'
    BY <1>3, <1>5, <1>7, <1>8 DEF DotTellsTheTruth
  <1> QED
    BY <1>6, <1>9, <1>10, <1>11

LEMMA RefusedStep ==
  ASSUME SseInv, NEW s \in Sources, Refused(s)
  PROVE  SseInv'
  <1> DEFINE retry == NextRetryCount(retryCount[s])
  <1> USE DEF SseInv, Refused, OnError, Retries, ErrorShown
  <1>1. s = eventSource /\ timers = {} /\ card # "loading" /\ ended = FALSE
    BY SseAssumption DEF TypeOK, LiveSourceIsOwned, TimerInv, LoadingInv, EndedStaysEnded, Live
  <1>2. Orphaned <=> card = "removed"
    BY <1>1, SseAssumption DEF Orphaned
  <1>3. UNCHANGED <<card, present, eventSource, listeners, ended>>
    OBVIOUS
  <1>4. readyState' = [readyState EXCEPT ![s] = "closed"]
    BY <1>1 DEF ClosedSource, TypeOK
  <1>5. retry \in 1 .. MaxRetryCount
    BY RetryCountInRange DEF TypeOK
  <1>6. timers' \in {timers, {retry}} /\ retryCount' \in {retryCount, [retryCount EXCEPT ![s] = retry]}
    BY <1>1
  <1>7. dot' = IF card = "attached" THEN "off" ELSE dot
    BY DEF Status
  <1> HIDE DEF retry
  <1>8. TypeOK'
    <2>1. retryCount' \in [Sources -> 0 .. MaxRetryCount]
      BY <1>5, <1>6 DEF TypeOK
    <2>2. timers' \subseteq 1 .. MaxRetryCount
      BY <1>5, <1>6 DEF TypeOK
    <2> QED
      BY <1>3, <1>4, <1>7, <2>1, <2>2 DEF TypeOK
  <1>9. \A t \in Sources : readyState'[t] = "closed"
    BY <1>1, <1>4 DEF TypeOK, LiveSourceIsOwned, Live
  <1>10. LoadingInv' /\ LiveSourceIsOwned' /\ TimerInv' /\ EndedStaysEnded'
    BY <1>1, <1>3, <1>6, <1>9 DEF LoadingInv, LiveSourceIsOwned, TimerInv, EndedStaysEnded, Live
  <1>11. ListenerInv' /\ DotTellsTheTruth'
    BY <1>3, <1>7, <1>9 DEF ListenerInv, DotTellsTheTruth, Live
  <1> QED
    BY <1>8, <1>10, <1>11

LEMMA OpenedStep ==
  ASSUME SseInv, NEW s \in Sources, Opened(s)
  PROVE  SseInv'
  <1> USE DEF SseInv, Opened
  <1>1. s = eventSource /\ timers = {} /\ card # "loading" /\ ended = FALSE
    BY SseAssumption DEF TypeOK, LiveSourceIsOwned, TimerInv, LoadingInv, EndedStaysEnded, Live
  <1>2. UNCHANGED <<card, present, eventSource, timers, ended>>
    OBVIOUS
  <1>3. readyState' = [readyState EXCEPT ![s] = "open"] /\ retryCount' = [retryCount EXCEPT ![s] = 0]
    OBVIOUS
  <1>4. dot' = IF card = "attached" THEN "on" ELSE dot
    BY DEF Status
  <1>5. /\ listeners' \in [Sources -> [Children -> Nat]]
        /\ \A c \in present : retryCount[s] > 0 => listeners'[s][c] = listeners[s][c] + 1
        /\ retryCount[s] = 0 => listeners' = listeners
    <2>1. CASE retryCount[s] > 0
      <3>1. listeners' = Registered(s, present)
        BY <1>1, <2>1, SseAssumption
      <3> DEFINE row == [c \in Children |-> listeners[s][c] + (IF c \in present THEN 1 ELSE 0)]
      <3>2. row \in [Children -> Nat] /\ \A c \in present : row[c] = listeners[s][c] + 1
        BY DEF TypeOK
      <3>3. listeners' = [listeners EXCEPT ![s] = row]
        BY <3>1 DEF Registered, TypeOK
      <3> HIDE DEF row
      <3>4. listeners' \in [Sources -> [Children -> Nat]] /\ listeners'[s] = row
        BY <3>2, <3>3 DEF TypeOK
      <3> QED
        BY <2>1, <3>2, <3>4 DEF TypeOK
    <2>2. CASE ~(retryCount[s] > 0)
      BY <2>2 DEF TypeOK
    <2> QED
      BY <2>1, <2>2
  <1>6. TypeOK'
    BY <1>2, <1>3, <1>4, <1>5, SseAssumption DEF TypeOK
  <1>7. \A t \in Sources : t # s => readyState'[t] = "closed"
    BY <1>1, <1>3 DEF TypeOK, LiveSourceIsOwned, Live
  <1>8. readyState'[s] = "open" /\ retryCount'[s] = 0 /\ Live(s)
    BY <1>3 DEF TypeOK, Live
  <1>9. LoadingInv' /\ LiveSourceIsOwned' /\ TimerInv' /\ EndedStaysEnded'
    BY <1>1, <1>2, <1>7 DEF LoadingInv, LiveSourceIsOwned, TimerInv, EndedStaysEnded, Live
  <1>10. \A c \in Children : InBody(c) => listeners'[s][c] = 1
    BY <1>5, <1>8 DEF ListenerInv, InBody, TypeOK
  <1>11. ListenerInv'
    BY <1>2, <1>7, <1>8, <1>10 DEF ListenerInv, Live, InBody
  <1>12. DotTellsTheTruth'
    BY <1>2, <1>4, <1>8 DEF DotTellsTheTruth
  <1> QED
    BY <1>6, <1>9, <1>11, <1>12

LEMMA MessageStep ==
  ASSUME SseInv, NEW s \in Sources, NEW c \in Children, Message(s, c)
  PROVE  SseInv'
  <1> USE DEF SseInv, Message
  <1>1. s = eventSource /\ timers = {} /\ card # "loading" /\ ended = FALSE
    BY SseAssumption DEF TypeOK, LiveSourceIsOwned, TimerInv, LoadingInv, EndedStaysEnded, Live
  <1>2. UNCHANGED <<card, present, eventSource, retryCount, timers, dot, ended>>
    OBVIOUS
  <1>3. readyState' = IF card = "removed" THEN [readyState EXCEPT ![s] = "closed"] ELSE readyState
    BY <1>1, SseAssumption DEF Orphaned, ClosedSource
  <1>4. /\ listeners' \in [Sources -> [Children -> Nat]]
        /\ \A d \in Children : InBody(d) => listeners'[s][d] = listeners[s][d]
    <2>1. CASE listeners' = listeners
      BY <2>1 DEF TypeOK
    <2>2. CASE ~InBody(c) /\ listeners' = [listeners EXCEPT ![s][c] = 0]
      <3>1. [listeners[s] EXCEPT ![c] = 0] \in [Children -> Nat]
        BY DEF TypeOK
      <3>2. listeners'[s] = [listeners[s] EXCEPT ![c] = 0]
        BY <2>2 DEF TypeOK
      <3> QED
        BY <2>2, <3>1, <3>2 DEF TypeOK
    <2> QED
      BY <2>1, <2>2
  <1>5. TypeOK'
    BY <1>2, <1>3, <1>4 DEF TypeOK
  <1>6. \A t \in Sources : t # s => readyState'[t] = "closed"
    BY <1>1, <1>3 DEF TypeOK, LiveSourceIsOwned, Live
  <1>7. LoadingInv' /\ LiveSourceIsOwned' /\ TimerInv' /\ EndedStaysEnded'
    BY <1>1, <1>2, <1>6 DEF LoadingInv, LiveSourceIsOwned, TimerInv, EndedStaysEnded, Live
  <1>8. readyState[s] = "open" /\ retryCount[s] = 0 /\ Live(s)
    BY DEF ListenerInv, Live
  <1>9. ListenerInv'
    BY <1>2, <1>4, <1>6, <1>8 DEF ListenerInv, Live, InBody
  <1>10. DotTellsTheTruth'
    BY <1>2, <1>3, <1>8 DEF DotTellsTheTruth
  <1> QED
    BY <1>5, <1>7, <1>9, <1>10

LEMMA CloseMessageStep ==
  ASSUME SseInv, NEW s \in Sources, CloseMessage(s)
  PROVE  SseInv'
  <1> USE DEF SseInv, CloseMessage
  <1>1. s = eventSource /\ timers = {} /\ card # "loading"
    BY SseAssumption DEF LiveSourceIsOwned, TimerInv, LoadingInv, Live
  <1>2. TypeOK'
    BY DEF TypeOK
  <1>3. \A t \in Sources : readyState'[t] = "closed"
    BY <1>1 DEF TypeOK, LiveSourceIsOwned, Live
  <1>4. LoadingInv' /\ LiveSourceIsOwned' /\ TimerInv' /\ EndedStaysEnded'
    BY <1>1, <1>3 DEF LoadingInv, LiveSourceIsOwned, TimerInv, EndedStaysEnded, Live
  <1>5. ListenerInv' /\ DotTellsTheTruth'
    BY <1>3 DEF ListenerInv, DotTellsTheTruth, Live
  <1> QED
    BY <1>2, <1>4, <1>5

LEMMA CleanupElementStep == SseInv /\ CleanupElement => SseInv'
  <1> SUFFICES ASSUME SseInv, CleanupElement PROVE SseInv'
    OBVIOUS
  <1> USE DEF SseInv, CleanupElement
  <1>1. \A t \in Sources : readyState'[t] = "closed"
    BY SseAssumption DEF TypeOK, LiveSourceIsOwned, Live, ClosedSource
  <1>2. TypeOK'
    BY DEF TypeOK, ClosedSource
  <1>3. LoadingInv' /\ LiveSourceIsOwned' /\ TimerInv' /\ EndedStaysEnded'
    BY <1>1 DEF LoadingInv, LiveSourceIsOwned, TimerInv, EndedStaysEnded, Live
  <1>4. ListenerInv' /\ DotTellsTheTruth'
    BY <1>1 DEF ListenerInv, DotTellsTheTruth, Live
  <1> QED
    BY <1>2, <1>3, <1>4

LEMMA RemovalStep ==
  SseInv /\ (RemoveCard \/ \E c \in Children : RemoveChild(c)) => SseInv'
  <1> SUFFICES ASSUME SseInv, RemoveCard \/ \E c \in Children : RemoveChild(c)
               PROVE  SseInv'
    OBVIOUS
  <1>1. /\ UNCHANGED <<eventSource, readyState, retryCount, listeners, timers, dot, ended>>
        /\ card' \in {card, "removed"} /\ card # "loading"
        /\ present' \subseteq present
    BY DEF RemoveCard, RemoveChild, InBody
  <1> USE DEF SseInv
  <1>2. TypeOK'
    BY <1>1 DEF TypeOK
  <1>3. LoadingInv' /\ LiveSourceIsOwned' /\ TimerInv' /\ EndedStaysEnded'
    BY <1>1 DEF LoadingInv, LiveSourceIsOwned, TimerInv, EndedStaysEnded, Live
  <1>4. ListenerInv' /\ DotTellsTheTruth'
    BY <1>1 DEF ListenerInv, DotTellsTheTruth, Live, InBody
  <1> QED
    BY <1>2, <1>3, <1>4

LEMMA StutterStep == SseInv /\ UNCHANGED sseVars => SseInv'
  <1> USE DEF SseInv, sseVars
  <1>1. TypeOK /\ UNCHANGED sseVars => TypeOK'
    BY DEF TypeOK
  <1>2. LoadingInv /\ LiveSourceIsOwned /\ TimerInv /\ EndedStaysEnded /\ UNCHANGED sseVars
          => LoadingInv' /\ LiveSourceIsOwned' /\ TimerInv' /\ EndedStaysEnded'
    BY DEF LoadingInv, LiveSourceIsOwned, TimerInv, EndedStaysEnded, Live
  <1>3. ListenerInv /\ DotTellsTheTruth /\ UNCHANGED sseVars => ListenerInv' /\ DotTellsTheTruth'
    BY DEF ListenerInv, DotTellsTheTruth, Live, InBody
  <1> QED
    BY <1>1, <1>2, <1>3

-----------------------------------------------------------------------------
\* What every task of the page preserves: the whole invariant.
THEOREM SseInvariant == Spec => []SseInv
  <1>1. Init => SseInv
    BY InitSse
  <1>2. SseInv /\ [Next]_sseVars => SseInv'
    <2> SUFFICES ASSUME SseInv, [Next]_sseVars PROVE SseInv'
      OBVIOUS
    <2>1. CASE ProcessNode
      BY <2>1, ProcessNodeStep
    <2>2. CASE TimerFires
      BY <2>2, TimerFiresStep
    <2>3. ASSUME NEW s \in Sources, Dropped(s) \/ Refused(s) \/ Opened(s) \/ CloseMessage(s)
          PROVE  SseInv'
      BY <2>3, DroppedStep, RefusedStep, OpenedStep, CloseMessageStep
    <2>4. ASSUME NEW s \in Sources, NEW c \in Children, Message(s, c)
          PROVE  SseInv'
      BY <2>4, MessageStep
    <2>5. CASE CleanupElement
      BY <2>5, CleanupElementStep
    <2>6. CASE RemoveCard \/ \E c \in Children : RemoveChild(c)
      BY <2>6, RemovalStep
    <2>7. CASE UNCHANGED sseVars
      BY <2>7, StutterStep
    <2> QED
      BY <2>1, <2>2, <2>3, <2>4, <2>5, <2>6, <2>7 DEF Next
  <1> QED
    BY <1>1, <1>2, PTL DEF Spec

\* The extension's and the page's variables keep their types; the back-off of
\* ensureEventSource in particular never leaves 0 .. MaxRetryCount.
THEOREM SseTypes == Spec => []TypeOK
  BY SseInvariant, PTL DEF SseInv

\* The page never holds two streams, and the one it holds is the one that
\* maybeCloseSSESource and beforeCleanupElement close.
THEOREM OneOwnedSource == Spec => []LiveSourceIsOwned
  BY SseInvariant, PTL DEF SseInv

\* No reconnect loses or doubles a child's listener: an event of an open
\* stream is swapped in exactly once.
THEOREM EventsSwappedOnce == Spec => []SwappedOnce
  <1>1. SseInv => SwappedOnce
    BY DEF SseInv, ListenerInv, SwappedOnce, Live
  <1> QED
    BY <1>1, SseInvariant, PTL

\* The dot of ticker.js is on exactly while the stream is open.
THEOREM DotIsTruthful == Spec => []DotTellsTheTruth
  BY SseInvariant, PTL DEF SseInv

\* A stream ended by sse-close stays ended.
THEOREM EndIsFinal == Spec => []EndedStaysEnded
  BY SseInvariant, PTL DEF SseInv
=============================================================================
