----------------------------- MODULE LossyFeed -----------------------------
(***************************************************************************)
(* What the live event hub promises to the browsers: one feed of events in *)
(* publish order, which every client follows from the moment it attaches,  *)
(* in order and without repetition.  A client may miss an event only when  *)
(* it has fallen behind: Capacity further events are in the feed by then.  *)
(* LiveEventHub implements this specification.                             *)
(***************************************************************************)
EXTENDS Integers, Sequences

CONSTANTS
  Events,        \* numbered in the order of publication
  Clients,
  Capacity       \* how far a client may lag before it loses events

VARIABLES
  log,           \* the events of the feed
  attached,      \* the clients that follow the feed
  next,          \* for each client the place in log it has got to
  last           \* the last event each client was given, 0 for none

feedVars == <<log, attached, next, last>>

FeedInit ==
  /\ log = <<>>
  /\ attached = {}
  /\ next = [c \in Clients |-> 1]
  /\ last = [c \in Clients |-> 0]

Publish ==
  \E e \in Events :
    /\ \A i \in 1 .. Len(log) : log[i] < e
    /\ log' = Append(log, e)
    /\ UNCHANGED <<attached, next, last>>

Attach(c) ==
  /\ c \notin attached
  /\ attached' = attached \cup {c}
  /\ next' = [next EXCEPT ![c] = Len(log) + 1]
  /\ UNCHANGED <<log, last>>

Receive(c) ==
  /\ c \in attached
  /\ \E i \in next[c] .. Len(log) :
       /\ \A j \in next[c] .. i - 1 : j + Capacity <= Len(log)
       /\ next' = [next EXCEPT ![c] = i + 1]
       /\ last' = [last EXCEPT ![c] = log[i]]
  /\ UNCHANGED <<log, attached>>

Detach(c) ==
  /\ c \in attached
  /\ attached' = attached \ {c}
  /\ next' = [next EXCEPT ![c] = 1]
  /\ last' = [last EXCEPT ![c] = 0]
  /\ UNCHANGED log

FeedNext == Publish \/ \E c \in Clients : Attach(c) \/ Receive(c) \/ Detach(c)

FeedSpec == FeedInit /\ [][FeedNext]_feedVars
=============================================================================
