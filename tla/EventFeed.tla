------------------------------ MODULE EventFeed ------------------------------
(***************************************************************************)
(* What the event stream of one replica promises its clients, without the  *)
(* channels, receivers and resyncs that SseHub keeps the promise with: a   *)
(* client is shown ever newer events of its item, and an event is passed   *)
(* over only when more events than Capacity were sent since the last one   *)
(* the client was shown.                                                   *)
(***************************************************************************)
EXTENDS Integers

CONSTANTS
    Items,     \* what events are about
    Streams,   \* clients
    Capacity,  \* events a slow client may be behind without missing any
    NoItem     \* of a client that is not subscribed

VARIABLES
    log,    \* how many events of each item have been sent
    who,    \* the item each client is subscribed to
    shown   \* the newest event each client has seen, by its number

vars == <<log, who, shown>>

Init ==
    /\ log = [i \in Items |-> 0]
    /\ who = [s \in Streams |-> NoItem]
    /\ shown = [s \in Streams |-> 0]

Send(i) ==
    /\ log' = [log EXCEPT ![i] = @ + 1]
    /\ UNCHANGED <<who, shown>>

\* A client sees what is sent from now on.
Subscribe(s, i) ==
    /\ who[s] = NoItem
    /\ who' = [who EXCEPT ![s] = i]
    /\ shown' = [shown EXCEPT ![s] = log[i]]
    /\ UNCHANGED log

Unseen(s) == log[who[s]] - shown[s]

Show(s, e) ==
    /\ who[s] # NoItem
    /\ shown[s] < e /\ e <= log[who[s]]
    /\ e = shown[s] + 1 \/ Unseen(s) > Capacity
    /\ shown' = [shown EXCEPT ![s] = e]
    /\ UNCHANGED <<log, who>>

Leave(s) ==
    /\ who[s] # NoItem
    /\ who' = [who EXCEPT ![s] = NoItem]
    /\ shown' = [shown EXCEPT ![s] = 0]
    /\ UNCHANGED log

Next ==
    \/ \E i \in Items : Send(i)
    \/ \E s \in Streams :
          \/ \E i \in Items : Subscribe(s, i)
          \/ who[s] # NoItem /\ \E e \in 1..log[who[s]] : Show(s, e)
          \/ Leave(s)

Spec == Init /\ [][Next]_vars
=============================================================================
