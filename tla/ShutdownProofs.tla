--------------------------- MODULE ShutdownProofs ---------------------------
(***************************************************************************)
(* Theorems about SseHub inside Shutdown: what a client sees of its item,  *)
(* for any number of clients and events and any capacity of the channels.  *)
(***************************************************************************)
EXTENDS Shutdown, SequenceTheorems, TLAPS

-----------------------------------------------------------------------------
(***************************************************************************)
(* Types.                                                                  *)
(***************************************************************************)

\* The types hold initially.
LEMMA HubTypeInit == HubInit => HubTypeOK
<1> SUFFICES ASSUME HubInit PROVE HubTypeOK
  OBVIOUS
<1>1. <<>> \in Seq(Items) /\ <<>> \in Seq(Nat)
  OBVIOUS
<1>2. 0 \in 0..MaxEvents /\ 0 \in 0..MaxFaults
  BY HubAssumption
<1> QED
  BY <1>1, <1>2, HubAssumption DEF HubInit, HubTypeOK

\* Events, the connection of Redis and the token keep the types.
LEMMA HubTypeBus ==
    ASSUME HubTypeOK,
           \/ \E i \in Items : Publish(i)
           \/ RedisDown \/ RedisUp \/ Cancel
    PROVE  HubTypeOK'
<1>1. CASE \E i \in Items : Publish(i)
  <2>1. published' \in 0..MaxEvents /\ wire' \in Seq(Items)
    BY <1>1, HubAssumption DEF Publish, HubTypeOK
  <2> QED
    BY <1>1, <2>1 DEF Publish, streams, HubTypeOK
<1>2. CASE RedisDown
  <2>1. faults' \in 0..MaxFaults
    BY <1>2, HubAssumption DEF RedisDown, HubTypeOK
  <2>2. wire' \in Seq(Items)
    <3>1. PICK n \in 0..Len(wire) : wire' = SubSeq(wire, 1, n)
      BY <1>2 DEF RedisDown, Prefixes
    <3>2. wire \in Seq(Items) /\ Len(wire) \in Nat
      BY DEF HubTypeOK
    <3>3. \A k \in 1..n : k \in 1..Len(wire)
      BY <3>2
    <3> QED
      BY <3>1, <3>2, <3>3, SubSeqProperties
  <2> QED
    BY <1>2, <2>1, <2>2 DEF RedisDown, streams, HubTypeOK
<1>3. CASE RedisUp
  BY <1>3 DEF RedisUp, streams, HubTypeOK
<1>4. CASE Cancel
  BY <1>4 DEF Cancel, bus, streams, HubTypeOK
<1> QED
  BY <1>1, <1>2, <1>3, <1>4

\* The steps of the listener keep the types.
LEMMA HubTypeListen == ASSUME HubTypeOK, Listen PROVE HubTypeOK'
<1> USE DEF ListenerAt, streams, bus
<1>1. CASE Subscribed \/ StopListening
  <2>1. <<>> \in Seq(Items)
    OBVIOUS
  <2> QED
    BY <1>1, <2>1 DEF Subscribed, StopListening, HubTypeOK
<1>2. CASE SubscribeFails \/ StreamBroken \/ Retry
  BY <1>2 DEF SubscribeFails, StreamBroken, Retry, AfterSleep, HubTypeOK
<1>3. CASE Take
  <2>1. Head(wire) \in Items /\ wire' \in Seq(Items)
    BY <1>3 DEF Take, HubTypeOK
  <2> QED
    BY <1>3, <2>1, HubAssumption DEF Take, HubTypeOK
<1>4. CASE Route
  <2>1. sent' \in [Items -> Nat]
    BY <1>4 DEF Route, HubTypeOK
  <2> QED
    BY <1>4, <2>1, HubAssumption DEF Route, HubTypeOK
<1>5. CASE RouteNobody
  BY <1>5 DEF RouteNobody, HubTypeOK
<1> QED
  BY <1>1, <1>2, <1>3, <1>4, <1>5 DEF Listen

\* The oldest event of a channel, and what a receiver may read.
LEMMA OldestType ==
    ASSUME HubTypeOK, NEW i \in Items
    PROVE  /\ sent[i] \in Nat /\ Oldest(i) \in Nat \ {0} /\ Oldest(i) <= sent[i] + 1
           /\ Oldest(i) = 1 \/ Oldest(i) = sent[i] - Capacity + 1
BY HubAssumption DEF Oldest, HubTypeOK

\* A stream that is not away has an item.
LEMMA ConnectedTopic ==
    ASSUME HubTypeOK, NEW s \in Streams, at[s] # "away"
    PROVE  topic[s] \in Items
BY DEF HubTypeOK

\* The steps of a stream keep the types.
LEMMA HubTypeServe ==
    ASSUME HubTypeOK, NEW s \in Streams,
           Serve(s) \/ Leave(s) \/ \E i \in Items : Connect(s, i)
    PROVE  HubTypeOK'
<1> USE DEF Goto, streams, bus
<1>1. CASE Serve(s)
  <2>1. CASE Subscribe(s)
    <3>1. topic[s] \in Items /\ sent[topic[s]] \in Nat
      BY <2>1, ConnectedTopic, OldestType DEF Subscribe
    <3> QED
      BY <2>1, <3>1 DEF Subscribe, HubTypeOK
  <2>2. CASE Recv(s)
    <3>1. got' \in [Streams -> Seq(Nat)] /\ next' \in [Streams -> Nat]
      BY <2>2 DEF Recv, HubTypeOK
    <3> QED
      BY <2>2, <3>1 DEF Recv, HubTypeOK
  <2>3. CASE Lagged(s)
    <3>1. Oldest(topic[s]) \in Nat
      BY <2>3, ConnectedTopic, OldestType DEF Lagged
    <3> QED
      BY <2>3, <3>1 DEF Lagged, HubTypeOK
  <2>4. CASE TryRecv(s)
    BY <2>4 DEF TryRecv, LatestEvent, HubTypeOK
  <2>5. CASE Resync(s)
    <3>1. Oldest(topic[s]) \in Nat
      BY <2>5, ConnectedTopic, OldestType DEF Resync
    <3>2. AfterResync(s) \in Nat
      BY <3>1 DEF AfterResync, HubTypeOK
    <3>3. got' \in [Streams -> Seq(Nat)]
      BY <2>5 DEF Resync, HubTypeOK
    <3> QED
      BY <2>5, <3>2, <3>3 DEF Resync, HubTypeOK
  <2>6. CASE EndStream(s)
    BY <2>6, HubAssumption DEF EndStream, Close, HubTypeOK
  <2> QED
    BY <1>1, <2>1, <2>2, <2>3, <2>4, <2>5, <2>6 DEF Serve
<1>2. CASE Leave(s)
  BY <1>2, HubAssumption DEF Leave, Close, HubTypeOK
<1>3. CASE \E i \in Items : Connect(s, i)
  BY <1>3, HubAssumption DEF Connect, HubTypeOK
<1> QED
  BY <1>1, <1>2, <1>3

\* Every step of the hub keeps the types.
LEMMA HubTypeNext == ASSUME HubTypeOK, [HubNext]_hubVars PROVE HubTypeOK'
<1>1. CASE UNCHANGED hubVars
  BY <1>1 DEF hubVars, bus, streams, HubTypeOK
<1> QED
  BY <1>1, HubTypeBus, HubTypeListen, HubTypeServe DEF HubNext, HubStep

-----------------------------------------------------------------------------
(***************************************************************************)
(* What a client has been given.                                           *)
(***************************************************************************)

\* A stream that is not connected holds nothing; only a resync has a latest
\* event.
Fresh(s) ==
    /\ ~Connected(s) => got[s] = <<>>
    /\ at[s] # "drain" => latest[s] = 0

\* The receiver is somewhere in its channel, past what the client was given
\* and past the latest event of a resync, which the client was not given.
Placed(s) ==
    Connected(s) =>
        /\ base[s] < next[s] /\ next[s] <= sent[topic[s]] + 1
        /\ latest[s] < next[s]
        /\ \A k \in 1..Len(got[s]) :
              got[s][k] < next[s] /\ (latest[s] # 0 => got[s][k] < latest[s])

Ordered(s) == \A j, k \in 1..Len(got[s]) : j < k => got[s][j] < got[s][k]

\* While its channel has kept everything since it subscribed, a receiver
\* does not lag.
Complete(s) ==
    Connected(s) /\ sent[topic[s]] - base[s] <= Capacity =>
        /\ at[s] = "open"
        /\ next[s] = base[s] + Len(got[s]) + 1
        /\ \A k \in 1..Len(got[s]) : got[s][k] = base[s] + k

StreamInv(s) == Fresh(s) /\ Placed(s) /\ Ordered(s) /\ Complete(s)

\* Every stream starts away.
LEMMA StreamInit == ASSUME HubInit, NEW s \in Streams PROVE StreamInv(s)
<1>1. at[s] = "away" /\ got[s] = <<>> /\ latest[s] = 0
  BY DEF HubInit
<1> QED
  BY <1>1 DEF StreamInv, Fresh, Placed, Ordered, Complete, Connected

\* A stream whose own state does not change, while its channel does not or
\* gets one more event.
LEMMA StreamStays ==
    ASSUME HubTypeOK, HubTypeOK', NEW s \in Streams, StreamInv(s),
           at'[s] = at[s], topic'[s] = topic[s], base'[s] = base[s],
           next'[s] = next[s], latest'[s] = latest[s], got'[s] = got[s],
           \A i \in Items : sent'[i] >= sent[i]
    PROVE  StreamInv(s)'
<1>1. Fresh(s)' /\ Ordered(s)'
  BY DEF StreamInv, Fresh, Ordered, Connected
<1>2. CASE ~Connected(s)
  BY <1>1, <1>2 DEF StreamInv, Placed, Complete, Connected
<1>3. CASE Connected(s)
  <2>1. /\ topic[s] \in Items /\ sent[topic[s]] \in Nat /\ sent'[topic[s]] \in Nat
        /\ sent'[topic[s]] >= sent[topic[s]]
    BY <1>3, ConnectedTopic DEF HubTypeOK, Connected
  <2>2. base[s] \in Nat /\ next[s] \in Nat /\ latest[s] \in Nat
    BY DEF HubTypeOK
  <2>3. Placed(s)'
    BY <1>3, <2>1, <2>2 DEF StreamInv, Placed, Connected
  <2>4. Complete(s)'
    BY <1>3, <2>1, <2>2, HubAssumption DEF StreamInv, Complete, Connected
  <2> QED
    BY <1>1, <2>3, <2>4 DEF StreamInv
<1> QED
  BY <1>2, <1>3

\* A stream that ends has nothing left.
LEMMA StreamCloses ==
    ASSUME HubTypeOK, NEW s \in Streams, StreamInv(s), at[s] = "open", Close(s)
    PROVE  StreamInv(s)'
<1>1. at'[s] = "away" /\ got'[s] = <<>> /\ latest'[s] = 0
  BY DEF Close, Goto, HubTypeOK, StreamInv, Fresh
<1> QED
  BY <1>1 DEF StreamInv, Fresh, Placed, Ordered, Complete, Connected

\* A stream that joins starts behind the newest event.
LEMMA StreamJoins ==
    ASSUME HubTypeOK, NEW s \in Streams, StreamInv(s),
           Subscribe(s) \/ \E i \in Items : Connect(s, i)
    PROVE  StreamInv(s)'
<1>1. CASE \E i \in Items : Connect(s, i)
  <2>1. at'[s] = "joining" /\ got'[s] = <<>> /\ latest'[s] = 0
    BY <1>1 DEF Connect, Goto, HubTypeOK, StreamInv, Fresh, Connected
  <2> QED
    BY <2>1 DEF StreamInv, Fresh, Placed, Ordered, Complete, Connected
<1>2. CASE Subscribe(s)
  <2>1. PICK n \in Nat : n = sent[topic[s]]
    BY <1>2, ConnectedTopic, OldestType DEF Subscribe
  <2>2. /\ at'[s] = "open" /\ got'[s] = <<>> /\ latest'[s] = 0
        /\ base'[s] = n /\ next'[s] = n + 1 /\ sent'[topic'[s]] = n
    BY <1>2, <2>1 DEF Subscribe, Goto, HubTypeOK, StreamInv, Fresh, Connected
  <2> QED
    BY <2>2 DEF StreamInv, Fresh, Placed, Ordered, Complete, Connected
<1> QED
  BY <1>1, <1>2

\* The numbers of a connected stream.
LEMMA StreamNumbers ==
    ASSUME HubTypeOK, NEW s \in Streams, Connected(s)
    PROVE  /\ topic[s] \in Items /\ sent[topic[s]] \in Nat
           /\ base[s] \in Nat /\ next[s] \in Nat /\ latest[s] \in Nat
           /\ got[s] \in Seq(Nat) /\ Len(got[s]) \in Nat
           /\ \A k \in 1..Len(got[s]) : got[s][k] \in Nat
           /\ Oldest(topic[s]) \in Nat \ {0} /\ Oldest(topic[s]) <= sent[topic[s]] + 1
<1>1. topic[s] \in Items
  BY ConnectedTopic DEF Connected
<1>2. got[s] \in Seq(Nat)
  BY DEF HubTypeOK
<1>3. Len(got[s]) \in Nat /\ \A k \in 1..Len(got[s]) : got[s][k] \in Nat
  BY <1>2
<1> QED
  BY <1>1, <1>2, <1>3, OldestType DEF HubTypeOK

\* A channel that has kept everything since a receiver subscribed is not
\* ahead of it.
LEMMA KeptAll ==
    ASSUME HubTypeOK, NEW s \in Streams, Connected(s), StreamInv(s),
           sent[topic[s]] - base[s] <= Capacity
    PROVE  ~Behind(s)
<1>1. base[s] < next[s]
  BY DEF StreamInv, Placed
<1>2. Oldest(topic[s]) = 1 \/ Oldest(topic[s]) = sent[topic[s]] - Capacity + 1
  BY StreamNumbers, OldestType
<1> QED
  BY <1>1, <1>2, StreamNumbers, HubAssumption DEF Behind

\* What the client is given next is larger than all it has.
LEMMA Extended ==
    ASSUME NEW q \in Seq(Nat), NEW e \in Nat,
           \A k \in 1..Len(q) : q[k] < e,
           \A j, k \in 1..Len(q) : j < k => q[j] < q[k]
    PROVE  /\ Len(Append(q, e)) = Len(q) + 1
           /\ \A k \in 1..Len(q) : Append(q, e)[k] = q[k]
           /\ Append(q, e)[Len(q) + 1] = e
           /\ \A j, k \in 1..(Len(q) + 1) : j < k => Append(q, e)[j] < Append(q, e)[k]
<1>1. /\ Len(Append(q, e)) = Len(q) + 1 /\ Len(q) \in Nat
      /\ \A k \in 1..Len(q) : Append(q, e)[k] = q[k]
      /\ Append(q, e)[Len(q) + 1] = e
  OBVIOUS
<1>2. ASSUME NEW j \in 1..(Len(q) + 1), NEW k \in 1..(Len(q) + 1), j < k
      PROVE  Append(q, e)[j] < Append(q, e)[k]
  <2>1. j \in 1..Len(q)
    BY <1>1, <1>2
  <2>2. k \in 1..Len(q) \/ k = Len(q) + 1
    BY <1>1
  <2> QED
    BY <1>1, <1>2, <2>1, <2>2
<1> QED
  BY <1>1, <1>2

\* A client is given the event at the place of its receiver.
LEMMA StreamRecv ==
    ASSUME HubTypeOK, NEW s \in Streams, StreamInv(s), Recv(s)
    PROVE  StreamInv(s)'
<1>1. at[s] = "open" /\ Connected(s) /\ Available(s) /\ latest[s] = 0
  BY DEF Recv, Connected, StreamInv, Fresh
<1>2. PICK n \in Nat, e \in Nat, b \in Nat :
          n = sent[topic[s]] /\ e = next[s] /\ b = base[s]
  BY <1>1, StreamNumbers
<1>3. PICK q \in Seq(Nat) : q = got[s]
  BY <1>1, StreamNumbers
<1>4. /\ at'[s] = "open" /\ latest'[s] = 0 /\ base'[s] = b
      /\ next'[s] = e + 1 /\ got'[s] = Append(q, e) /\ sent'[topic'[s]] = n
  BY <1>1, <1>2, <1>3 DEF Recv, HubTypeOK
<1>5. /\ b < e /\ e <= n
      /\ \A k \in 1..Len(q) : q[k] < e
      /\ \A j, k \in 1..Len(q) : j < k => q[j] < q[k]
  BY <1>1, <1>2, <1>3 DEF StreamInv, Placed, Ordered, Available
<1>6. /\ Len(Append(q, e)) = Len(q) + 1 /\ Len(q) \in Nat
      /\ \A k \in 1..Len(q) : Append(q, e)[k] = q[k] /\ q[k] \in Nat
      /\ Append(q, e)[Len(q) + 1] = e
      /\ \A j, k \in 1..(Len(q) + 1) : j < k => Append(q, e)[j] < Append(q, e)[k]
  BY <1>5, Extended
<1>7. Fresh(s)' /\ Ordered(s)'
  BY <1>4, <1>6 DEF Fresh, Ordered, Connected
<1>8. Placed(s)'
  <2>1. \A k \in 1..(Len(q) + 1) : Append(q, e)[k] < e + 1
    BY <1>5, <1>6
  <2> QED
    BY <1>4, <1>5, <1>6, <2>1 DEF Placed, Connected
<1>9. Complete(s)'
  <2> SUFFICES ASSUME n - b <= Capacity
               PROVE  /\ e + 1 = b + (Len(q) + 1) + 1
                      /\ \A k \in 1..(Len(q) + 1) : Append(q, e)[k] = b + k
    BY <1>4, <1>6 DEF Complete, Connected
  <2>1. e = b + Len(q) + 1 /\ \A k \in 1..Len(q) : q[k] = b + k
    BY <1>1, <1>2, <1>3 DEF StreamInv, Complete
  <2> QED
    BY <1>6, <2>1
<1> QED
  BY <1>7, <1>8, <1>9 DEF StreamInv

\* A receiver that lags, or drains an event, moves ahead only.
LEMMA StreamLags ==
    ASSUME HubTypeOK, NEW s \in Streams, StreamInv(s), Lagged(s) \/ TryRecv(s)
    PROVE  StreamInv(s)'
<1>1. Connected(s)
  BY DEF Lagged, TryRecv, Connected
<1>2. PICK n \in Nat, e \in Nat, b \in Nat, v \in Nat, o \in Nat :
          /\ n = sent[topic[s]] /\ e = next[s] /\ b = base[s]
          /\ v = latest[s] /\ o = Oldest(topic[s])
  BY <1>1, StreamNumbers
<1>3. /\ at'[s] = "drain" /\ base'[s] = b /\ got'[s] = got[s] /\ sent'[topic'[s]] = n
      /\ b < e /\ v < e /\ o <= n + 1
      /\ \A k \in 1..Len(got[s]) : got[s][k] \in Nat /\ got[s][k] < e
  BY <1>1, <1>2, StreamNumbers
     DEF Lagged, TryRecv, Goto, HubTypeOK, StreamInv, Placed
<1>4. n - b > Capacity
  <2>1. at[s] = "drain" \/ Behind(s)
    BY DEF Lagged, TryRecv
  <2> QED
    BY <1>1, <1>2, <2>1, KeptAll, HubAssumption DEF StreamInv, Complete
<1>5. Fresh(s)' /\ Ordered(s)'
  BY <1>3 DEF StreamInv, Fresh, Ordered, Connected
<1>6. Complete(s)'
  BY <1>3, <1>4, HubAssumption DEF Complete
<1>7. Placed(s)'
  <2>1. CASE Lagged(s)
    <3>1. next'[s] = o /\ e < o /\ latest'[s] = 0 /\ v = 0
      BY <1>2, <2>1 DEF Lagged, Behind, HubTypeOK, StreamInv, Fresh
    <3> QED
      BY <1>3, <3>1 DEF Placed
  <2>2. CASE TryRecv(s)
    <3>1. next'[s] = e + 1 /\ e <= n /\ latest'[s] = e
      BY <1>2, <2>2 DEF TryRecv, LatestEvent, Available, HubTypeOK
    <3> QED
      BY <1>3, <3>1 DEF Placed
  <2> QED
    BY <2>1, <2>2
<1> QED
  BY <1>5, <1>6, <1>7 DEF StreamInv

\* The event shown after a resync is newer than all before.
LEMMA StreamResyncs ==
    ASSUME HubTypeOK, NEW s \in Streams, StreamInv(s), Resync(s)
    PROVE  StreamInv(s)'
<1>1. Connected(s) /\ at[s] = "drain"
  BY DEF Resync, Connected
<1>2. PICK n \in Nat, e \in Nat, b \in Nat, v \in Nat, o \in Nat :
          /\ n = sent[topic[s]] /\ e = next[s] /\ b = base[s]
          /\ v = latest[s] /\ o = Oldest(topic[s])
  BY <1>1, StreamNumbers
<1>3. PICK q \in Seq(Nat) : q = got[s]
  BY <1>1, StreamNumbers
<1>4. PICK f \in Nat : f = AfterResync(s)
  BY <1>2 DEF AfterResync
<1>5. e <= f /\ f <= n + 1 /\ o <= n + 1 /\ e <= n + 1 /\ b < e /\ v < e
  BY <1>1, <1>2, <1>4, StreamNumbers DEF AfterResync, Behind, StreamInv, Placed
<1>6. /\ at'[s] = "open" /\ latest'[s] = 0 /\ base'[s] = b /\ next'[s] = f
      /\ got'[s] = (IF v = 0 THEN q ELSE Append(q, v)) /\ sent'[topic'[s]] = n
  BY <1>2, <1>3, <1>4 DEF Resync, Goto, HubTypeOK
<1>7. /\ \A k \in 1..Len(q) : q[k] < e /\ q[k] \in Nat /\ (v # 0 => q[k] < v)
      /\ \A j, k \in 1..Len(q) : j < k => q[j] < q[k]
  BY <1>1, <1>2, <1>3, StreamNumbers DEF StreamInv, Placed, Ordered
<1>8. n - b > Capacity
  BY <1>1, <1>2, HubAssumption DEF StreamInv, Complete
<1>9. Fresh(s)'
  BY <1>6 DEF Fresh, Connected
<1>10. Complete(s)'
  BY <1>6, <1>8, HubAssumption DEF Complete
<1>11. Placed(s)' /\ Ordered(s)'
  <2>1. CASE v = 0
    BY <1>5, <1>6, <1>7, <2>1 DEF Placed, Ordered
  <2>2. CASE v # 0
    <3>1. /\ Len(Append(q, v)) = Len(q) + 1 /\ Len(q) \in Nat
          /\ \A k \in 1..Len(q) : Append(q, v)[k] = q[k]
          /\ Append(q, v)[Len(q) + 1] = v
          /\ \A j, k \in 1..(Len(q) + 1) : j < k => Append(q, v)[j] < Append(q, v)[k]
      BY <1>7, <2>2, Extended
    <3>2. \A k \in 1..(Len(q) + 1) : Append(q, v)[k] < f
      BY <1>5, <1>7, <3>1
    <3> QED
      BY <1>5, <1>6, <2>2, <3>1, <3>2 DEF Placed, Ordered
  <2> QED
    BY <2>1, <2>2
<1> QED
  BY <1>9, <1>10, <1>11 DEF StreamInv

HubInv == HubTypeOK /\ \A s \in Streams : StreamInv(s)

\* What a step of one stream leaves alone.
LEMMA OthersUntouched ==
    ASSUME HubTypeOK, NEW s \in Streams, NEW t \in Streams, t # s,
           Serve(s) \/ Leave(s) \/ \E i \in Items : Connect(s, i)
    PROVE  /\ at'[t] = at[t] /\ topic'[t] = topic[t] /\ base'[t] = base[t]
           /\ next'[t] = next[t] /\ latest'[t] = latest[t] /\ got'[t] = got[t]
           /\ sent' = sent
<1> USE DEF HubTypeOK, Goto, streams, bus
<1>1. CASE Subscribe(s) \/ Recv(s)
  BY <1>1 DEF Subscribe, Recv
<1>2. CASE Lagged(s) \/ TryRecv(s)
  BY <1>2 DEF Lagged, TryRecv
<1>3. CASE Resync(s)
  BY <1>3 DEF Resync
<1>4. CASE EndStream(s) \/ Leave(s)
  BY <1>4 DEF EndStream, Leave, Close
<1>5. CASE \E i \in Items : Connect(s, i)
  BY <1>5 DEF Connect
<1> QED
  BY <1>1, <1>2, <1>3, <1>4, <1>5 DEF Serve

\* A step of one stream leaves what is known of the others alone.
LEMMA OthersStay ==
    ASSUME HubInv, HubTypeOK', NEW s \in Streams, NEW t \in Streams, t # s,
           Serve(s) \/ Leave(s) \/ \E i \in Items : Connect(s, i)
    PROVE  StreamInv(t)'
<1>1. /\ at'[t] = at[t] /\ topic'[t] = topic[t] /\ base'[t] = base[t]
      /\ next'[t] = next[t] /\ latest'[t] = latest[t] /\ got'[t] = got[t]
      /\ sent' = sent
  BY OthersUntouched DEF HubInv
<1>2. \A i \in Items : sent'[i] >= sent[i]
  BY <1>1 DEF HubInv, HubTypeOK
<1> QED
  BY <1>1, <1>2, StreamStays DEF HubInv

\* A step of the hub is one of a stream, one more event in a channel, or
\* leaves streams and channels alone.
LEMMA HubSteps ==
    ASSUME HubTypeOK, [HubNext]_hubVars
    PROVE  \/ \E s \in Streams : Serve(s) \/ Leave(s) \/ \E i \in Items : Connect(s, i)
           \/ /\ UNCHANGED streams /\ hand \in Items
              /\ sent' = [sent EXCEPT ![hand] = sent[hand] + 1]
           \/ UNCHANGED <<streams, sent>>
<1>1. CASE Listen
  <2>1. CASE Route
    BY <2>1 DEF Route, HubTypeOK
  <2>2. CASE ~Route
    BY <1>1, <2>2 DEF Listen, Subscribed, SubscribeFails, StreamBroken, Retry,
       StopListening, Take, RouteNobody
  <2> QED
    BY <2>1, <2>2
<1>2. CASE \/ \E i \in Items : Publish(i)
           \/ RedisDown \/ RedisUp \/ Cancel \/ UNCHANGED hubVars
  BY <1>2 DEF Publish, RedisDown, RedisUp, Cancel, hubVars
<1> QED
  BY <1>1, <1>2 DEF HubNext, HubStep

\* Every step of the hub keeps what is known of its streams.
LEMMA HubInvNext == ASSUME HubInv, [HubNext]_hubVars PROVE HubInv'
<1>1. HubTypeOK /\ HubTypeOK'
  BY HubTypeNext DEF HubInv
<1>2. ASSUME NEW s \in Streams, Serve(s) \/ Leave(s) \/ \E i \in Items : Connect(s, i)
      PROVE  HubInv'
  <2>1. StreamInv(s)
    BY DEF HubInv
  <2>2. StreamInv(s)'
    <3>1. CASE Recv(s)
      BY <1>1, <2>1, <3>1, StreamRecv
    <3>2. CASE Lagged(s) \/ TryRecv(s)
      BY <1>1, <2>1, <3>2, StreamLags
    <3>3. CASE Resync(s)
      BY <1>1, <2>1, <3>3, StreamResyncs
    <3>4. CASE EndStream(s) \/ Leave(s)
      BY <1>1, <2>1, <3>4, StreamCloses DEF EndStream, Leave
    <3>5. CASE Subscribe(s) \/ \E i \in Items : Connect(s, i)
      BY <1>1, <2>1, <3>5, StreamJoins
    <3> QED
      BY <1>2, <3>1, <3>2, <3>3, <3>4, <3>5 DEF Serve
  <2> QED
    BY <1>1, <1>2, <2>2, OthersStay DEF HubInv
<1>3. ASSUME UNCHANGED streams, \A i \in Items : sent'[i] >= sent[i] PROVE HubInv'
  BY <1>1, <1>3, StreamStays DEF HubInv, streams
<1>4. CASE /\ UNCHANGED streams /\ hand \in Items
           /\ sent' = [sent EXCEPT ![hand] = sent[hand] + 1]
  <2>1. \A i \in Items : sent'[i] >= sent[i]
    BY <1>1, <1>4 DEF HubTypeOK
  <2> QED
    BY <1>3, <1>4, <2>1
<1>5. CASE UNCHANGED <<streams, sent>>
  <2>1. \A i \in Items : sent'[i] >= sent[i]
    BY <1>1, <1>5 DEF HubTypeOK
  <2> QED
    BY <1>3, <1>5, <2>1
<1> QED
  BY <1>1, <1>2, <1>4, <1>5, HubSteps

-----------------------------------------------------------------------------
(***************************************************************************)
(* The hub within the process that ends.                                   *)
(***************************************************************************)

\* A handler that still runs has a statement to run.
HandlersInv == \A h \in Handlers : ~HasEnded(h) => todo[h] > 0

ShutdownInv == HubInv /\ ShutdownTypeOK /\ HandlersInv

\* The invariant holds when the process starts.
LEMMA ShutdownInvInit == ShutdownInit => ShutdownInv
<1> SUFFICES ASSUME ShutdownInit PROVE ShutdownInv
  OBVIOUS
<1>1. HubInv
  BY HubTypeInit, StreamInit DEF ShutdownInit, HubInv
<1>2. todo \in [Handlers -> 0..MaxStatements] /\ HandlersInv
  BY HandlersAssumption DEF ShutdownInit, HandlersInv
<1> QED
  BY <1>1, <1>2 DEF ShutdownInit, ShutdownInv, ShutdownTypeOK, HubInv

\* A step of the process is a step of the hub, or leaves the hub alone.
LEMMA HubPart == ShutdownNext => [HubNext]_hubVars
BY DEF ShutdownNext, Beside, Join, Accept, Handle, Validate, Cached, Register, Sleep,
   Wake, CallEnds, Disconnect, Acquire, AcquireFails, Statement,
   Signal, StopAccepting, Exit, HubNext, HubStep

\* Every step of the process keeps the invariant.
LEMMA ShutdownInvNext ==
    ASSUME ShutdownInv, [ShutdownNext]_allVars
    PROVE  ShutdownInv'
<1>1. HubInv' /\ HubTypeOK'
  <2>1. [HubNext]_hubVars
    BY HubPart DEF allVars
  <2> QED
    BY <2>1, HubInvNext DEF ShutdownInv, HubInv
<1>2. ASSUME UNCHANGED mainVars PROVE ShutdownInv'
  BY <1>1, <1>2 DEF mainVars, ShutdownInv, ShutdownTypeOK, HandlersInv, HasEnded
<1>3. ASSUME NEW h \in Handlers,
             Accept(h) \/ Validate(h) \/ Acquire(h) \/ AcquireFails(h) \/ Disconnect(h)
      PROVE  ShutdownInv'
  <2>1. PICK label : /\ hat' = [hat EXCEPT ![h] = label]
                     /\ label \in {"peek", "sleep", "call", "ready", "statement", "failed",
                                  "refused"}
    BY <1>3 DEF Accept, Validate, Cached, Register, Sleep, Wake, CallEnds, Acquire,
       AcquireFails, Disconnect, MoveHandler
  <2>2. ~HasEnded(h) /\ UNCHANGED <<server, pool, todo>> /\ busy' \in BOOLEAN
    BY <1>3 DEF Accept, Validate, Cached, Register, Sleep, Wake, CallEnds, Acquire,
       AcquireFails, Disconnect, Active, HasEnded, ShutdownInv, ShutdownTypeOK
  <2> QED
    BY <1>1, <2>1, <2>2 DEF HasEnded, ShutdownInv, ShutdownTypeOK, HandlersInv
<1>4. ASSUME NEW h \in Handlers, Statement(h) PROVE ShutdownInv'
  <2>1. todo[h] \in 1..MaxStatements
    BY <1>4, HandlersAssumption
       DEF Statement, HasEnded, ShutdownInv, ShutdownTypeOK, HandlersInv
  <2>2. PICK label : /\ hat' = [hat EXCEPT ![h] = label]
                     /\ label \in {IF todo[h] = 1 THEN "ok" ELSE "ready", "failed"}
    BY <1>4 DEF Statement, MoveHandler, AfterStatement
  <2>3. todo' = [todo EXCEPT ![h] = todo[h] - 1] /\ UNCHANGED <<server, pool, busy>>
    BY <1>4 DEF Statement
  <2>4. todo[h] - 1 \in 0..MaxStatements /\ (todo[h] # 1 => todo[h] - 1 > 0)
    BY <2>1, HandlersAssumption
  <2>5. ShutdownTypeOK'
    BY <1>1, <2>2, <2>3, <2>4 DEF ShutdownInv, ShutdownTypeOK
  <2>6. HandlersInv'
    BY <2>2, <2>3, <2>4 DEF ShutdownInv, ShutdownTypeOK, HandlersInv, HasEnded
  <2> QED
    BY <1>1, <2>5, <2>6 DEF ShutdownInv
<1>5. CASE Signal \/ StopAccepting \/ Exit
  BY <1>1, <1>5 DEF Signal, StopAccepting, Exit, ShutdownInv, ShutdownTypeOK, HandlersInv,
     HasEnded
<1> QED
  BY <1>2, <1>3, <1>4, <1>5 DEF ShutdownNext, Beside, Join, Handle, allVars

-----------------------------------------------------------------------------
(***************************************************************************)
(* The theorems.                                                           *)
(***************************************************************************)

\* What is known of streams and handlers holds in every state of the process,
\* before and after the signal.
THEOREM ShutdownInductive == ShutdownSpec => []ShutdownInv
<1>1. ShutdownInit => ShutdownInv
  BY ShutdownInvInit
<1>2. ShutdownInv /\ [ShutdownNext]_allVars => ShutdownInv'
  BY ShutdownInvNext
<1> QED
  BY <1>1, <1>2, PTL DEF ShutdownSpec

\* Every variable of the streams, the listener and the server keeps its type.
THEOREM ShutdownTypeCorrect == ShutdownSpec => []ShutdownTypeOK
<1>1. ShutdownInv => ShutdownTypeOK
  BY DEF ShutdownInv
<1> QED
  BY <1>1, ShutdownInductive, PTL

\* A client gets the events of its item in order and once, through any lag
\* and resync (sse_stream).
THEOREM EventsInOrder == ShutdownSpec => []InOrder
<1>1. ShutdownInv => InOrder
  BY DEF ShutdownInv, HubInv, StreamInv, Ordered, InOrder
<1> QED
  BY <1>1, ShutdownInductive, PTL

\* A client misses nothing while the channel has kept all events since it
\* subscribed (subscribe, sse_stream).
THEOREM EventsComplete == ShutdownSpec => []NothingLost
<1>1. ShutdownInv => NothingLost
  BY DEF ShutdownInv, HubInv, StreamInv, Complete, NothingLost
<1> QED
  BY <1>1, ShutdownInductive, PTL
=============================================================================
