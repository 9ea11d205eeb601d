--------------------------- MODULE EventFeedProofs ---------------------------
(***************************************************************************)
(* SseHub, inside Shutdown, implements EventFeed: what a client misses it  *)
(* misses because it fell behind by more than the channel holds, for any   *)
(* number of clients and events and any capacity of the channels.          *)
(***************************************************************************)
EXTENDS ShutdownProofs

-----------------------------------------------------------------------------
(***************************************************************************)
(* Where a receiver is, by what its client has seen.                       *)
(***************************************************************************)

\* The receiver is at the event after the newest one shown, or its client
\* has fallen behind and there is an event to read; a resync has drained
\* what lies before its place.
Seen(s) ==
    Connected(s) =>
        /\ at[s] = "open" =>
              \/ next[s] = Newest(s) + 1
              \/ sent[topic[s]] - Newest(s) > Capacity /\ next[s] <= sent[topic[s]]
        /\ at[s] = "drain" =>
              /\ sent[topic[s]] - Newest(s) > Capacity
              /\ IF latest[s] = 0
                 THEN next[s] <= sent[topic[s]]
                 ELSE next[s] = latest[s] + 1 /\ Newest(s) < latest[s]

\* The newest event shown is a number before the place of the receiver.
LEMMA NewestBounds ==
    ASSUME HubTypeOK, NEW s \in Streams, StreamInv(s), Connected(s)
    PROVE  Newest(s) \in Nat /\ Newest(s) < next[s]
<1>1. base[s] \in Nat /\ base[s] < next[s]
  BY StreamNumbers DEF StreamInv, Placed
<1>2. CASE got[s] = <<>>
  BY <1>1, <1>2 DEF Newest
<1>3. CASE got[s] # <<>>
  <2>1. got[s] \in Seq(Nat) /\ Len(got[s]) \in 1..Len(got[s])
    BY <1>3, StreamNumbers
  <2>2. got[s][Len(got[s])] \in Nat /\ got[s][Len(got[s])] < next[s]
    BY <2>1, StreamNumbers DEF StreamInv, Placed
  <2> QED
    BY <1>3, <2>2 DEF Newest
<1> QED
  BY <1>2, <1>3

\* What is appended to what a client was given is the newest.
LEMMA NewestAppended ==
    ASSUME NEW q \in Seq(Nat), NEW e \in Nat
    PROVE  Append(q, e) # <<>> /\ Append(q, e)[Len(Append(q, e))] = e
OBVIOUS

\* A receiver that lags has an event to move to, far from what was shown.
LEMMA BehindFar ==
    ASSUME HubTypeOK, NEW s \in Streams, Connected(s), next[s] > 0, Behind(s)
    PROVE  /\ Oldest(topic[s]) <= sent[topic[s]]
           /\ sent[topic[s]] - next[s] >= Capacity
<1>1. /\ sent[topic[s]] \in Nat /\ next[s] \in Nat /\ topic[s] \in Items
      /\ Oldest(topic[s]) \in Nat
  BY StreamNumbers
<1>2. Oldest(topic[s]) = sent[topic[s]] - Capacity + 1
  BY <1>1, OldestType DEF Behind
<1> QED
  BY <1>1, <1>2, HubAssumption DEF Behind

\* Streams start away.
LEMMA SeenInit == ASSUME HubInit, NEW s \in Streams PROVE Seen(s)
BY DEF HubInit, Seen, Connected

\* A stream whose own state does not change, while its channel does not or
\* gets more events.
LEMMA SeenStays ==
    ASSUME HubTypeOK, HubTypeOK', NEW s \in Streams, StreamInv(s), Seen(s),
           at'[s] = at[s], topic'[s] = topic[s], base'[s] = base[s],
           next'[s] = next[s], latest'[s] = latest[s], got'[s] = got[s],
           \A i \in Items : sent'[i] >= sent[i]
    PROVE  Seen(s)'
<1>1. CASE ~Connected(s)
  BY <1>1 DEF Seen, Connected
<1>2. CASE Connected(s)
  <2>1. PICK n \in Nat, m \in Nat :
            n = sent[topic[s]] /\ m = sent'[topic[s]] /\ m >= n
    BY <1>2, StreamNumbers DEF HubTypeOK
  <2>2. PICK k \in Nat, e \in Nat, v \in Nat :
            k = Newest(s) /\ e = next[s] /\ v = latest[s]
    BY <1>2, StreamNumbers, NewestBounds
  <2>3. Newest(s)' = k /\ sent'[topic'[s]] = m
    BY <2>1, <2>2 DEF Newest
  <2> QED
    BY <1>2, <2>1, <2>2, <2>3, HubAssumption DEF Seen, Connected
<1> QED
  BY <1>1, <1>2

\* A stream that joins has seen nothing and starts after the newest event.
LEMMA SeenJoins ==
    ASSUME HubTypeOK, NEW s \in Streams, StreamInv(s),
           Subscribe(s) \/ \E i \in Items : Connect(s, i)
    PROVE  Seen(s)'
<1>1. CASE \E i \in Items : Connect(s, i)
  <2>1. at'[s] = "joining"
    BY <1>1 DEF Connect, Goto, HubTypeOK
  <2> QED
    BY <2>1 DEF Seen, Connected
<1>2. CASE Subscribe(s)
  <2>1. /\ at'[s] = "open" /\ got'[s] = <<>>
        /\ base'[s] = sent[topic[s]] /\ next'[s] = sent[topic[s]] + 1
    BY <1>2 DEF Subscribe, Goto, HubTypeOK, StreamInv, Fresh, Connected
  <2> QED
    BY <2>1 DEF Seen, Newest
<1> QED
  BY <1>1, <1>2

\* Reading, lagging and resyncing keep a receiver where it belongs.
LEMMA SeenServes ==
    ASSUME HubTypeOK, NEW s \in Streams, StreamInv(s), Seen(s),
           Recv(s) \/ Lagged(s) \/ TryRecv(s) \/ Resync(s)
    PROVE  Seen(s)'
<1>1. Connected(s)
  BY DEF Recv, Lagged, TryRecv, Resync, Connected
<1>2. PICK n \in Nat, e \in Nat, v \in Nat, o \in Nat, k \in Nat :
          /\ n = sent[topic[s]] /\ e = next[s] /\ v = latest[s]
          /\ o = Oldest(topic[s]) /\ k = Newest(s)
  BY <1>1, StreamNumbers, NewestBounds
<1>3. k < e /\ e > 0 /\ e <= n + 1
  BY <1>1, <1>2, NewestBounds DEF StreamInv, Placed
<1>4. Behind(s) => o <= n /\ n - e >= Capacity
  BY <1>1, <1>2, <1>3, BehindFar
<1>5. PICK q \in Seq(Nat) : q = got[s]
  BY <1>1, StreamNumbers
<1>6. CASE Recv(s)
  <2>1. at'[s] = "open" /\ next'[s] = e + 1 /\ got'[s] = Append(q, e)
    BY <1>2, <1>5, <1>6 DEF Recv, HubTypeOK
  <2>2. Newest(s)' = e
    BY <2>1, NewestAppended DEF Newest
  <2> QED
    BY <2>1, <2>2 DEF Seen
<1>7. CASE Lagged(s)
  <2>1. /\ at'[s] = "drain" /\ next'[s] = o /\ latest'[s] = 0 /\ sent'[topic'[s]] = n
        /\ got'[s] = got[s] /\ base'[s] = base[s]
    BY <1>2, <1>7 DEF Lagged, Goto, HubTypeOK, StreamInv, Fresh
  <2>2. Newest(s)' = k
    BY <1>2, <2>1 DEF Newest
  <2>3. o <= n /\ n - k > Capacity
    BY <1>3, <1>4, <1>7, HubAssumption DEF Lagged
  <2> QED
    BY <2>1, <2>2, <2>3 DEF Seen
<1>8. CASE TryRecv(s)
  <2>1. /\ at[s] = "drain" /\ at'[s] = "drain" /\ next'[s] = e + 1 /\ latest'[s] = e
        /\ got'[s] = got[s] /\ base'[s] = base[s] /\ sent'[topic'[s]] = n
    BY <1>2, <1>8 DEF TryRecv, LatestEvent, HubTypeOK
  <2>2. Newest(s)' = k
    BY <1>2, <2>1 DEF Newest
  <2> QED
    BY <1>1, <1>2, <1>3, <2>1, <2>2 DEF Seen
<1>9. CASE Resync(s)
  <2>1. /\ at[s] = "drain" /\ ~Available(s)
        /\ at'[s] = "open" /\ next'[s] = (IF Behind(s) THEN o ELSE e)
        /\ got'[s] = (IF v = 0 THEN q ELSE Append(q, v))
        /\ base'[s] = base[s] /\ sent'[topic'[s]] = n
    BY <1>2, <1>5, <1>9 DEF Resync, AfterResync, Goto, HubTypeOK
  <2>2. /\ n - k > Capacity
        /\ IF v = 0 THEN e <= n ELSE e = v + 1 /\ k < v
    BY <1>1, <1>2, <2>1 DEF Seen
  <2>3. Newest(s)' = IF v = 0 THEN k ELSE v
    BY <1>2, <1>5, <2>1, NewestAppended DEF Newest
  <2>4. CASE v = 0
    <3>1. Behind(s)
      BY <1>2, <2>1, <2>2, <2>4 DEF Available
    <3> QED
      BY <1>4, <2>1, <2>2, <2>3, <2>4, <3>1 DEF Seen
  <2>5. CASE v # 0
    <3>1. CASE Behind(s)
      <4>1. o <= n /\ n - v > Capacity
        BY <1>4, <2>2, <2>5, <3>1, HubAssumption
      <4> QED
        BY <2>1, <2>3, <2>5, <3>1, <4>1 DEF Seen
    <3>2. CASE ~Behind(s)
      BY <2>1, <2>2, <2>3, <2>5, <3>2 DEF Seen
    <3> QED
      BY <3>1, <3>2
  <2> QED
    BY <2>4, <2>5
<1> QED
  BY <1>6, <1>7, <1>8, <1>9

FeedInv == HubInv /\ \A s \in Streams : Seen(s)

\* A stream that ends has seen nothing of its next item.
LEMMA SeenCloses ==
    ASSUME HubTypeOK, NEW s \in Streams, Close(s)
    PROVE  Seen(s)'
<1>1. at'[s] = "away"
  BY DEF Close, Goto, HubTypeOK
<1> QED
  BY <1>1 DEF Seen, Connected

\* Every step of the hub keeps receivers where they belong.
LEMMA FeedInvNext == ASSUME FeedInv, [HubNext]_hubVars PROVE FeedInv'
<1>1. HubInv' /\ HubTypeOK /\ HubTypeOK' /\ \A s \in Streams : StreamInv(s) /\ Seen(s)
  BY HubInvNext DEF FeedInv, HubInv
<1>2. ASSUME NEW s \in Streams, Serve(s) \/ Leave(s) \/ \E i \in Items : Connect(s, i)
      PROVE  FeedInv'
  <2>1. Seen(s)'
    <3>1. CASE Recv(s) \/ Lagged(s) \/ TryRecv(s) \/ Resync(s)
      BY <1>1, <3>1, SeenServes
    <3>2. CASE EndStream(s) \/ Leave(s)
      BY <1>1, <3>2, SeenCloses DEF EndStream, Leave
    <3>3. CASE Subscribe(s) \/ \E i \in Items : Connect(s, i)
      BY <1>1, <3>3, SeenJoins
    <3> QED
      BY <1>2, <3>1, <3>2, <3>3 DEF Serve
  <2>2. ASSUME NEW t \in Streams, t # s PROVE Seen(t)'
    <3>1. /\ at'[t] = at[t] /\ topic'[t] = topic[t] /\ base'[t] = base[t]
          /\ next'[t] = next[t] /\ latest'[t] = latest[t] /\ got'[t] = got[t]
          /\ sent' = sent
      BY <1>1, <1>2, <2>2, OthersUntouched
    <3>2. \A i \in Items : sent'[i] >= sent[i]
      BY <1>1, <3>1 DEF HubTypeOK
    <3> QED
      BY <1>1, <3>1, <3>2, SeenStays
  <2> QED
    BY <1>1, <2>1, <2>2 DEF FeedInv
<1>3. ASSUME UNCHANGED streams, \A i \in Items : sent'[i] >= sent[i] PROVE FeedInv'
  BY <1>1, <1>3, SeenStays DEF FeedInv, streams
<1>4. CASE /\ UNCHANGED streams /\ hand \in Items
           /\ sent' = [sent EXCEPT ![hand] = sent[hand] + 1]
  <2>1. \A i \in Items : sent'[i] >= sent[i]
    BY <1>1, <1>4 DEF HubTypeOK
  <2> QED
    BY <1>3, <1>4, <2>1
<1>5. CASE UNCHANGED <<streams, sent>>
  <2>1. \A i \in Items : sent'[i] >= sent[i]
    BY <1>1, <1>5 DEF HubTypeOK
  <2> QED
    BY <1>3, <1>5, <2>1
<1> QED
  BY <1>1, <1>2, <1>4, <1>5, HubSteps

\* Receivers are where they belong in every state of the process.
THEOREM FeedInductive == ShutdownSpec => []FeedInv
<1>1. ShutdownInit => FeedInv
  BY ShutdownInvInit, SeenInit DEF ShutdownInit, ShutdownInv, FeedInv
<1>2. FeedInv /\ [ShutdownNext]_allVars => FeedInv'
  <2> SUFFICES ASSUME FeedInv, [ShutdownNext]_allVars PROVE FeedInv'
    OBVIOUS
  <2>1. [HubNext]_hubVars
    BY HubPart DEF allVars
  <2> QED
    BY <2>1, FeedInvNext
<1> QED
  BY <1>1, <1>2, PTL DEF ShutdownSpec

\* A client whose receiver has nothing left to read was shown the newest
\* event of its item, however it lagged (sse_stream).
THEOREM NewestIsShown == ShutdownSpec => []NewestShown
<1>1. FeedInv => NewestShown
  <2> SUFFICES ASSUME FeedInv, NEW s \in Streams,
                      at[s] = "open", next[s] > sent[topic[s]]
               PROVE  Newest(s) = sent[topic[s]]
    BY DEF NewestShown
  <2>1. Connected(s) /\ HubTypeOK /\ StreamInv(s) /\ Seen(s)
    BY DEF Connected, FeedInv, HubInv
  <2>2. sent[topic[s]] \in Nat /\ next[s] \in Nat /\ Newest(s) \in Nat
    BY <2>1, StreamNumbers, NewestBounds
  <2>3. next[s] <= sent[topic[s]] + 1
    BY <2>1 DEF StreamInv, Placed
  <2> QED
    BY <2>1, <2>2, <2>3 DEF Seen
<1> QED
  BY <1>1, FeedInductive, PTL

-----------------------------------------------------------------------------
(***************************************************************************)
(* The refinement.                                                         *)
(***************************************************************************)

\* A step of one stream changes the view of that stream only.
LEMMA ViewOfOne ==
    ASSUME HubTypeOK, NEW s \in Streams,
           Serve(s) \/ Leave(s) \/ \E i \in Items : Connect(s, i)
    PROVE  /\ sent' = sent
           /\ Subscription' = [Subscription EXCEPT ![s] = Subscription'[s]]
           /\ Shown' = [Shown EXCEPT ![s] = Shown'[s]]
<1>1. \A t \in Streams : t # s =>
          /\ at'[t] = at[t] /\ topic'[t] = topic[t]
          /\ base'[t] = base[t] /\ got'[t] = got[t]
  BY OthersUntouched
<1>2. sent' = sent
  <2> USE DEF streams, bus
  <2>1. CASE Subscribe(s) \/ Recv(s) \/ Lagged(s) \/ TryRecv(s) \/ Resync(s)
    BY <2>1 DEF Subscribe, Recv, Lagged, TryRecv, Resync
  <2>2. CASE EndStream(s) \/ Leave(s) \/ \E i \in Items : Connect(s, i)
    BY <2>2 DEF EndStream, Leave, Close, Connect
  <2> QED
    BY <2>1, <2>2 DEF Serve
<1>3. \A t \in Streams : t # s =>
          Subscription'[t] = Subscription[t] /\ Shown'[t] = Shown[t]
  BY <1>1 DEF Subscription, Shown, Connected, Newest
<1> QED
  BY <1>2, <1>3 DEF Subscription, Shown

\* A client that subscribes, subscribes to the feed.
LEMMA FeedSubscribe ==
    ASSUME FeedInv, NEW s \in Streams, Subscribe(s)
    PROVE  topic[s] \in Items /\ Feed!Subscribe(s, topic[s])
<1>1. HubTypeOK /\ StreamInv(s) /\ topic[s] \in Items
  BY ConnectedTopic DEF FeedInv, HubInv, Subscribe
<1>2. /\ at[s] = "joining" /\ at'[s] = "open" /\ topic'[s] = topic[s]
      /\ base'[s] = sent[topic[s]] /\ got'[s] = <<>>
  BY <1>1 DEF Subscribe, Goto, HubTypeOK, StreamInv, Fresh, Connected
<1>3. Subscription[s] = NoItem /\ Subscription'[s] = topic[s] /\ Shown'[s] = sent[topic[s]]
  BY <1>2 DEF Subscription, Shown, Newest, Connected
<1>4. /\ sent' = sent
      /\ Subscription' = [Subscription EXCEPT ![s] = Subscription'[s]]
      /\ Shown' = [Shown EXCEPT ![s] = Shown'[s]]
  BY <1>1, ViewOfOne DEF Serve
<1> QED
  BY <1>1, <1>3, <1>4 DEF Feed!Subscribe

\* A client that closes its stream leaves the feed.
LEMMA FeedLeave ==
    ASSUME FeedInv, NEW s \in Streams, EndStream(s) \/ Leave(s)
    PROVE  Feed!Leave(s)
<1>1. HubTypeOK /\ topic[s] \in Items
  BY ConnectedTopic DEF FeedInv, HubInv, EndStream, Leave
<1>2. at[s] = "open" /\ at'[s] = "away"
  BY <1>1 DEF EndStream, Leave, Close, Goto, HubTypeOK
<1>3. Subscription[s] # NoItem /\ Subscription'[s] = NoItem /\ Shown'[s] = 0
  BY <1>1, <1>2, HubAssumption DEF Subscription, Shown, Connected
<1>4. /\ sent' = sent
      /\ Subscription' = [Subscription EXCEPT ![s] = Subscription'[s]]
      /\ Shown' = [Shown EXCEPT ![s] = Shown'[s]]
  BY <1>1, ViewOfOne DEF Serve
<1> QED
  BY <1>3, <1>4 DEF Feed!Leave

\* A read of the receiver shows the event at its place, a resync the newest
\* it drained.
LEMMA FeedShow ==
    ASSUME FeedInv, NEW s \in Streams, Recv(s) \/ (Resync(s) /\ latest[s] # 0)
    PROVE  Subscription[s] # NoItem /\ \E e \in 1..sent[Subscription[s]] : Feed!Show(s, e)
<1>1. HubTypeOK /\ StreamInv(s) /\ Seen(s) /\ Connected(s)
  BY DEF FeedInv, HubInv, Recv, Resync, Connected
<1>2. PICK n \in Nat, k \in Nat :
          n = sent[topic[s]] /\ k = Newest(s)
  BY <1>1, StreamNumbers, NewestBounds
<1>3. PICK e \in Nat : e = IF at[s] = "open" THEN next[s] ELSE latest[s]
  BY <1>1, StreamNumbers
<1>4. at'[s] = "open" /\ topic'[s] = topic[s] /\ Newest(s)' = e
  <2>1. got'[s] = Append(got[s], e) /\ at'[s] = "open" /\ topic'[s] = topic[s]
    BY <1>3 DEF Recv, Resync, Goto, HubTypeOK, FeedInv, HubInv
  <2> QED
    BY <1>1, <2>1, StreamNumbers, NewestAppended DEF Newest
<1>5. k < e /\ e <= n /\ (e = k + 1 \/ n - k > Capacity)
  <2>1. CASE Recv(s)
    <3>1. e = next[s] /\ at[s] = "open" /\ e <= n
      BY <1>2, <1>3, <2>1 DEF Recv, Available
    <3> QED
      BY <1>1, <1>2, <3>1, NewestBounds DEF Seen
  <2>2. CASE Resync(s) /\ latest[s] # 0
    <3>1. e = latest[s] /\ at[s] = "drain"
      BY <1>3, <2>2 DEF Resync
    <3>2. next[s] = e + 1 /\ k < e /\ n - k > Capacity
      BY <1>1, <1>2, <2>2, <3>1 DEF Seen
    <3>3. e + 1 <= n + 1
      BY <1>1, <1>2, <3>2 DEF StreamInv, Placed
    <3> QED
      BY <3>2, <3>3
  <2> QED
    BY <2>1, <2>2
<1>6. /\ topic[s] \in Items /\ Subscription[s] = topic[s] /\ Subscription'[s] = topic[s]
      /\ Shown[s] = k /\ Shown'[s] = e
  BY <1>1, <1>2, <1>4, StreamNumbers DEF Subscription, Shown, Connected
<1>7. /\ sent' = sent
      /\ Subscription' = [Subscription EXCEPT ![s] = Subscription'[s]]
      /\ Shown' = [Shown EXCEPT ![s] = Shown'[s]]
  BY <1>1, ViewOfOne DEF Serve
<1>8. Subscription' = Subscription
  BY <1>6, <1>7 DEF Subscription
<1>9. Feed!Show(s, e)
  BY <1>2, <1>5, <1>6, <1>7, <1>8, HubAssumption DEF Feed!Show, Feed!Unseen
<1>10. e \in 1..sent[Subscription[s]]
  BY <1>2, <1>5, <1>6
<1> QED
  BY <1>6, <1>9, <1>10, HubAssumption

\* What a stream does on its own the feed does not see.
LEMMA FeedStutter ==
    ASSUME FeedInv, NEW s \in Streams,
           \/ Lagged(s) \/ TryRecv(s) \/ (Resync(s) /\ latest[s] = 0)
           \/ \E i \in Items : Connect(s, i)
    PROVE  UNCHANGED <<sent, Subscription, Shown>>
<1>1. HubTypeOK
  BY DEF FeedInv, HubInv
<1>2. CASE Lagged(s) \/ TryRecv(s) \/ (Resync(s) /\ latest[s] = 0)
  <2>1. /\ at[s] \in {"open", "drain"} /\ at'[s] \in {"open", "drain"}
        /\ topic'[s] = topic[s] /\ base'[s] = base[s] /\ got'[s] = got[s]
    BY <1>1, <1>2 DEF Lagged, TryRecv, Resync, Goto, HubTypeOK
  <2>2. Subscription'[s] = Subscription[s] /\ Shown'[s] = Shown[s]
    BY <2>1 DEF Subscription, Shown, Connected, Newest
  <2> QED
    BY <1>1, <1>2, <2>2, ViewOfOne DEF Serve, Subscription, Shown
<1>3. CASE \E i \in Items : Connect(s, i)
  <2>1. at[s] = "away" /\ at'[s] = "joining"
    BY <1>1, <1>3 DEF Connect, Goto, HubTypeOK
  <2>2. Subscription'[s] = Subscription[s] /\ Shown'[s] = Shown[s]
    BY <2>1 DEF Subscription, Shown, Connected
  <2> QED
    BY <1>1, <1>3, <2>2, ViewOfOne DEF Subscription, Shown
<1> QED
  BY <1>2, <1>3

\* A step of the hub is a step of the feed, or one the feed does not see.
LEMMA FeedStep ==
    ASSUME FeedInv, [HubNext]_hubVars
    PROVE  [Feed!Next]_(Feed!vars)
<1>1. ASSUME NEW s \in Streams, Serve(s) \/ Leave(s) \/ \E i \in Items : Connect(s, i)
      PROVE  [Feed!Next]_(Feed!vars)
  <2>1. CASE Subscribe(s)
    BY <2>1, FeedSubscribe DEF Feed!Next
  <2>2. CASE Recv(s) \/ (Resync(s) /\ latest[s] # 0)
    BY <2>2, FeedShow DEF Feed!Next
  <2>3. CASE EndStream(s) \/ Leave(s)
    BY <2>3, FeedLeave DEF Feed!Next
  <2>4. CASE \/ Lagged(s) \/ TryRecv(s) \/ (Resync(s) /\ latest[s] = 0)
             \/ \E i \in Items : Connect(s, i)
    BY <2>4, FeedStutter DEF Feed!vars
  <2> QED
    BY <1>1, <2>1, <2>2, <2>3, <2>4 DEF Serve
<1>2. CASE /\ UNCHANGED streams /\ hand \in Items
           /\ sent' = [sent EXCEPT ![hand] = sent[hand] + 1]
  <2>1. UNCHANGED <<Subscription, Shown>>
    BY <1>2 DEF streams, Subscription, Shown, Connected, Newest
  <2>2. Feed!Send(hand)
    BY <1>2, <2>1 DEF Feed!Send
  <2> QED
    BY <1>2, <2>2 DEF Feed!Next
<1>3. CASE UNCHANGED <<streams, sent>>
  BY <1>3 DEF streams, Subscription, Shown, Connected, Newest, Feed!vars
<1> QED
  BY <1>1, <1>2, <1>3, HubSteps DEF FeedInv, HubInv

\* The hub, in a process that starts, loses Redis and ends, keeps the promise
\* of EventFeed to every client (subscribe, handle_incoming_payload,
\* sse_stream).
THEOREM HubImplementsFeed == ShutdownSpec => FeedImplemented
<1>1. ShutdownInit => Feed!Init
  BY DEF ShutdownInit, HubInit, Feed!Init, Subscription, Shown, Connected
<1>2. FeedInv /\ [ShutdownNext]_allVars => [Feed!Next]_(Feed!vars)
  <2> SUFFICES ASSUME FeedInv, [ShutdownNext]_allVars PROVE [Feed!Next]_(Feed!vars)
    OBVIOUS
  <2>1. [HubNext]_hubVars
    BY HubPart DEF allVars
  <2> QED
    BY <2>1, FeedStep
<1> QED
  BY <1>1, <1>2, FeedInductive, PTL DEF ShutdownSpec, FeedImplemented, Feed!Spec
=============================================================================
