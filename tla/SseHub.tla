------------------------------- MODULE SseHub -------------------------------
(***************************************************************************)
(* SseManager and the event stream handler of one replica.  A listener     *)
(* task reads the like events that any replica publishes to Redis and      *)
(* sends each to the broadcast channel of its item; every connected client *)
(* has a receiver of one channel.  A channel keeps the last Capacity       *)
(* events, so a slow client lags and skips to the newest one.  Redis loses *)
(* what it publishes while the listener is not subscribed.  Events of an   *)
(* item are numbered as they are sent to its channel.                      *)
(***************************************************************************)
EXTENDS Integers, Sequences

CONSTANTS
    Items,      \* (content type, content id) pairs
    Streams,    \* client connections to GET /v1/likes/stream
    Shards,     \* shards of the DashMap of channels
    Capacity,   \* events a broadcast channel keeps
    NoItem,     \* no event in hand, no subscription
    MaxEvents,  \* bound: events published
    MaxFaults   \* bound: losses of the Redis connection

ASSUME HubAssumption ==
    /\ Capacity \in Nat \ {0} /\ MaxEvents \in Nat /\ MaxFaults \in Nat
    /\ NoItem \notin Items

VARIABLES
    shard,      \* the shard each key is hashed to, random per process
    channels,   \* the items that have a broadcast channel
    sent,       \* how many events have been sent to each channel
    listener,   \* where run_cache_event_listener is
    hand,       \* the item of the event being handled
    wire,       \* the items of the events on their way to the listener
    linked,     \* whether Redis delivers to the listener
    redis,      \* whether Redis can be reached
    published,  \* events published so far
    faults,     \* faults so far
    at,         \* where each stream is
    topic,      \* the item each stream asks for
    base,       \* how many events its channel had when a stream subscribed
    next,       \* the next event each receiver will read
    latest,     \* latest_event of the resync, 0 for None
    got,        \* the events yielded to the client, in order
    cancelled   \* the cancellation token

bus == <<wire, linked, redis, published, faults>>
streams == <<at, topic, base, next, latest, got>>
hubVars == <<shard, channels, sent, listener, hand, bus, streams, cancelled>>

Connected(s) == at[s] \in {"open", "drain"}

HubInit ==
    /\ shard \in [Items -> Shards]
    /\ channels = {}
    /\ sent = [i \in Items |-> 0]
    /\ listener = "connect" /\ hand = NoItem
    /\ wire = <<>> /\ linked = FALSE /\ redis = "up" /\ published = 0 /\ faults = 0
    /\ at = [s \in Streams |-> "away"]
    /\ topic = [s \in Streams |-> NoItem]
    /\ base = [s \in Streams |-> 0]
    /\ next = [s \in Streams |-> 0]
    /\ latest = [s \in Streams |-> 0]
    /\ got = [s \in Streams |-> <<>>]
    /\ cancelled = FALSE

Goto(s, label) == at' = [at EXCEPT ![s] = label]

-----------------------------------------------------------------------------
(***************************************************************************)
(* Redis: PUBLISH reaches the listener only while it is subscribed; what   *)
(* is on the way when the connection is lost may arrive in part.           *)
(***************************************************************************)
Publish(i) ==
    /\ published < MaxEvents
    /\ published' = published + 1
    /\ wire' = IF linked THEN Append(wire, i) ELSE wire
    /\ UNCHANGED <<shard, channels, sent, listener, hand, linked, redis, faults,
                   streams, cancelled>>

Prefixes(q) == {SubSeq(q, 1, n) : n \in 0..Len(q)}

RedisDown ==
    /\ redis = "up" /\ faults < MaxFaults
    /\ faults' = faults + 1
    /\ redis' = "down" /\ linked' = FALSE
    /\ wire' \in Prefixes(wire)
    /\ UNCHANGED <<shard, channels, sent, listener, hand, published, streams, cancelled>>

RedisUp ==
    /\ redis = "down"
    /\ redis' = "up"
    /\ UNCHANGED <<shard, channels, sent, listener, hand, wire, linked, published,
                   faults, streams, cancelled>>

-----------------------------------------------------------------------------
(***************************************************************************)
(* run_cache_event_listener and process_stream.                            *)
(***************************************************************************)
ListenerAt(label) == listener' = label /\ UNCHANGED hand

\* get_async_pubsub_stream.
Subscribed ==
    /\ listener = "connect" /\ redis = "up"
    /\ ListenerAt("stream")
    /\ linked' = TRUE /\ wire' = <<>>
    /\ UNCHANGED <<shard, channels, sent, redis, published, faults, streams, cancelled>>

SubscribeFails ==
    /\ listener = "connect" /\ redis = "down"
    /\ ListenerAt("sleep")
    /\ UNCHANGED <<shard, channels, sent, bus, streams, cancelled>>

\* stream.next() is None.
StreamBroken ==
    /\ listener = "stream" /\ ~linked /\ wire = <<>>
    /\ ListenerAt("sleep")
    /\ UNCHANGED <<shard, channels, sent, bus, streams, cancelled>>

\* 2 s, or the token; the loop tests the token again.
\* (Mutant: the listener gives up after a lost connection.)
GivesUp == "stopped"
AfterSleep == IF cancelled THEN "stopped" ELSE "connect"

Retry ==
    /\ listener = "sleep"
    /\ ListenerAt(AfterSleep)
    /\ UNCHANGED <<shard, channels, sent, bus, streams, cancelled>>

StopListening ==
    /\ listener = "stream" /\ cancelled
    /\ ListenerAt("stopped")
    /\ linked' = FALSE /\ wire' = <<>>
    /\ UNCHANGED <<shard, channels, sent, redis, published, faults, streams, cancelled>>

\* handle_incoming_payload looks the channel up and keeps a reference into
\* its shard until it returns.
Take ==
    /\ listener = "stream" /\ wire # <<>>
    /\ wire' = Tail(wire)
    /\ IF Head(wire) \in channels
       THEN listener' = "route" /\ hand' = Head(wire)
       ELSE UNCHANGED <<listener, hand>>
    /\ UNCHANGED <<shard, channels, sent, linked, redis, published, faults,
                   streams, cancelled>>

Receivers(i) == {s \in Streams : Connected(s) /\ topic[s] = i}

Route ==
    /\ listener = "route" /\ Receivers(hand) # {}
    /\ sent' = [sent EXCEPT ![hand] = @ + 1]
    /\ listener' = "stream" /\ hand' = NoItem
    /\ UNCHANGED <<shard, channels, bus, streams, cancelled>>

\* The last receiver is gone: send fails, and channels.remove waits for the
\* shard that this very task holds a reference into.
RouteNobody ==
    /\ listener = "route" /\ Receivers(hand) = {}
    /\ ListenerAt("blocked")
    /\ UNCHANGED <<shard, channels, sent, bus, streams, cancelled>>

\* The reference taken by Take excludes writers of the shard.
Guarded(i) == listener \in {"route", "blocked"} /\ shard[hand] = shard[i]

-----------------------------------------------------------------------------
(***************************************************************************)
(* sse_stream.                                                             *)
(***************************************************************************)
Connect(s, i) ==
    /\ at[s] = "away"
    /\ Goto(s, "joining")
    /\ topic' = [topic EXCEPT ![s] = i]
    /\ UNCHANGED <<shard, channels, sent, listener, hand, bus,
                   base, next, latest, got, cancelled>>

\* channels.entry(key).or_insert_with(channel).subscribe(), as a writer of
\* the shard; the thread blocks until it is free.
Subscribe(s) ==
    /\ at[s] = "joining"
    /\ ~Guarded(topic[s])
    /\ channels' = channels \cup {topic[s]}
    /\ base' = [base EXCEPT ![s] = sent[topic[s]]]
    /\ next' = [next EXCEPT ![s] = sent[topic[s]] + 1]
    /\ Goto(s, "open")
    /\ UNCHANGED <<shard, sent, listener, hand, bus, topic, latest, got, cancelled>>

\* The oldest event a channel still has.
\* (Mutant: one slot less than the channel has.)
SlotLost(i) == IF sent[i] < Capacity THEN 1 ELSE sent[i] - Capacity + 2
Oldest(i) == IF sent[i] < Capacity THEN 1 ELSE sent[i] - Capacity + 1

Behind(s) == next[s] < Oldest(topic[s])
Available(s) == next[s] <= sent[topic[s]] /\ ~Behind(s)

Recv(s) ==
    /\ at[s] = "open" /\ Available(s)
    /\ got' = [got EXCEPT ![s] = Append(@, next[s])]
    /\ next' = [next EXCEPT ![s] = @ + 1]
    /\ UNCHANGED <<shard, channels, sent, listener, hand, bus, at, topic, base,
                   latest, cancelled>>

\* recv answers Lagged and moves the receiver to the oldest event.
Lagged(s) ==
    /\ at[s] = "open" /\ Behind(s)
    /\ next' = [next EXCEPT ![s] = Oldest(topic[s])]
    /\ Goto(s, "drain")
    /\ UNCHANGED <<shard, channels, sent, listener, hand, bus, topic, base,
                   latest, got, cancelled>>

\* One try_recv of the resync replaces latest_event.
\* (Mutant: the first event drained is kept.)
FirstKept(s) == IF latest[s] = 0 THEN next[s] ELSE latest[s]
LatestEvent(s) == next[s]

TryRecv(s) ==
    /\ at[s] = "drain" /\ Available(s)
    /\ latest' = [latest EXCEPT ![s] = LatestEvent(s)]
    /\ next' = [next EXCEPT ![s] = @ + 1]
    /\ UNCHANGED <<shard, channels, sent, listener, hand, bus, at, topic, base,
                   got, cancelled>>

\* The first error ends the resync, Empty or Lagged once more; latest_event
\* is sent to the client, a null if there is none.
\* (Mutant: the drain read from another receiver, this one kept its place.)
KeptPlace(s) == Oldest(topic[s])
AfterResync(s) == IF Behind(s) THEN Oldest(topic[s]) ELSE next[s]

Resync(s) ==
    /\ at[s] = "drain" /\ ~Available(s)
    /\ next' = [next EXCEPT ![s] = AfterResync(s)]
    /\ got' = [got EXCEPT ![s] = IF latest[s] = 0 THEN @ ELSE Append(@, latest[s])]
    /\ latest' = [latest EXCEPT ![s] = 0]
    /\ Goto(s, "open")
    /\ UNCHANGED <<shard, channels, sent, listener, hand, bus, topic, base, cancelled>>

Close(s) ==
    /\ Goto(s, "away")
    /\ topic' = [topic EXCEPT ![s] = NoItem]
    /\ base' = [base EXCEPT ![s] = 0]
    /\ next' = [next EXCEPT ![s] = 0]
    /\ got' = [got EXCEPT ![s] = <<>>]
    /\ UNCHANGED <<shard, channels, sent, listener, hand, bus, latest, cancelled>>

\* The token ends the stream with a shutdown event.
\* (Mutant: the loop does not look at the token.)
Deaf == FALSE
SeesToken == cancelled

EndStream(s) == at[s] = "open" /\ SeesToken /\ Close(s)

\* The client disconnects and may connect again.
Leave(s) == at[s] = "open" /\ Close(s)

\* token.cancel()
Cancel ==
    /\ ~cancelled
    /\ cancelled' = TRUE
    /\ UNCHANGED <<shard, channels, sent, listener, hand, bus, streams>>

-----------------------------------------------------------------------------
Listen ==
    \/ Subscribed \/ SubscribeFails \/ StreamBroken \/ Retry \/ StopListening
    \/ Take \/ Route \/ RouteNobody

Serve(s) ==
    \/ Subscribe(s) \/ Recv(s) \/ Lagged(s) \/ TryRecv(s) \/ Resync(s) \/ EndStream(s)

HubStep ==
    \/ \E i \in Items : Publish(i)
    \/ RedisDown \/ RedisUp
    \/ Listen
    \/ \E s \in Streams : Serve(s) \/ Leave(s)

HubNext == HubStep \/ Cancel \/ \E s \in Streams, i \in Items : Connect(s, i)

HubSpec == HubInit /\ [][HubNext]_hubVars

-----------------------------------------------------------------------------
HubTypeOK ==
    /\ shard \in [Items -> Shards]
    /\ channels \in SUBSET Items
    /\ sent \in [Items -> Nat]
    /\ listener \in {"connect", "stream", "sleep", "route", "blocked", "stopped"}
    /\ hand \in Items \cup {NoItem}
    /\ listener \in {"route", "blocked"} <=> hand \in Items
    /\ wire \in Seq(Items)
    /\ linked \in BOOLEAN
    /\ redis \in {"up", "down"}
    /\ published \in 0..MaxEvents
    /\ faults \in 0..MaxFaults
    /\ at \in [Streams -> {"away", "joining", "open", "drain"}]
    /\ topic \in [Streams -> Items \cup {NoItem}]
    /\ \A s \in Streams : at[s] = "away" <=> topic[s] = NoItem
    /\ base \in [Streams -> Nat]
    /\ next \in [Streams -> Nat]
    /\ latest \in [Streams -> Nat]
    /\ got \in [Streams -> Seq(Nat)]
    /\ cancelled \in BOOLEAN

(***************************************************************************)
(* A client sees the events of its item in the order they were sent and    *)
(* none of them twice, also when it lags, resyncs to the newest event, and *)
(* lags again during the resync.                                           *)
(***************************************************************************)
InOrder ==
    \A s \in Streams : \A j, k \in 1..Len(got[s]) : j < k => got[s][j] < got[s][k]

(***************************************************************************)
(* A client loses no event unless more events than the channel holds were  *)
(* sent since it subscribed, and it gets none from before.                 *)
(***************************************************************************)
NothingLost ==
    \A s \in Streams :
        Connected(s) /\ sent[topic[s]] - base[s] <= Capacity =>
            /\ next[s] = base[s] + Len(got[s]) + 1
            /\ \A k \in 1..Len(got[s]) : got[s][k] = base[s] + k

Newest(s) == IF got[s] = <<>> THEN base[s] ELSE got[s][Len(got[s])]

(***************************************************************************)
(* The hub keeps the promise of EventFeed: an event is passed over only    *)
(* when the client fell behind by more than the channel holds, counted     *)
(* from what it saw last, so a client that lagged once misses nothing more *)
(* until it lags again.                                                    *)
(***************************************************************************)
Subscription == [s \in Streams |-> IF Connected(s) THEN topic[s] ELSE NoItem]
Shown == [s \in Streams |-> IF Connected(s) THEN Newest(s) ELSE 0]

Feed == INSTANCE EventFeed WITH log <- sent, who <- Subscription, shown <- Shown

FeedImplemented == Feed!Spec

(***************************************************************************)
(* A receiver with nothing left to read has given its client the newest    *)
(* event: lagging costs events in between and never the last one.          *)
(***************************************************************************)
NewestShown ==
    \A s \in Streams :
        at[s] = "open" /\ next[s] > sent[topic[s]] => Newest(s) = sent[topic[s]]

(***************************************************************************)
(* A connected client is shown the newest event of its item, however far   *)
(* it lags and how often a resync is cut short, once events pause.         *)
(***************************************************************************)
CatchesUp == \A s \in Streams : []<>(Connected(s) => Newest(s) = sent[topic[s]])

(***************************************************************************)
(* "all other replicas listen and route the event to their locally         *)
(* connected clients" (Readme.md): an event that has reached the listener  *)
(* is handled, unless the replica shuts down.                              *)
(***************************************************************************)
EventsRouted == wire # <<>> ~> (wire = <<>> \/ cancelled)
=============================================================================
