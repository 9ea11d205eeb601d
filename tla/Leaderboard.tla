---------------------------- MODULE Leaderboard ----------------------------
(***************************************************************************)
(* get_top_likes for one window, content type and limit: the ranking is    *)
(* kept in a Redis key without a TTL beside a canary key with one.  While   *)
(* the canary is there the cached ranking is served; when it is gone the   *)
(* stale ranking is still served and whoever gets the refresh lock spawns  *)
(* a task that asks the database and writes both keys.  Nobody releases    *)
(* the lock: it expires.  A ranking is the number of changes behind it.    *)
(***************************************************************************)
EXTENDS Integers

CONSTANTS
    Clients,     \* clients that ask GET /v1/likes/top over and over
    Tasks,       \* bound: background refreshes under way at once
    NoRanking,   \* the data key does not exist
    MaxChanges,  \* bound: changes of the ranking in the database
    MaxFaults    \* bound: outages, lost replies, database errors, refreshes over 10 s

ASSUME LeaderboardAssumption ==
    MaxChanges \in Nat /\ MaxFaults \in Nat /\ NoRanking \notin Nat

VARIABLES
    ranking,  \* the ranking the database would compute now
    data,     \* leaderboard:data
    canary,   \* whether leaderboard:canary exists
    lock,     \* whether leaderboard:lock exists
    redis,    \* whether commands reach Redis
    cpc,      \* the await each client's request is at
    items,    \* the ranking each request holds
    task,     \* the await each background refresh is at
    fresh,    \* new_items of each background refresh
    faults,   \* faults so far
    cold      \* history: whether a request has found no data

keys == <<data, canary, lock>>
requests == <<cpc, items>>
refreshes == <<task, fresh>>
boardVars == <<ranking, keys, redis, requests, refreshes, faults, cold>>

LeaderboardInit ==
    /\ ranking = 0
    /\ data \in {NoRanking, 0} /\ canary \in BOOLEAN /\ (canary => data # NoRanking)
    /\ lock = FALSE /\ redis = "up" /\ faults = 0 /\ cold = FALSE
    /\ cpc = [c \in Clients |-> "read"]
    /\ items = [c \in Clients |-> NoRanking]
    /\ task = [t \in Tasks |-> "idle"]
    /\ fresh = [t \in Tasks |-> NoRanking]

Goto(c, label) == cpc' = [cpc EXCEPT ![c] = label]
Hold(c, r) == items' = [items EXCEPT ![c] = r]
MoveTask(t, label) == task' = [task EXCEPT ![t] = label]

Fault == faults < MaxFaults /\ faults' = faults + 1

-----------------------------------------------------------------------------
\* MGET of both keys: (items, is_fresh), or nothing when Redis fails.
\* (Mutant: a failure reads as a ranking that never was.)
NeverWas == IF redis = "up" THEN data ELSE MaxChanges + 1
Cached == IF redis = "up" THEN data ELSE NoRanking

ReadFresh(c) ==
    /\ cpc[c] = "read"
    /\ Cached # NoRanking /\ canary
    /\ Hold(c, Cached)
    /\ Goto(c, "end")
    /\ UNCHANGED <<ranking, keys, redis, refreshes, faults, cold>>

ReadStale(c) ==
    /\ cpc[c] = "read"
    /\ Cached # NoRanking /\ ~canary
    /\ Hold(c, Cached)
    /\ Goto(c, "lock")
    /\ UNCHANGED <<ranking, keys, redis, refreshes, faults, cold>>

ReadNothing(c) ==
    /\ cpc[c] = "read"
    /\ Cached = NoRanking
    /\ Goto(c, "ask")
    /\ cold' = TRUE
    /\ UNCHANGED <<ranking, keys, redis, items, refreshes, faults>>

\* SET NX EX 10.  (Mutant: SET EX, which always succeeds.)
LockAnyway == redis = "up"
LockFree == redis = "up" /\ ~lock

AcquireLock(c) ==
    /\ cpc[c] = "lock"
    /\ LockFree
    /\ lock' = TRUE
    /\ \E t \in Tasks : task[t] = "idle" /\ MoveTask(t, "ask")
    /\ Goto(c, "end")
    /\ UNCHANGED <<ranking, data, canary, redis, items, fresh, faults, cold>>

RefreshUnderWay(c) ==
    /\ cpc[c] = "lock"
    /\ ~LockFree
    /\ Goto(c, "end")
    /\ UNCHANGED <<ranking, keys, redis, items, refreshes, faults, cold>>

\* Redis sets the lock, and the reply is lost or the client is gone before the
\* refresh is spawned: the lock stays and nobody refreshes until it expires.
LockLost(c) ==
    /\ cpc[c] = "lock"
    /\ LockFree
    /\ Fault
    /\ lock' = TRUE
    /\ Goto(c, "end")
    /\ UNCHANGED <<ranking, data, canary, redis, items, refreshes, cold>>

\* A cold key: the request itself asks the database and fills the keys.
Ask(c) ==
    /\ cpc[c] = "ask"
    /\ Hold(c, ranking)
    /\ Goto(c, "store")
    /\ UNCHANGED <<ranking, keys, redis, refreshes, faults, cold>>

AskFails(c) ==
    /\ cpc[c] = "ask"
    /\ Fault
    /\ Goto(c, "end")
    /\ UNCHANGED <<ranking, keys, redis, items, refreshes, cold>>

\* SET of the data and SET EX of the canary in one pipeline, errors ignored.
Stored(r) ==
    IF redis = "up" THEN data' = r /\ canary' = TRUE ELSE UNCHANGED <<data, canary>>

Store(c) ==
    /\ cpc[c] = "store"
    /\ Stored(items[c])
    /\ Goto(c, "end")
    /\ UNCHANGED <<ranking, lock, redis, items, refreshes, faults, cold>>

\* The client has its answer and asks again.
NextRequest(c) ==
    /\ cpc[c] = "end"
    /\ Goto(c, "read")
    /\ Hold(c, NoRanking)
    /\ UNCHANGED <<ranking, keys, redis, refreshes, faults, cold>>

-----------------------------------------------------------------------------
(***************************************************************************)
(* The background refresh.                                                 *)
(***************************************************************************)
TaskAsk(t) ==
    /\ task[t] = "ask"
    /\ fresh' = [fresh EXCEPT ![t] = ranking]
    /\ MoveTask(t, "store")
    /\ UNCHANGED <<ranking, keys, redis, requests, faults, cold>>

TaskFails(t) ==
    /\ task[t] = "ask"
    /\ Fault
    /\ MoveTask(t, "idle")
    /\ UNCHANGED <<ranking, keys, redis, requests, fresh, cold>>

TaskStore(t) ==
    /\ task[t] = "store"
    /\ Stored(fresh[t])
    /\ fresh' = [fresh EXCEPT ![t] = NoRanking]
    /\ MoveTask(t, "idle")
    /\ UNCHANGED <<ranking, lock, redis, requests, faults, cold>>

-----------------------------------------------------------------------------
\* Likes and unlikes move the ranking.
Change ==
    /\ ranking < MaxChanges
    /\ ranking' = ranking + 1
    /\ UNCHANGED <<keys, redis, requests, refreshes, faults, cold>>

\* 30 s or 300 s.  (Mutant: the canary has no TTL.)
CanaryStays == FALSE
CanaryRunsOut == canary

ExpireCanary ==
    /\ CanaryRunsOut
    /\ canary' = FALSE
    /\ UNCHANGED <<ranking, data, lock, redis, requests, refreshes, faults, cold>>

\* After 10 s the lock is gone; a refresh that is still under way is slow.
ExpireLock ==
    /\ lock
    /\ lock' = FALSE
    /\ IF \A t \in Tasks : task[t] = "idle" THEN UNCHANGED faults ELSE Fault
    /\ UNCHANGED <<ranking, data, canary, redis, requests, refreshes, cold>>

RedisDown ==
    /\ redis = "up"
    /\ Fault
    /\ redis' = "down"
    /\ UNCHANGED <<ranking, keys, requests, refreshes, cold>>

\* A restarted Redis may have lost its keys.
RedisUp ==
    /\ redis = "down"
    /\ redis' = "up"
    /\ \/ UNCHANGED keys
       \/ data' = NoRanking /\ canary' = FALSE /\ lock' = FALSE
    /\ UNCHANGED <<ranking, requests, refreshes, faults, cold>>

Request(c) ==
    \/ ReadFresh(c) \/ ReadStale(c) \/ ReadNothing(c)
    \/ AcquireLock(c) \/ RefreshUnderWay(c)
    \/ Ask(c) \/ Store(c) \/ NextRequest(c)

Refresh(t) == TaskAsk(t) \/ TaskStore(t)

LeaderboardNext ==
    \/ \E c \in Clients : Request(c) \/ LockLost(c) \/ AskFails(c)
    \/ \E t \in Tasks : Refresh(t) \/ TaskFails(t)
    \/ Change \/ ExpireCanary \/ ExpireLock \/ RedisDown \/ RedisUp

LeaderboardSpec == LeaderboardInit /\ [][LeaderboardNext]_boardVars

\* Handlers and tasks run, keys with a TTL expire, Redis comes back.
LeaderboardFairSpec ==
    /\ LeaderboardSpec
    /\ \A c \in Clients : WF_boardVars(Request(c))
    /\ \A t \in Tasks : WF_boardVars(Refresh(t))
    /\ WF_boardVars(ExpireCanary) /\ WF_boardVars(ExpireLock) /\ WF_boardVars(RedisUp)

-----------------------------------------------------------------------------
Rankings == 0..MaxChanges \cup {NoRanking}

LeaderboardTypeOK ==
    /\ ranking \in 0..MaxChanges
    /\ data \in Rankings
    /\ canary \in BOOLEAN /\ lock \in BOOLEAN
    /\ redis \in {"up", "down"}
    /\ cpc \in [Clients -> {"read", "lock", "ask", "store", "end"}]
    /\ items \in [Clients -> Rankings]
    /\ task \in [Tasks -> {"idle", "ask", "store"}]
    /\ fresh \in [Tasks -> Rankings]
    /\ faults \in 0..MaxFaults
    /\ cold \in BOOLEAN

(***************************************************************************)
(* While nothing fails and no refresh outlives the lock, at most one       *)
(* refresh is under way and it holds the lock, however many clients find   *)
(* the canary gone at once.                                                *)
(***************************************************************************)
SingleRefresh ==
    faults = 0 =>
        \A t \in Tasks : task[t] # "idle" =>
            lock /\ \A u \in Tasks : task[u] # "idle" => u = t

(***************************************************************************)
(* While nothing fails and the key is warm, the cached ranking never goes  *)
(* back: refreshes that follow each other write what they read in order.   *)
(***************************************************************************)
NoRollback ==
    [][faults' = 0 /\ ~cold' /\ data # NoRanking => data' >= data]_boardVars

(***************************************************************************)
(* Once the likes stop changing, slow refreshes that overwrite newer       *)
(* rankings, lost locks and outages are repaired: from some time on the    *)
(* cached ranking is the one of the database.                              *)
(***************************************************************************)
Converges == <>[](data \in {NoRanking, ranking})
=============================================================================
