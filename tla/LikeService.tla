---------------------------- MODULE LikeService ----------------------------
(***************************************************************************)
(* LikeService (application/like_service.rs) with the three things its     *)
(* requests share: the likes table (infrastructure/postgres), the counter  *)
(* keys of Redis (infrastructure/redis) and the map of single-flight locks. *)
(* A request is a process; a step is what happens between two awaits: one  *)
(* statement of the database, one command of Redis, one use of the lock    *)
(* map.  Requests of all threads interleave freely, keys expire, Redis goes *)
(* away and comes back, and a request can be dropped at any await, by a    *)
(* database error or because its client disconnected.                      *)
(***************************************************************************)
EXTENDS Integers, FiniteSets

CONSTANTS
    Users,      \* users that like or unlike
    Items,      \* (content type, content id) pairs
    Writers,    \* requests POST /v1/likes and DELETE /v1/likes/..
    Readers,    \* clients that ask GET /v1/likes/../count over and over
    Mutexes,    \* identities of the Arc<Mutex<()>> of the lock map
    NoKey,      \* a counter key that Redis does not have
    NoMutex,    \* an item without an entry in the lock map
    MaxFaults,  \* bound: dropped requests, lost replies and Redis outages
    KeysExpire  \* whether the TTL of a key can run out

Requests == Writers \cup Readers

ASSUME RequestsAssumption ==
    /\ IsFiniteSet(Users) /\ IsFiniteSet(Writers) /\ IsFiniteSet(Readers)
    /\ Writers \cap Readers = {}
ASSUME SentinelsAssumption == NoKey \notin Int /\ NoMutex \notin Mutexes
ASSUME BoundsAssumption == MaxFaults \in Nat /\ KeysExpire \in BOOLEAN

VARIABLES
    likes,      \* rows of the likes table, unique per (user, item)
    count,      \* the counter keys of Redis
    redis,      \* whether commands reach Redis
    flight,     \* flight_locks: item -> mutex
    req,        \* what each request asks for
    pc,         \* the await each request is at
    mtx,        \* the mutex a request waits for or holds
    fetched,    \* local count of get_like_count_with_fallback
    changed,    \* requests with already_exists = false or was_liked = true
    announced,  \* requests that have sent their SSE event
    faults,     \* faults so far
    clean,      \* history: items whose counter no race or fault has touched
    quiet,      \* history: fetches that no write of the item overlaps
    expired     \* history: whether a key has expired

ports == <<likes, count, redis>>
local == <<req, mtx, fetched, changed, announced>>
ghosts == <<clean, quiet, expired>>
vars == <<ports, flight, pc, local, faults, ghosts>>

Filling == {"peek", "enter", "lock", "recheck", "fetch", "store", "leave"}
Critical == {"recheck", "fetch", "store", "leave"}
Ended == {"ok", "failed"}
Labels == Filling \cup Ended
          \cup {"validate", "save", "remove", "incr", "row", "decr", "dbcount"}

Op(r) == req[r].op
ItemOf(r) == req[r].item
RowOf(r) == <<req[r].user, req[r].item>>

(***************************************************************************)
(* The ports: what one statement or command does.                          *)
(***************************************************************************)

\* SELECT COUNT(*) of an item.
Rows(i) == Cardinality({u \in Users : <<u, i>> \in likes})

\* INSERT .. ON CONFLICT DO NOTHING; its answer is rows_affected() == 0.
\* (Mutant: a conflicting insert reported as a new row.)
ConflictUnseen(r) == FALSE
AlreadyExists(r) == RowOf(r) \in likes
SaveRow(r) == likes' = likes \cup {RowOf(r)}

\* DELETE; its answer is rows_affected() > 0.
\* (Mutant: somebody's like of the item is taken for the user's own.)
SomebodyLiked(r) == Rows(ItemOf(r)) > 0
WasLiked(r) == RowOf(r) \in likes
RemoveRow(r) == likes' = likes \ {RowOf(r)}

\* INCR and DECR start from 0 when there is no key.
Value(i) == IF count[i] = NoKey THEN 0 ELSE count[i]
Incremented(i) == [count EXCEPT ![i] = Value(i) + 1]
Decremented(i) == [count EXCEPT ![i] = Value(i) - 1]

\* GET, parsed as Option<u64>: a negative value is an error, like no answer.
Hit(i) == redis = "up" /\ count[i] # NoKey /\ Value(i) >= 0

\* SET .. EX, whose error the caller ignores.
Stored(i, n) == IF redis = "up" THEN [count EXCEPT ![i] = n] ELSE count

(***************************************************************************)
(* Writes whose row has changed and whose counter command is still due.    *)
(***************************************************************************)
DueIncr(i) == {w \in changed : ItemOf(w) = i /\ pc[w] = "incr"}
DueDecr(i) == {w \in changed : ItemOf(w) = i /\ Op(w) = "unlike"
                                             /\ pc[w] \in Filling \cup {"decr"}}
Due(i) == DueIncr(i) \cup DueDecr(i)

Taint(i) == clean' = clean \ {i}

-----------------------------------------------------------------------------
Asks == [op : {"like", "unlike"}, user : Users, item : Items]
Counts == [op : {"count"}, item : Items]

(***************************************************************************)
(* Any table, and counter keys that are absent or right, as the fallback   *)
(* leaves them when nothing else runs.                                     *)
(***************************************************************************)
Init ==
    /\ likes \in SUBSET (Users \X Items)
    /\ redis = "up"
    /\ req \in {f \in [Requests -> Asks \cup Counts] :
                  /\ \A w \in Writers : f[w] \in Asks
                  /\ \A r \in Readers : f[r] \in Counts}
    /\ \E cached \in SUBSET Items :
         /\ count = [i \in Items |-> IF i \in cached THEN Rows(i) ELSE NoKey]
         /\ clean = {i \in Items : i \in cached \/ Rows(i) = 0}
    /\ flight = [i \in Items |-> NoMutex]
    /\ pc = [r \in Requests |-> IF r \in Writers THEN "validate" ELSE "peek"]
    /\ mtx = [r \in Requests |-> NoMutex]
    /\ fetched = [r \in Requests |-> 0]
    /\ changed = {} /\ announced = {} /\ quiet = {}
    /\ faults = 0 /\ expired = FALSE

Goto(r, label) == pc' = [pc EXCEPT ![r] = label]

\* send_sse_event and the response, in one stretch without an await.
Announce(r) == announced' = announced \cup {r}

-----------------------------------------------------------------------------
(***************************************************************************)
(* add_like and remove_like up to the change of the table.                 *)
(***************************************************************************)

\* The content is valid, or the request ends with 404 or 503.
Validate(r) ==
    /\ pc[r] = "validate"
    /\ \E next \in {IF Op(r) = "like" THEN "save" ELSE "remove", "failed"} :
         Goto(r, next)
    /\ UNCHANGED <<ports, flight, local, faults, ghosts>>

\* A change of the table invalidates the counts other requests have fetched.
Disturb(i) == quiet' = {r \in quiet : ItemOf(r) # i}

SaveNew(r) ==
    /\ pc[r] = "save"
    /\ ~AlreadyExists(r)
    /\ SaveRow(r)
    /\ changed' = changed \cup {r}
    /\ Goto(r, "incr")
    /\ Disturb(ItemOf(r))
    /\ UNCHANGED <<count, redis, flight, req, mtx, fetched, announced, faults, clean,
                   expired>>

SaveExisting(r) ==
    /\ pc[r] = "save"
    /\ AlreadyExists(r)
    /\ SaveRow(r)
    /\ Goto(r, "peek")
    /\ UNCHANGED <<count, redis, flight, local, faults, ghosts>>

RemoveLiked(r) ==
    /\ pc[r] = "remove"
    /\ WasLiked(r)
    /\ RemoveRow(r)
    /\ changed' = changed \cup {r}
    /\ Goto(r, "peek")
    /\ Disturb(ItemOf(r))
    /\ UNCHANGED <<count, redis, flight, req, mtx, fetched, announced, faults, clean,
                   expired>>

RemoveAbsent(r) ==
    /\ pc[r] = "remove"
    /\ ~WasLiked(r)
    /\ RemoveRow(r)
    /\ Goto(r, "peek")
    /\ UNCHANGED <<count, redis, flight, local, faults, ghosts>>

-----------------------------------------------------------------------------
(***************************************************************************)
(* get_like_count_with_fallback, called by like (row existed), unlike and  *)
(* count, and what each of them does with the count n it returns.          *)
(***************************************************************************)

\* remove_like skips the decrement of a zero, to avoid a key of -1.
\* (Mutants: a zero is announced whoever reads it, and by nobody.)
SilentZero(r, n) == FALSE
ZeroAnnounced(r, n) == n = 0
SkipsDecrement(r, n) == Op(r) = "unlike" /\ r \in changed /\ n = 0

\* (Mutant: remove_like does not return early when nothing was liked.)
DecrementsAlways(r, n) ==
    CASE Op(r) = "like"              -> "row"
      [] Op(r) = "unlike" /\ n # 0   -> "decr"
      [] OTHER                       -> "ok"
AfterCount(r, n) ==
    CASE Op(r) = "like"                     -> "row"
      [] Op(r) = "unlike" /\ r \in changed
                          /\ n # 0          -> "decr"
      [] OTHER                              -> "ok"

Return(r, n) ==
    /\ Goto(r, AfterCount(r, n))
    /\ announced' = announced \cup {x \in {r} : SkipsDecrement(x, n)}
    /\ clean' = clean \ {i \in {ItemOf(r)} : SkipsDecrement(r, n)}

PeekHit(r) ==
    /\ pc[r] = "peek"
    /\ Hit(ItemOf(r))
    /\ Return(r, Value(ItemOf(r)))
    /\ UNCHANGED <<ports, flight, req, mtx, fetched, changed, faults, quiet, expired>>

PeekMiss(r) ==
    /\ pc[r] = "peek"
    /\ ~Hit(ItemOf(r))
    /\ Goto(r, "enter")
    /\ UNCHANGED <<ports, flight, local, faults, ghosts>>

\* A new Arc: any identity nobody refers to, so it does not matter which.
Fresh == {m \in Mutexes : /\ \A i \in Items : flight[i] # m
                          /\ \A r \in Requests : mtx[r] # m}
AnyFresh == CHOOSE m \in Fresh : TRUE

\* flight_locks.entry(key).or_insert_with(new mutex)
\* (Mutant: wait until the entry is gone, instead of sharing its mutex.)
OnlyNewEntry(i) == IF flight[i] = NoMutex THEN Fresh \cap {AnyFresh} ELSE {}
MutexOf(i) == IF flight[i] = NoMutex THEN Fresh \cap {AnyFresh} ELSE {flight[i]}

Enter(r) ==
    /\ pc[r] = "enter"
    /\ \E m \in MutexOf(ItemOf(r)) :
         /\ flight' = [flight EXCEPT ![ItemOf(r)] = m]
         /\ mtx' = [mtx EXCEPT ![r] = m]
    /\ Goto(r, "lock")
    /\ UNCHANGED <<ports, req, fetched, changed, announced, faults, ghosts>>

Held(m) == \E s \in Requests : pc[s] \in Critical /\ mtx[s] = m

Lock(r) ==
    /\ pc[r] = "lock"
    /\ ~Held(mtx[r])
    /\ Goto(r, "recheck")
    /\ UNCHANGED <<ports, flight, local, faults, ghosts>>

RecheckHit(r) ==
    /\ pc[r] = "recheck"
    /\ Hit(ItemOf(r))
    /\ fetched' = [fetched EXCEPT ![r] = Value(ItemOf(r))]
    /\ Goto(r, "leave")
    /\ UNCHANGED <<ports, flight, req, mtx, changed, announced, faults, ghosts>>

\* (Mutant: no second look at the cache under the lock.)
NoDoubleCheck(r) ==
    /\ pc[r] = "recheck"
    /\ Goto(r, "fetch")
    /\ UNCHANGED <<ports, flight, local, faults, ghosts>>
RecheckMiss(r) ==
    /\ pc[r] = "recheck"
    /\ ~Hit(ItemOf(r))
    /\ Goto(r, "fetch")
    /\ UNCHANGED <<ports, flight, local, faults, ghosts>>

Fetch(r) ==
    /\ pc[r] = "fetch"
    /\ fetched' = [fetched EXCEPT ![r] = Rows(ItemOf(r))]
    /\ Goto(r, "store")
    /\ quiet' = quiet \cup {x \in {r} : Due(ItemOf(r)) = {}}
    /\ UNCHANGED <<ports, flight, req, mtx, changed, announced, faults, clean, expired>>

Store(r) ==
    /\ pc[r] = "store"
    /\ count' = Stored(ItemOf(r), fetched[r])
    /\ clean' = IF redis # "up" THEN clean
                ELSE IF r \in quiet THEN clean \cup {ItemOf(r)} ELSE clean \ {ItemOf(r)}
    /\ quiet' = quiet \ {r}
    /\ Goto(r, "leave")
    /\ UNCHANGED <<likes, redis, flight, local, faults, expired>>

\* The entry is removed by key, whichever mutex it holds by now.
\* (Mutant: the entry is never removed.)
KeepsEntry(i) == UNCHANGED flight
Unregister(i) == flight' = [flight EXCEPT ![i] = NoMutex]

Leave(r) ==
    /\ pc[r] = "leave"
    /\ Unregister(ItemOf(r))
    /\ mtx' = [mtx EXCEPT ![r] = NoMutex]
    /\ fetched' = [fetched EXCEPT ![r] = 0]
    /\ Return(r, fetched[r])
    /\ UNCHANGED <<ports, req, changed, faults, quiet, expired>>

-----------------------------------------------------------------------------
(***************************************************************************)
(* After the count: the liked_at of an existing row, or the new count.     *)
(***************************************************************************)

\* get_like of the row that save found; it may be gone by now.
ReadRow(r) ==
    /\ pc[r] = "row"
    /\ \/ /\ RowOf(r) \in likes
          /\ Goto(r, "ok")
          /\ Announce(r)
       \/ /\ RowOf(r) \notin likes
          /\ Goto(r, "failed")
          /\ UNCHANGED announced
    /\ UNCHANGED <<ports, flight, req, mtx, fetched, changed, faults, ghosts>>

Fault == faults < MaxFaults /\ faults' = faults + 1

\* A counter command: the reply is the new count if it parses as u64 and
\* is not lost; on any error the count comes from the database.  The
\* command may also have run when the handler is dropped.
Reply(r, n) ==
    \/ /\ n >= 0
       /\ Goto(r, "ok")
       /\ Announce(r)
       /\ UNCHANGED faults
    \/ /\ n < 0
       /\ Goto(r, "dbcount")
       /\ UNCHANGED <<announced, faults>>
    \/ /\ Fault
       /\ \E next \in {"dbcount", "failed"} : Goto(r, next)
       /\ UNCHANGED announced

Incr(r) ==
    /\ pc[r] = "incr"
    /\ redis = "up"
    /\ count' = Incremented(ItemOf(r))
    /\ Reply(r, Value(ItemOf(r)) + 1)
    /\ UNCHANGED <<likes, redis, flight, req, mtx, fetched, changed, ghosts>>

Decr(r) ==
    /\ pc[r] = "decr"
    /\ redis = "up"
    /\ count' = Decremented(ItemOf(r))
    /\ Reply(r, Value(ItemOf(r)) - 1)
    /\ UNCHANGED <<likes, redis, flight, req, mtx, fetched, changed, ghosts>>

CommandFails(r) ==
    /\ pc[r] \in {"incr", "decr"}
    /\ redis = "down"
    /\ Goto(r, "dbcount")
    /\ Taint(ItemOf(r))
    /\ UNCHANGED <<ports, flight, local, faults, quiet, expired>>

DbCount(r) ==
    /\ pc[r] = "dbcount"
    /\ Goto(r, "ok")
    /\ Announce(r)
    /\ UNCHANGED <<ports, flight, req, mtx, fetched, changed, faults, ghosts>>

\* A reader asks again.
NextCount(r) ==
    /\ r \in Readers
    /\ pc[r] \in Ended
    /\ Goto(r, "peek")
    /\ UNCHANGED <<ports, flight, local, faults, ghosts>>

-----------------------------------------------------------------------------
(***************************************************************************)
(* Faults: the handler's future is dropped at an await.  Its guard goes    *)
(* with it; its entry of flight_locks stays.                               *)
(***************************************************************************)
Drop(r) ==
    /\ pc[r] \notin Ended
    /\ Fault
    /\ Goto(r, "failed")
    /\ mtx' = [mtx EXCEPT ![r] = NoMutex]
    /\ fetched' = [fetched EXCEPT ![r] = 0]
    /\ quiet' = quiet \ {r}
    /\ clean' = clean \ {i \in {ItemOf(r)} : r \in Due(i)}
    /\ UNCHANGED <<ports, flight, req, changed, announced, expired>>

\* Every command that writes a counter sets its TTL.
\* (Mutant: counters are written without a TTL.)
NoTtl(i) == FALSE
TtlRunsOut(i) == KeysExpire /\ count[i] # NoKey

Expire(i) ==
    /\ TtlRunsOut(i)
    /\ count' = [count EXCEPT ![i] = NoKey]
    /\ Taint(i)
    /\ expired' = TRUE
    /\ UNCHANGED <<likes, redis, flight, pc, local, faults, quiet>>

RedisDown ==
    /\ redis = "up"
    /\ Fault
    /\ redis' = "down"
    /\ UNCHANGED <<likes, count, flight, pc, local, ghosts>>

\* monitor_connection reconnects; a restarted Redis may have lost its keys.
RedisUp ==
    /\ redis = "down"
    /\ redis' = "up"
    /\ \/ UNCHANGED <<count, clean>>
       \/ /\ count' = [i \in Items |-> NoKey]
          /\ clean' = {i \in clean : count[i] = NoKey}
    /\ UNCHANGED <<likes, flight, pc, local, faults, quiet, expired>>

-----------------------------------------------------------------------------
Write(r) == SaveNew(r) \/ SaveExisting(r) \/ RemoveLiked(r) \/ RemoveAbsent(r)

Fill(r) ==
    \/ PeekHit(r) \/ PeekMiss(r) \/ Enter(r) \/ Lock(r)
    \/ RecheckHit(r) \/ RecheckMiss(r) \/ Fetch(r) \/ Store(r) \/ Leave(r)

Finish(r) == ReadRow(r) \/ Incr(r) \/ Decr(r) \/ CommandFails(r) \/ DbCount(r)

Step(r) == Validate(r) \/ Write(r) \/ Fill(r) \/ Finish(r) \/ NextCount(r)

Next ==
    \/ \E r \in Requests : Step(r) \/ Drop(r)
    \/ \E i \in Items : Expire(i)
    \/ RedisDown \/ RedisUp

Spec == Init /\ [][Next]_vars

(***************************************************************************)
(* tokio runs a task that is ready, statements and commands answer or time *)
(* out, every key has a TTL, and monitor_connection retries every 10 s.    *)
(***************************************************************************)
Fairness ==
    /\ \A r \in Requests : WF_vars(Step(r))
    /\ \A i \in Items : WF_vars(Expire(i))
    /\ WF_vars(RedisUp)

-----------------------------------------------------------------------------
\* Every variable holds a value of its kind; counter keys may be negative.
TypeOK ==
    /\ likes \in SUBSET (Users \X Items)
    /\ count \in [Items -> Int \cup {NoKey}]
    /\ redis \in {"up", "down"}
    /\ flight \in [Items -> Mutexes \cup {NoMutex}]
    /\ req \in [Requests -> Asks \cup Counts]
    /\ \A r \in Requests : req[r] \in Asks <=> r \in Writers
    /\ pc \in [Requests -> Labels]
    /\ \A r \in Readers : pc[r] \in Filling \cup Ended
    /\ mtx \in [Requests -> Mutexes \cup {NoMutex}]
    /\ fetched \in [Requests -> Nat]
    /\ changed \in SUBSET Writers
    /\ announced \in SUBSET Writers
    /\ faults \in 0..MaxFaults
    /\ clean \in SUBSET Items
    /\ quiet \in SUBSET Requests
    /\ expired \in BOOLEAN

(***************************************************************************)
(* The counter of an item that no expiry, outage, dropped write, skipped   *)
(* decrement or overlapping fill has touched since it was last right is    *)
(* the number of rows, short of the increments and decrements still due:   *)
(* add_like and remove_like send exactly one command for a row they change *)
(* and none for a row they do not, and a fill that overlaps no write       *)
(* stores the exact count.                                                 *)
(***************************************************************************)
CleanCounterExact ==
    \A i \in clean :
        Value(i) = Rows(i) - Cardinality(DueIncr(i)) + Cardinality(DueDecr(i))

(***************************************************************************)
(* At most one request holds a mutex of flight_locks, across entries that  *)
(* are removed and registered again under the same key.                    *)
(***************************************************************************)
OneHolder ==
    \A r, s \in Requests :
        /\ pc[r] \in Critical /\ pc[s] \in Critical
        /\ mtx[r] = mtx[s]
        => r = s

(***************************************************************************)
(* As long as no key has expired, nothing has failed and users only like,  *)
(* at most one request at a time asks the database for the count of an item *)
(* or stores it, although entries are removed by key and not by mutex:     *)
(* the stampede on a cold key reaches the database once.  (An unlike can   *)
(* bring the key below zero, which reads like a missing key.)              *)
(***************************************************************************)
Calm == ~expired /\ faults = 0

OnlyLikes == \A w \in Writers : Op(w) = "like"

Fetching(i) == {r \in Requests : ItemOf(r) = i /\ pc[r] \in {"fetch", "store"}}

SingleFlight ==
    Calm /\ OnlyLikes => \A i \in Items : \A r, s \in Fetching(i) : r = s

(***************************************************************************)
(* As long as nothing has failed, an entry of flight_locks is one that a   *)
(* request waits for or holds, also while keys expire: the map does not    *)
(* grow with the keys ever asked for.                                      *)
(***************************************************************************)
EntryInUse ==
    faults = 0 =>
        \A i \in Items : flight[i] # NoMutex =>
            \E r \in Requests : mtx[r] = flight[i] /\ ItemOf(r) = i

(***************************************************************************)
(* The answers already_exists and was_liked of concurrent requests fit one *)
(* history of each row: the likes that inserted it and the unlikes that    *)
(* deleted it alternate, and the row is there after an insert.             *)
(***************************************************************************)
ChangesAlternate ==
    \A p \in Users \X Items :
        LET ins == Cardinality({w \in changed : RowOf(w) = p /\ Op(w) = "like"})
            del == Cardinality({w \in changed : RowOf(w) = p /\ Op(w) = "unlike"})
        IN ins - del \in IF p \in likes THEN {0, 1} ELSE {-1, 0}

(***************************************************************************)
(* A change that is answered has been announced to the event streams, by   *)
(* whichever of the ways a request can end: its counter command, the count *)
(* of the database in its place, or the zero that remove_like leaves alone. *)
(***************************************************************************)
ChangesAnnounced == \A w \in changed : pc[w] = "ok" => w \in announced

(***************************************************************************)
(* The likes table as its callers see it: what LikeLedger promises.        *)
(***************************************************************************)
PhaseAt(label) ==
    CASE label \in {"validate", "save", "remove"} -> "waiting"
      [] label = "ok"                            -> "answered"
      [] label = "failed"                        -> "failed"
      [] OTHER                                   -> "applied"

Ledger == INSTANCE LikeLedger WITH
    rows <- likes,
    asked <- [w \in Writers |-> req[w]],
    phase <- [w \in Writers |-> PhaseAt(pc[w])]

\* Every like and unlike takes effect at most once, in one step, whatever the
\* others do to its row meanwhile, and its answer says what that step did.
LedgerSafe == Ledger!Spec

(***************************************************************************)
(* No request hangs on a flight lock, whoever else was dropped with an     *)
(* entry of the map behind it: a count is answered again and again, and a  *)
(* like or unlike once.                                                    *)
(***************************************************************************)
RequestsServed ==
    /\ \A r \in Readers : []<>(pc[r] \in Ended)
    /\ \A w \in Writers : <>(pc[w] \in Ended)

(***************************************************************************)
(* Whatever races, faults and stale fills happened while requests ran, the *)
(* expiry of the keys repairs the counters once the writes have ended:     *)
(* from some time on a counter is absent or right.                         *)
(***************************************************************************)
EventuallyConsistent ==
    <>[](\A i \in Items : count[i] \in {NoKey, Rows(i)})

-----------------------------------------------------------------------------
(***************************************************************************)
(* What the documentation and the tests say; the code does not keep these. *)
(***************************************************************************)

\* "immediate consistency for the user": with no request under way, a
\* counter that is present is the number of rows.
WriteThrough ==
    (redis = "up" /\ \A r \in Requests : pc[r] \in Ended)
        => \A i \in Items : count[i] \in {NoKey, Rows(i)}
=============================================================================
