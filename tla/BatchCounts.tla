---------------------------- MODULE BatchCounts ----------------------------
(***************************************************************************)
(* get_likes_count_batch beside the single-item requests of LikeService:   *)
(* a batch reads all its counters with one MGET, registers the missing     *)
(* items in the same flight_locks, asks the database for the ones nobody   *)
(* else had registered, and answers; a spawned task then writes the counts *)
(* to Redis.  Batches and single requests share the table, the counters    *)
(* and the lock map.                                                       *)
(***************************************************************************)
EXTENDS LikeService

CONSTANT Batches    \* requests POST /v1/likes/batch/counts

VARIABLES
    bpc,       \* the await each batch is at
    asked,     \* the items of the request
    left,      \* missing_items that the loop has yet to register
    claimed,   \* to_fetch_from_db
    answered,  \* the items in results
    task,      \* the spawned task of the batch
    dbCounts,  \* the counts the database gave for the claimed items
    bquiet     \* history: (batch, item) fetches that no write overlaps

bvars == <<bpc, asked, left, claimed, answered, task, dbCounts>>
allVars == <<vars, bvars, bquiet>>

BatchInit ==
    /\ Init
    /\ bpc = [b \in Batches |-> "mget"]
    /\ asked \in [Batches -> SUBSET Items \ {{}}]
    /\ left = [b \in Batches |-> {}]
    /\ claimed = [b \in Batches |-> {}]
    /\ answered = [b \in Batches |-> {}]
    /\ task = [b \in Batches |-> "none"]
    /\ dbCounts = [b \in Batches |-> [i \in Items |-> 0]]
    /\ bquiet = {}

Move(b, label) == bpc' = [bpc EXCEPT ![b] = label]

\* MGET fails as a whole on one negative counter; then nothing is cached.
Cached(asks) ==
    IF redis = "up" /\ \A i \in asks : Value(i) >= 0
    THEN {i \in asks : count[i] # NoKey}
    ELSE {}

Missing(b) == asked[b] \ Cached(asked[b])

Mget(b) ==
    /\ bpc[b] = "mget"
    /\ answered' = [answered EXCEPT ![b] = Cached(asked[b])]
    /\ left' = [left EXCEPT ![b] = Missing(b)]
    /\ Move(b, IF Missing(b) = {} THEN "ok" ELSE "claim")
    /\ UNCHANGED <<vars, asked, claimed, task, dbCounts, bquiet>>

\* flight_locks.insert(key, new mutex).is_none(): an entry that was there is
\* replaced all the same, and its item is neither fetched nor answered.
\* (Mutants: register items without looking for an entry; fetch the ones
\* that somebody has registered; wait for an entry to go away.)
ClaimsBusy(i) == {i}
WinsBusy(i) == {j \in {i} : flight[j] # NoMutex}
Won(i) == {j \in {i} : flight[j] = NoMutex}
ClaimWaits(b) == {i \in left[b] : flight[i] = NoMutex}
Claimable(b) == left[b]

Claim(b) ==
    /\ bpc[b] = "claim"
    /\ \E i \in Claimable(b), m \in Fresh \cap {AnyFresh} :
         /\ flight' = [flight EXCEPT ![i] = m]
         /\ left' = [left EXCEPT ![b] = @ \ {i}]
         /\ claimed' = [claimed EXCEPT ![b] = @ \cup Won(i)]
    /\ UNCHANGED <<ports, pc, local, faults, ghosts,
                   bpc, asked, answered, task, dbCounts, bquiet>>

NothingClaimed(b) ==
    /\ bpc[b] = "claim" /\ left[b] = {} /\ claimed[b] = {}
    /\ Move(b, "ok")
    /\ UNCHANGED <<vars, asked, left, claimed, answered, task, dbCounts, bquiet>>

\* SELECT COUNT(..) .. LEFT JOIN .. GROUP BY: every claimed item has a count.
\* The answer does not wait for the task that caches the counts.
BatchFetch(b) ==
    /\ bpc[b] = "claim" /\ left[b] = {} /\ claimed[b] # {}
    /\ dbCounts' = [dbCounts EXCEPT ![b] =
                      [i \in Items |-> IF i \in claimed[b] THEN Rows(i) ELSE 0]]
    /\ bquiet' = bquiet \cup {<<b, i>> : i \in {j \in claimed[b] : Due(j) = {}}}
    /\ answered' = [answered EXCEPT ![b] = @ \cup claimed[b]]
    /\ task' = [task EXCEPT ![b] = "write"]
    /\ Move(b, "ok")
    /\ UNCHANGED <<vars, asked, left, claimed>>

\* set_counts_batch, a pipeline of SET .. EX.
\* (Mutant: the counts are added to what is cached.)
AddCounts(b) == [i \in Items |->
    IF i \in claimed[b] THEN Value(i) + dbCounts[b][i] ELSE count[i]]
SetCounts(b) == [i \in Items |->
    IF i \in claimed[b] THEN dbCounts[b][i] ELSE count[i]]

TaskWrite(b) ==
    /\ task[b] = "write"
    /\ IF redis = "up"
       THEN /\ count' = SetCounts(b)
            /\ clean' = (clean \ claimed[b]) \cup {i \in claimed[b] : <<b, i>> \in bquiet}
       ELSE UNCHANGED <<count, clean>>
    /\ bquiet' = {p \in bquiet : p[1] # b}
    /\ task' = [task EXCEPT ![b] = "release"]
    /\ dbCounts' = [dbCounts EXCEPT ![b] = [i \in Items |-> 0]]
    /\ UNCHANGED <<likes, redis, flight, pc, local, faults, quiet, expired,
                   bpc, asked, left, claimed, answered>>

\* The keys are removed from rehydration_set, a copy of the map that
\* DashMap::clone made when the task was spawned.
TaskRelease(b) ==
    /\ task[b] = "release"
    /\ task' = [task EXCEPT ![b] = "done"]
    /\ UNCHANGED <<vars, bpc, asked, left, claimed, answered, dbCounts, bquiet>>

\* The database fails or the client disconnects; the entries stay.
BatchDrop(b) ==
    /\ bpc[b] \notin Ended
    /\ Fault
    /\ Move(b, "failed")
    /\ UNCHANGED <<ports, flight, pc, local, ghosts,
                   asked, left, claimed, answered, task, dbCounts, bquiet>>

BatchStep(b) == Mget(b) \/ Claim(b) \/ NothingClaimed(b) \/ BatchFetch(b)
TaskStep(b) == TaskWrite(b) \/ TaskRelease(b)

\* Likers(i) before and after a step.
RowsKept(i) == \A u \in Users : <<u, i>> \in likes' <=> <<u, i>> \in likes

SingleStep ==
    /\ Next
    /\ bquiet' = {p \in bquiet : RowsKept(p[2])}
    /\ UNCHANGED bvars

BatchNext ==
    \/ SingleStep
    \/ \E b \in Batches : BatchStep(b) \/ TaskStep(b) \/ BatchDrop(b)

BatchSpec == BatchInit /\ [][BatchNext]_allVars

BatchFairness ==
    /\ \A r \in Requests : WF_allVars(Step(r) /\ SingleStep)
    /\ \A i \in Items : WF_allVars(Expire(i) /\ SingleStep)
    /\ WF_allVars(RedisUp /\ SingleStep)
    /\ \A b \in Batches : WF_allVars(BatchStep(b)) /\ WF_allVars(TaskStep(b))

BatchFairSpec == BatchSpec /\ BatchFairness

-----------------------------------------------------------------------------
BatchTypeOK ==
    /\ TypeOK
    /\ bpc \in [Batches -> {"mget", "claim"} \cup Ended]
    /\ asked \in [Batches -> SUBSET Items]
    /\ left \in [Batches -> SUBSET Items]
    /\ claimed \in [Batches -> SUBSET Items]
    /\ answered \in [Batches -> SUBSET Items]
    /\ task \in [Batches -> {"none", "write", "release", "done"}]
    /\ dbCounts \in [Batches -> [Items -> Nat]]
    /\ bquiet \in SUBSET (Batches \X Items)

(***************************************************************************)
(* A batch never waits for anybody: whatever entries other batches, failed *)
(* requests and its own items left in the lock map, it is answered.        *)
(***************************************************************************)
BatchesAnswered == \A b \in Batches : <>(bpc[b] \in Ended)

(***************************************************************************)
(* A counter that is absent or right stays so once the writes of its item  *)
(* have done their part and what fills and tasks are about to store is     *)
(* right, whatever fills, batches, expiries and outages follow: with the   *)
(* writes at an end a counter can only be repaired.                        *)
(***************************************************************************)
MayWrite(w) ==
    \/ pc[w] \in {"validate", "save", "remove", "incr", "decr"}
    \/ w \in changed /\ Op(w) = "unlike" /\ pc[w] \in Filling

Settled(i) ==
    /\ \A w \in Writers : ItemOf(w) = i => ~MayWrite(w)
    /\ \A r \in Requests : ItemOf(r) = i /\ pc[r] = "store" => fetched[r] = Rows(i)
    /\ \A b \in Batches : i \in claimed[b] /\ task[b] = "write" => dbCounts[b][i] = Rows(i)
    /\ count[i] \in {NoKey, Rows(i)}

SettledStays == [][\A i \in Items : Settled(i) => Settled(i)']_allVars
=============================================================================
