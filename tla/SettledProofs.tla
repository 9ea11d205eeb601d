---------------------------- MODULE SettledProofs ----------------------------
(***************************************************************************)
(* What makes the counters consistent in the end: once right and with the  *)
(* writes of its item at an end, a counter stays absent or right, for      *)
(* every number of requests and batches, checked by TLAPS.  This is the    *)
(* safety half of EventuallyConsistent; that the state is reached at all   *)
(* is liveness, which TLC checks.                                          *)
(***************************************************************************)
EXTENDS BatchCountsProofs

USE DEF ports, local, ghosts, Goto

\* The rows of a settled item do not change.
LEMMA SettledRows ==
  ASSUME TypeOK, [Next]_vars, NEW i \in Items, Settled(i)
  PROVE  Rows(i)' = Rows(i)
  <1>1. CASE UNCHANGED <<likes, changed, req>>
    BY <1>1 DEF Rows
  <1>2. ASSUME NEW r \in Requests, SaveNew(r) \/ RemoveLiked(r)
        PROVE  Rows(i)' = Rows(i)
    <2>1. r \in Writers
      BY <1>2 DEF SaveNew, RemoveLiked, TypeOK, Requests, Filling, Ended
    <2>2. ItemOf(r) # i
      BY <1>2, <2>1 DEF Settled, MayWrite, SaveNew, RemoveLiked
    <2>3. likes' \in {likes \cup {RowOf(r)}, likes \ {RowOf(r)}}
      BY <1>2 DEF SaveNew, SaveRow, RemoveLiked, RemoveRow
    <2>4. \A u \in Users : <<u, i>> \in likes' <=> <<u, i>> \in likes
      BY <2>2, <2>3 DEF RowOf, ItemOf
    <2> QED
      BY <2>4 DEF Rows
  <1> QED
    BY <1>1, <1>2, HistoryKept

\* A write of a settled item has nothing more to do to table or counter.
LEMMA SettledWrites ==
  ASSUME TypeOK, [Next]_vars, NEW w \in Writers, ~MayWrite(w)
  PROVE  ~MayWrite(w)'
  <1> USE DEF TypeOK, Filling, Ended, Labels
  <1>1. w \in Requests /\ w \notin Readers /\ Op(w)' = Op(w)
    BY ReqStays, RequestsAssumption DEF Requests, Op
  <1>2. pc[w] \notin {"validate", "save", "remove", "incr", "decr"}
    BY DEF MayWrite
  <1>3. w \in changed' => w \in changed
    BY <1>1, <1>2, HistoryKept DEF SaveNew, RemoveLiked
  <1>4. CASE pc'[w] = pc[w]
    BY <1>1, <1>3, <1>4 DEF MayWrite
  <1>5. ASSUME NEW r \in Requests, NEW label, pc' = [pc EXCEPT ![r] = label],
               label \notin {"validate", "save", "remove", "incr"},
               label = "decr" => Op(r) = "unlike" /\ r \in changed /\ pc[r] \in Filling,
               label \in Filling => pc[r] \in Filling \/ r \in Readers
        PROVE  ~MayWrite(w)'
    BY <1>1, <1>2, <1>3, <1>4, <1>5 DEF MayWrite
  <1>6. ASSUME NEW r \in Requests, Validate(r) \/ Write(r)
        PROVE  ~MayWrite(w)'
    <2>1. r # w
      BY <1>2, <1>6 DEF Validate, Write, SaveNew, SaveExisting, RemoveLiked, RemoveAbsent
    <2>2. pc'[w] = pc[w]
      BY <1>1, <1>6, <2>1
      DEF Validate, Write, SaveNew, SaveExisting, RemoveLiked, RemoveAbsent
    <2> QED
      BY <1>4, <2>2
  <1>7. ASSUME NEW r \in Requests, NEW n, Return(r, n), pc[r] \in Filling
        PROVE  ~MayWrite(w)'
    <2>1. pc' = [pc EXCEPT ![r] = AfterCount(r, n)]
      BY <1>7 DEF Return
    <2>2. AfterCount(r, n) \in {"row", "decr", "ok"}
      BY DEF AfterCount
    <2>3. AfterCount(r, n) = "decr" => Op(r) = "unlike" /\ r \in changed
      BY DEF AfterCount
    <2> QED
      BY <1>5, <1>7, <2>1, <2>2, <2>3
  <1>8. ASSUME NEW r \in Requests, Fill(r) PROVE ~MayWrite(w)'
    <2>1. CASE PeekHit(r) \/ Leave(r)
      BY <1>7, <2>1 DEF PeekHit, Leave
    <2>2. CASE PeekMiss(r) \/ Enter(r) \/ Lock(r) \/ RecheckHit(r) \/ RecheckMiss(r)
               \/ Fetch(r) \/ Store(r)
      BY <1>5, <2>2 DEF PeekMiss, Enter, Lock, RecheckHit, RecheckMiss, Fetch, Store
    <2> QED
      BY <1>8, <2>1, <2>2 DEF Fill
  <1>9. ASSUME NEW r \in Requests, Finish(r) \/ NextCount(r) \/ Drop(r)
        PROVE  ~MayWrite(w)'
    BY <1>5, <1>9
    DEF Finish, ReadRow, Incr, Decr, Reply, CommandFails, DbCount, NextCount, Drop
  <1>10. ASSUME (\E i \in Items : Expire(i)) \/ RedisDown \/ RedisUp \/ UNCHANGED vars
         PROVE  ~MayWrite(w)'
    BY <1>4, <1>10 DEF Expire, RedisDown, RedisUp, vars
  <1> QED
    BY <1>6, <1>8, <1>9, <1>10 DEF Next, Step

\* What a fill is about to store of a settled item is the number of its rows.
LEMMA SettledFills ==
  ASSUME TypeOK, [Next]_vars, NEW i \in Items, Settled(i),
         NEW r \in Requests, ItemOf(r) = i, pc'[r] = "store"
  PROVE  fetched'[r] = Rows(i)
  <1> USE DEF TypeOK
  <1>1. CASE Fetch(r)
    BY <1>1 DEF Fetch
  <1>2. CASE ~Fetch(r)
    <2>1. pc[r] = "store" /\ fetched'[r] = fetched[r]
      <3>1. ASSUME NEW s \in Requests, Fill(s)
            PROVE  pc[r] = "store" /\ fetched'[r] = fetched[r]
        BY <1>2, <3>1 DEF Fill, PeekHit, PeekMiss, Enter, Lock, RecheckHit, RecheckMiss,
           Fetch, Store, Leave, Return, AfterCount
      <3>2. ASSUME NEW s \in Requests, Validate(s) \/ Write(s)
            PROVE  pc[r] = "store" /\ fetched'[r] = fetched[r]
        BY <3>2 DEF Validate, Write, SaveNew, SaveExisting, RemoveLiked, RemoveAbsent
      <3>3. ASSUME NEW s \in Requests, Finish(s) \/ NextCount(s) \/ Drop(s)
            PROVE  pc[r] = "store" /\ fetched'[r] = fetched[r]
        BY <3>3
        DEF Finish, ReadRow, Incr, Decr, Reply, CommandFails, DbCount, NextCount, Drop
      <3>4. ASSUME (\E j \in Items : Expire(j)) \/ RedisDown \/ RedisUp \/ UNCHANGED vars
            PROVE  pc[r] = "store" /\ fetched'[r] = fetched[r]
        BY <3>4 DEF Expire, RedisDown, RedisUp, vars
      <3> QED
        BY <3>1, <3>2, <3>3, <3>4 DEF Next, Step
    <2> QED
      BY <2>1 DEF Settled
  <1> QED
    BY <1>1, <1>2

\* The key of a settled item keeps its value, is filled rightly or goes away.
LEMMA SettledCounter ==
  ASSUME TypeOK, [Next]_vars, NEW i \in Items, Settled(i)
  PROVE  count'[i] \in {NoKey, Rows(i)}
  <1> USE DEF TypeOK
  <1>1. CASE count'[i] = count[i]
    BY <1>1 DEF Settled
  <1>2. ASSUME NEW r \in Requests, Store(r)
        PROVE  count'[i] \in {NoKey, Rows(i)}
    <2>1. CASE ItemOf(r) = i
      BY <1>2, <2>1 DEF Store, Stored, Settled
    <2>2. CASE ItemOf(r) # i
      BY <1>1, <1>2, <2>2 DEF Store, Stored
    <2> QED
      BY <2>1, <2>2
  <1>3. ASSUME NEW r \in Requests, Incr(r) \/ Decr(r)
        PROVE  count'[i] \in {NoKey, Rows(i)}
    <2>1. r \in Writers
      BY <1>3 DEF Incr, Decr, Requests, Filling, Ended
    <2>2. ItemOf(r) # i
      BY <1>3, <2>1 DEF Settled, MayWrite, Incr, Decr
    <2> QED
      BY <1>1, <1>3, <2>2 DEF Incr, Decr, Incremented, Decremented
  <1>4. ASSUME (\E j \in Items : Expire(j)) \/ RedisUp
        PROVE  count'[i] \in {NoKey, Rows(i)}
    BY <1>1, <1>4 DEF Expire, RedisUp
  <1>5. \/ UNCHANGED count
        \/ \E r \in Requests : Store(r) \/ Incr(r) \/ Decr(r)
        \/ \E j \in Items : Expire(j)
        \/ RedisUp
    BY DEF Next, Step, Validate, Write, SaveNew, SaveExisting, RemoveLiked, RemoveAbsent,
       Fill, PeekHit, PeekMiss, Enter, Lock, RecheckHit, RecheckMiss, Fetch, Leave,
       Finish, ReadRow, CommandFails, DbCount, NextCount, Drop, RedisDown, vars
  <1> QED
    BY <1>1, <1>2, <1>3, <1>4, <1>5

-----------------------------------------------------------------------------
\* The task of a batch is spawned when the batch is answered.
TaskInv == \A b \in Batches : bpc[b] \in {"mget", "claim"} => task[b] = "none"

\* No batch has a task before its answer.
LEMMA TaskCorrect == BatchSpec => []TaskInv
  <1>1. BatchInit => TaskInv
    BY DEF BatchInit, TaskInv
  <1>2. BatchTypeOK /\ TaskInv /\ [BatchNext]_allVars => TaskInv'
    <2> SUFFICES ASSUME BatchTypeOK, TaskInv, [BatchNext]_allVars PROVE TaskInv'
      OBVIOUS
    <2>1. CASE SingleStep \/ UNCHANGED allVars
      BY <2>1 DEF SingleStep, bvars, allVars, TaskInv
    <2>2. ASSUME NEW b \in Batches, OfBatch(b) PROVE TaskInv'
      BY <2>2 DEF OfBatch, BatchStep, TaskStep, Mget, Claim, NothingClaimed, BatchFetch,
         TaskWrite, TaskRelease, BatchDrop, Move, Ended, BatchTypeOK, TaskInv
    <2> QED
      BY <2>1, <2>2 DEF BatchNext, OfBatch
  <1> QED
    BY <1>1, <1>2, BatchTypeCorrect, PTL DEF BatchSpec

\* A step of LikeService leaves a settled item settled.
LEMMA SettledSingle ==
  ASSUME BatchTypeOK, [Next]_vars, UNCHANGED <<claimed, task, dbCounts>>,
         NEW i \in Items, Settled(i)
  PROVE  Settled(i)'
  <1>1. TypeOK
    BY DEF BatchTypeOK
  <1>2. \A r \in Requests : ItemOf(r)' = ItemOf(r)
    BY ReqStays DEF ItemOf
  <1>3. Rows(i)' = Rows(i)
    BY <1>1, SettledRows
  <1>4. \A w \in Writers : ItemOf(w) = i => ~MayWrite(w)'
    BY <1>1, SettledWrites DEF Settled
  <1>5. \A r \in Requests : ItemOf(r) = i /\ pc'[r] = "store" => fetched'[r] = Rows(i)
    BY <1>1, SettledFills
  <1>6. \A b \in Batches : i \in claimed[b] /\ task[b] = "write" => dbCounts[b][i] = Rows(i)
    BY DEF Settled
  <1>7. count'[i] \in {NoKey, Rows(i)}
    BY <1>1, SettledCounter
  <1> QED
    BY <1>2, <1>3, <1>4, <1>5, <1>6, <1>7 DEF Settled, Requests

\* So does a step of a batch or of its task.
LEMMA SettledBatch ==
  ASSUME BatchTypeOK, TaskInv, NEW b \in Batches, OfBatch(b), NEW i \in Items, Settled(i)
  PROVE  Settled(i)'
  <1> USE DEF BatchTypeOK
  <1>1. UNCHANGED <<likes, req, changed, pc, fetched>>
    BY BatchesReadOnly
  <1>2. Rows(i)' = Rows(i)
    BY <1>1 DEF Rows
  <1>3. ASSUME NEW c \in Batches, i \in claimed'[c], task'[c] = "write"
        PROVE  dbCounts'[c][i] = Rows(i)
    <2>1. CASE BatchFetch(b) /\ c = b
      BY <1>3, <2>1 DEF BatchFetch
    <2>2. CASE ~(BatchFetch(b) /\ c = b)
      <3>1. task[c] = "write" /\ claimed'[c] = claimed[c] /\ dbCounts'[c] = dbCounts[c]
        BY <1>3, <2>2 DEF OfBatch, BatchStep, TaskStep, Mget, Claim, NothingClaimed,
           BatchFetch, TaskWrite, TaskRelease, BatchDrop, TaskInv
      <3> QED
        BY <1>3, <3>1 DEF Settled
    <2> QED
      BY <2>1, <2>2
  <1>4. count'[i] \in {NoKey, Rows(i)}
    <2>1. CASE TaskWrite(b)
      BY <2>1 DEF TaskWrite, SetCounts, Settled
    <2>2. CASE ~TaskWrite(b)
      <3>1. count' = count
        BY <2>2 DEF OfBatch, BatchStep, TaskStep, Mget, Claim, NothingClaimed,
           BatchFetch, TaskRelease, BatchDrop, vars
      <3> QED
        BY <3>1 DEF Settled
    <2> QED
      BY <2>1, <2>2
  <1> QED
    BY <1>1, <1>2, <1>3, <1>4 DEF Settled, MayWrite, ItemOf, Op

\* A right counter stays right once the writes of its item are through.
THEOREM CountersStaySettled == BatchSpec => SettledStays
  <1>1. BatchTypeOK /\ TaskInv /\ [BatchNext]_allVars
          => [\A i \in Items : Settled(i) => Settled(i)']_allVars
    <2> SUFFICES ASSUME BatchTypeOK, TaskInv, [BatchNext]_allVars, NEW i \in Items, Settled(i)
                 PROVE  Settled(i)'
      OBVIOUS
    <2>1. CASE SingleStep
      BY <2>1, SettledSingle DEF SingleStep, bvars
    <2>2. ASSUME NEW b \in Batches, OfBatch(b) PROVE Settled(i)'
      BY <2>2, SettledBatch
    <2>3. CASE UNCHANGED allVars
      BY <2>3, SettledSingle DEF allVars, bvars
    <2> QED
      BY <2>1, <2>2, <2>3 DEF BatchNext, OfBatch
  <1> QED
    BY <1>1, BatchTypeCorrect, TaskCorrect, PTL DEF BatchSpec, SettledStays
=============================================================================
