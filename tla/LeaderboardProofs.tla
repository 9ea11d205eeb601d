------------------------- MODULE LeaderboardProofs -------------------------
(***************************************************************************)
(* Proofs about Leaderboard for any number of clients and refreshes.       *)
(***************************************************************************)
EXTENDS Leaderboard, TLAPS

\* Every variable of the leaderboard keeps its type.
THEOREM LeaderboardTypeCorrect == LeaderboardSpec => []LeaderboardTypeOK
  <1>0. /\ MaxChanges \in Nat /\ MaxFaults \in Nat
        /\ 0 \in 0..MaxChanges /\ 0 \in 0..MaxFaults
        /\ NoRanking \in Rankings /\ \A n \in 0..MaxChanges : n \in Rankings
    BY LeaderboardAssumption DEF Rankings
  <1>1. LeaderboardInit => LeaderboardTypeOK
    BY <1>0 DEF LeaderboardInit, LeaderboardTypeOK
  <1>2. LeaderboardTypeOK /\ [LeaderboardNext]_boardVars => LeaderboardTypeOK'
    <2> SUFFICES ASSUME LeaderboardTypeOK, [LeaderboardNext]_boardVars
                 PROVE  LeaderboardTypeOK'
      OBVIOUS
    <2> USE DEF LeaderboardTypeOK, keys, requests, refreshes, Goto, Hold, MoveTask
    <2>1. ASSUME NEW c \in Clients, ReadFresh(c) \/ ReadStale(c) \/ ReadNothing(c)
          PROVE  LeaderboardTypeOK'
      BY <1>0, <2>1 DEF ReadFresh, ReadStale, ReadNothing, Cached
    <2>2. ASSUME NEW c \in Clients, AcquireLock(c) \/ RefreshUnderWay(c)
          PROVE  LeaderboardTypeOK'
      BY <2>2 DEF AcquireLock, RefreshUnderWay
    <2>3. ASSUME NEW c \in Clients, Ask(c) PROVE LeaderboardTypeOK'
      BY <1>0, <2>3 DEF Ask
    <2>4. ASSUME NEW c \in Clients, AskFails(c) PROVE LeaderboardTypeOK'
      BY <1>0, <2>4 DEF AskFails, Fault
    <2>5. ASSUME NEW c \in Clients, Store(c) PROVE LeaderboardTypeOK'
      BY <1>0, <2>5 DEF Store, Stored
    <2>6. ASSUME NEW c \in Clients, NextRequest(c) PROVE LeaderboardTypeOK'
      BY <1>0, <2>6 DEF NextRequest
    <2>7. ASSUME NEW t \in Tasks, TaskAsk(t) PROVE LeaderboardTypeOK'
      BY <1>0, <2>7 DEF TaskAsk
    <2>8. ASSUME NEW t \in Tasks, TaskFails(t) PROVE LeaderboardTypeOK'
      BY <1>0, <2>8 DEF TaskFails, Fault
    <2>9. ASSUME NEW t \in Tasks, TaskStore(t) PROVE LeaderboardTypeOK'
      BY <1>0, <2>9 DEF TaskStore, Stored
    <2>10. ASSUME Change PROVE LeaderboardTypeOK'
      BY <1>0, <2>10 DEF Change
    <2>11. ASSUME ExpireCanary PROVE LeaderboardTypeOK'
      BY <1>0, <2>11 DEF ExpireCanary
    <2>12. ASSUME ExpireLock PROVE LeaderboardTypeOK'
      <3>1. UNCHANGED faults \/ Fault
        BY <2>12 DEF ExpireLock
      <3>2. faults' \in 0..MaxFaults
        BY <1>0, <3>1 DEF Fault
      <3>3. QED
        BY <2>12, <3>2 DEF ExpireLock
    <2>13. ASSUME RedisDown PROVE LeaderboardTypeOK'
      BY <1>0, <2>13 DEF RedisDown, Fault
    <2>14. ASSUME RedisUp PROVE LeaderboardTypeOK'
      BY <1>0, <2>14 DEF RedisUp
    <2>15. ASSUME UNCHANGED boardVars PROVE LeaderboardTypeOK'
      BY <1>0, <2>15 DEF boardVars
    <2>16. ASSUME NEW c \in Clients, LockLost(c) PROVE LeaderboardTypeOK'
      BY <1>0, <2>16 DEF LockLost, Fault
    <2>17. QED
      BY <2>1, <2>2, <2>3, <2>4, <2>5, <2>6, <2>7, <2>8, <2>9, <2>10, <2>11, <2>12, <2>13, <2>14, <2>15, <2>16
      DEF LeaderboardNext, Request, Refresh
  <1>3. QED
    BY <1>1, <1>2, PTL DEF LeaderboardSpec

-----------------------------------------------------------------------------
Busy(t) == task[t] # "idle"

\* The refresh under way holds the lock, and without a fault Redis is up.
RefreshInv == SingleRefresh /\ (faults = 0 => redis = "up")

\* A step that starts no refresh and loses no lock keeps RefreshInv.
LEMMA RefreshKept ==
  ASSUME LeaderboardTypeOK, RefreshInv, faults' = 0 => faults = 0,
         faults' = 0 => redis' = redis,
         faults' = 0 /\ (\E t \in Tasks : Busy(t)) => lock' = lock,
         \A t \in Tasks : Busy(t)' => Busy(t)
  PROVE  RefreshInv'
  BY DEF RefreshInv, SingleRefresh, Busy

\* A fault is never forgotten.
LEMMA FaultsStay ==
  ASSUME LeaderboardTypeOK, UNCHANGED faults \/ Fault
  PROVE  faults' = 0 => faults = 0
  BY DEF LeaderboardTypeOK, Fault

\* Every step keeps RefreshInv.
LEMMA RefreshStep ==
  LeaderboardTypeOK /\ RefreshInv /\ [LeaderboardNext]_boardVars => RefreshInv'
  <1> SUFFICES ASSUME LeaderboardTypeOK, RefreshInv, [LeaderboardNext]_boardVars
               PROVE  RefreshInv'
    OBVIOUS
  <1>0. task \in [Tasks -> {"idle", "ask", "store"}] /\ faults \in Nat
    BY LeaderboardAssumption DEF LeaderboardTypeOK
  <1> USE DEF Busy, keys, requests, refreshes, MoveTask
  <1>1. ASSUME NEW c \in Clients, AcquireLock(c) PROVE RefreshInv'
    <2>1. PICK t \in Tasks : task[t] = "idle" /\ task' = [task EXCEPT ![t] = "ask"]
      BY <1>1 DEF AcquireLock
    <2>2. lock' = TRUE /\ lock # TRUE /\ faults' = faults /\ redis' = redis
      BY <1>1 DEF AcquireLock, LockFree, LeaderboardTypeOK
    <2>3. faults = 0 => \A u \in Tasks : task[u] = "idle"
      BY <2>2 DEF RefreshInv, SingleRefresh
    <2>4. faults = 0 => \A u \in Tasks : task'[u] # "idle" => u = t
      BY <1>0, <2>1, <2>3
    <2>5. QED
      BY <2>2, <2>4 DEF RefreshInv, SingleRefresh
  <1>2. ASSUME NEW c \in Clients,
               \/ ReadFresh(c) \/ ReadStale(c) \/ ReadNothing(c) \/ RefreshUnderWay(c)
               \/ Ask(c) \/ Store(c) \/ NextRequest(c) \/ AskFails(c)
        PROVE  RefreshInv'
    <2>1. UNCHANGED <<task, lock, redis>> /\ (UNCHANGED faults \/ Fault)
      BY <1>2 DEF ReadFresh, ReadStale, ReadNothing, RefreshUnderWay, Ask, Store,
                  NextRequest, AskFails
    <2>2. QED
      BY <2>1, FaultsStay, RefreshKept
  <1>3. ASSUME NEW t \in Tasks, TaskAsk(t) \/ TaskFails(t) \/ TaskStore(t)
        PROVE  RefreshInv'
    <2>1. /\ UNCHANGED <<lock, redis>> /\ (UNCHANGED faults \/ Fault)
          /\ Busy(t) /\ \E label \in {"idle", "store"} : task' = [task EXCEPT ![t] = label]
      BY <1>3 DEF TaskAsk, TaskFails, TaskStore
    <2>2. \A u \in Tasks : Busy(u)' => Busy(u)
      BY <1>0, <2>1
    <2>3. QED
      BY <2>1, <2>2, FaultsStay, RefreshKept
  <1>4. CASE Change \/ ExpireCanary \/ UNCHANGED boardVars
    BY <1>4 DEF Change, ExpireCanary, boardVars, RefreshInv, SingleRefresh
  <1>5. CASE ExpireLock
    <2>1. UNCHANGED <<task, redis>> /\ (UNCHANGED faults \/ Fault)
      BY <1>5 DEF ExpireLock
    <2>2. (\E t \in Tasks : Busy(t)) => faults' # 0
      BY <1>0, <1>5 DEF ExpireLock, Fault
    <2>3. QED
      BY <2>1, <2>2, FaultsStay, RefreshKept
  <1>6. CASE RedisDown
    BY <1>0, <1>6 DEF RedisDown, Fault, RefreshInv, SingleRefresh
  <1>7. CASE RedisUp
    BY <1>7 DEF RedisUp, RefreshInv, SingleRefresh
  <1>8. ASSUME NEW c \in Clients, LockLost(c) PROVE RefreshInv'
    BY <1>0, <1>8 DEF LockLost, Fault, RefreshInv, SingleRefresh
  <1>9. QED
    BY <1>1, <1>2, <1>3, <1>4, <1>5, <1>6, <1>7, <1>8 DEF LeaderboardNext, Request, Refresh

\* Without faults one refresh at a time is under way, under the lock.
THEOREM OneRefresh == LeaderboardSpec => []SingleRefresh
  <1>1. LeaderboardInit => RefreshInv
    BY DEF LeaderboardInit, RefreshInv, SingleRefresh
  <1>2. RefreshInv => SingleRefresh
    BY DEF RefreshInv
  <1>3. QED
    BY <1>1, <1>2, RefreshStep, LeaderboardTypeCorrect, PTL DEF LeaderboardSpec

-----------------------------------------------------------------------------
\* Between the cached ranking and the one of the database lies what the
\* refresh has read, as long as no request found the key cold.
OrderInv ==
  faults = 0 /\ ~cold =>
    /\ \A c \in Clients : cpc[c] \notin {"ask", "store"}
    /\ data # NoRanking => data <= ranking
    /\ \A t \in Tasks : task[t] = "store" =>
         /\ fresh[t] \in Nat /\ fresh[t] <= ranking
         /\ data # NoRanking => data <= fresh[t]

InOrder == faults' = 0 /\ ~cold' /\ data # NoRanking => data' >= data

\* Every step keeps OrderInv and the order of the cached rankings.
LEMMA OrderStep ==
  LeaderboardTypeOK /\ RefreshInv /\ OrderInv /\ [LeaderboardNext]_boardVars
    => OrderInv' /\ InOrder
  <1> SUFFICES ASSUME LeaderboardTypeOK, RefreshInv, OrderInv,
                      [LeaderboardNext]_boardVars
               PROVE  OrderInv' /\ InOrder
    OBVIOUS
  <1>0. /\ task \in [Tasks -> {"idle", "ask", "store"}] /\ faults \in Nat
        /\ ranking \in Nat /\ (data # NoRanking => data \in Nat)
        /\ cpc \in [Clients -> {"read", "lock", "ask", "store", "end"}]
        /\ fresh \in [Tasks -> Rankings]
        /\ NoRanking \notin Nat
    BY LeaderboardAssumption DEF LeaderboardTypeOK, Rankings
  <1> USE DEF OrderInv, InOrder, keys, requests, refreshes, Goto, MoveTask
  <1>1. ASSUME NEW c \in Clients,
               \/ ReadFresh(c) \/ ReadStale(c) \/ RefreshUnderWay(c) \/ NextRequest(c)
        PROVE  OrderInv' /\ InOrder
    BY <1>0, <1>1 DEF ReadFresh, ReadStale, RefreshUnderWay, NextRequest
  <1>2. ASSUME NEW c \in Clients, ReadNothing(c) PROVE OrderInv' /\ InOrder
    BY <1>2 DEF ReadNothing
  <1>3. ASSUME NEW c \in Clients, AcquireLock(c) PROVE OrderInv' /\ InOrder
    <2>1. PICK t \in Tasks : task[t] = "idle" /\ task' = [task EXCEPT ![t] = "ask"]
      BY <1>3 DEF AcquireLock
    <2>2. \A u \in Tasks : task'[u] = "store" => task[u] = "store"
      BY <1>0, <2>1
    <2>3. QED
      BY <1>0, <1>3, <2>2 DEF AcquireLock
  <1>4. ASSUME NEW c \in Clients, Ask(c) \/ AskFails(c) \/ Store(c)
        PROVE  OrderInv' /\ InOrder
    <2>1. cpc[c] \in {"ask", "store"} /\ UNCHANGED cold /\ (faults' = 0 => faults = 0)
      BY <1>0, <1>4 DEF Ask, AskFails, Store, Fault
    <2>2. QED
      BY <2>1
  <1>5. ASSUME NEW t \in Tasks, TaskAsk(t) PROVE OrderInv' /\ InOrder
    <2>1. \A u \in Tasks \ {t} : task'[u] = task[u] /\ fresh'[u] = fresh[u]
      BY <1>0, <1>5 DEF TaskAsk
    <2>2. fresh'[t] = ranking
      BY <1>0, <1>5 DEF TaskAsk
    <2>3. UNCHANGED <<data, ranking, cpc, faults, cold>>
      BY <1>5 DEF TaskAsk
    <2>4. QED
      BY <1>0, <2>1, <2>2, <2>3
  <1>6. ASSUME NEW t \in Tasks, TaskFails(t) PROVE OrderInv' /\ InOrder
    BY <1>0, <1>6 DEF TaskFails, Fault
  <1>7. ASSUME NEW t \in Tasks, TaskStore(t) PROVE OrderInv' /\ InOrder
    <2>1. UNCHANGED <<ranking, cpc, faults, cold>>
      BY <1>7 DEF TaskStore
    <2>2. data' \in {data, fresh[t]}
      BY <1>7 DEF TaskStore, Stored
    <2>3. faults = 0 => \A u \in Tasks : task'[u] = "idle"
      BY <1>0, <1>7 DEF TaskStore, RefreshInv, SingleRefresh
    <2>4. task[t] = "store"
      BY <1>7 DEF TaskStore
    <2>5. QED
      BY <1>0, <2>1, <2>2, <2>3, <2>4
  <1>8. CASE Change
    BY <1>0, <1>8 DEF Change
  <1>9. CASE ExpireCanary \/ UNCHANGED boardVars
    BY <1>0, <1>9 DEF ExpireCanary, boardVars
  <1>10. CASE ExpireLock \/ RedisDown
    BY <1>0, <1>10 DEF ExpireLock, RedisDown, Fault
  <1>11. CASE RedisUp
    BY <1>0, <1>11 DEF RedisUp, RefreshInv
  <1>12. ASSUME NEW c \in Clients, LockLost(c) PROVE OrderInv' /\ InOrder
    BY <1>0, <1>12 DEF LockLost, Fault
  <1>13. QED
    BY <1>1, <1>2, <1>3, <1>4, <1>5, <1>6, <1>7, <1>8, <1>9, <1>10, <1>11, <1>12
    DEF LeaderboardNext, Request, Refresh

\* Without faults a warm ranking never goes back.
THEOREM RankingInOrder == LeaderboardSpec => NoRollback
  <1>1. LeaderboardInit => RefreshInv /\ OrderInv
    BY DEF LeaderboardInit, RefreshInv, SingleRefresh, OrderInv
  <1>2. InOrder => [faults' = 0 /\ ~cold' /\ data # NoRanking => data' >= data]_boardVars
    BY DEF InOrder
  <1>3. QED
    BY <1>1, <1>2, RefreshStep, OrderStep, LeaderboardTypeCorrect, PTL
    DEF LeaderboardSpec, NoRollback
=============================================================================
