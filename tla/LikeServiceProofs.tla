------------------------- MODULE LikeServiceProofs -------------------------
(***************************************************************************)
(* What LikeService guarantees for every number of users, items, requests  *)
(* and faults, checked by TLAPS.                                           *)
(***************************************************************************)
EXTENDS LikeService, FiniteSetTheorems, TLAPS

\* The number of rows of an item is a natural number.
LEMMA RowsNat == \A i \in Items : Rows(i) \in Nat
  <1> SUFFICES ASSUME NEW i \in Items PROVE Rows(i) \in Nat
    OBVIOUS
  <1>1. IsFiniteSet({u \in Users : <<u, i>> \in likes})
    BY RequestsAssumption, FS_Subset
  <1> QED
    BY <1>1, FS_CardinalityType DEF Rows

\* What the operation of a request says about whose request it is.
LEMMA OpOfWriter ==
  ASSUME TypeOK, NEW r \in Requests
  PROVE  /\ r \in Writers <=> Op(r) \in {"like", "unlike"}
         /\ r \in Readers <=> Op(r) = "count"
         /\ ItemOf(r) \in Items
         /\ r \in Writers => RowOf(r) \in Users \X Items
  BY RequestsAssumption DEF TypeOK, Op, ItemOf, RowOf, Asks, Counts, Requests

USE DEF ports, local, ghosts, Goto

\* A step keeps the types.
LEMMA TypeStep == TypeOK /\ [Next]_vars => TypeOK'
  <1> SUFFICES ASSUME TypeOK, [Next]_vars PROVE TypeOK'
    OBVIOUS
  <1> USE DEF TypeOK
  <1>1. ASSUME NEW r \in Requests, Validate(r) PROVE TypeOK'
    BY <1>1, OpOfWriter DEF Validate, Labels, Filling, Ended
  <1>2. ASSUME NEW r \in Requests, Write(r) PROVE TypeOK'
    <2> USE DEF Labels, Filling, Ended
    <2>1. r \in Writers /\ RowOf(r) \in Users \X Items
      <3>1. pc[r] \in {"save", "remove"}
        BY <1>2 DEF Write, SaveNew, SaveExisting, RemoveLiked, RemoveAbsent
      <3>2. r \in Writers
        BY <3>1 DEF Requests
      <3> QED
        BY <3>2, OpOfWriter
    <2>2. CASE SaveNew(r)
      BY <2>1, <2>2 DEF SaveNew, SaveRow, Disturb
    <2>3. CASE SaveExisting(r)
      BY <2>1, <2>3 DEF SaveExisting, SaveRow
    <2>4. CASE RemoveLiked(r)
      BY <2>1, <2>4 DEF RemoveLiked, RemoveRow, Disturb
    <2>5. CASE RemoveAbsent(r)
      BY <2>5 DEF RemoveAbsent, RemoveRow
    <2> QED
      BY <1>2, <2>2, <2>3, <2>4, <2>5 DEF Write
  <1>3. ASSUME NEW r \in Requests, NEW n, Return(r, n)
        PROVE /\ pc' \in [Requests -> Labels]
              /\ \A s \in Readers : pc'[s] \in Filling \cup Ended
              /\ announced' \in SUBSET Writers
              /\ clean' \in SUBSET Items
    BY <1>3, OpOfWriter DEF Return, SkipsDecrement, AfterCount, Labels, Filling, Ended
  <1>4. ASSUME NEW r \in Requests, PeekHit(r) PROVE TypeOK'
    BY <1>4, <1>3 DEF PeekHit
  <1>5. ASSUME NEW r \in Requests, PeekMiss(r) \/ Lock(r) \/ RecheckMiss(r) PROVE TypeOK'
    <2> USE DEF Labels, Filling, Ended
    <2>1. CASE PeekMiss(r)
      BY <2>1 DEF PeekMiss
    <2>2. CASE Lock(r)
      BY <2>2 DEF Lock
    <2>3. CASE RecheckMiss(r)
      BY <2>3 DEF RecheckMiss
    <2> QED
      BY <1>5, <2>1, <2>2, <2>3
  <1>6. ASSUME NEW r \in Requests, Enter(r) PROVE TypeOK'
    BY <1>6, OpOfWriter DEF Enter, MutexOf, Fresh, Labels, Filling, Ended
  <1>7. ASSUME NEW r \in Requests, RecheckHit(r) PROVE TypeOK'
    BY <1>7, OpOfWriter, SentinelsAssumption DEF RecheckHit, Hit, Value, Labels, Filling, Ended
  <1>8. ASSUME NEW r \in Requests, Fetch(r) PROVE TypeOK'
    BY <1>8, OpOfWriter, RowsNat DEF Fetch, Labels, Filling, Ended
  <1>9. ASSUME NEW r \in Requests, Store(r) PROVE TypeOK'
    BY <1>9, OpOfWriter DEF Store, Stored, Labels, Filling, Ended
  <1>10. ASSUME NEW r \in Requests, Leave(r) PROVE TypeOK'
    BY <1>10, <1>3, OpOfWriter DEF Leave, Unregister
  <1>11. ASSUME NEW r \in Requests, ReadRow(r) \/ DbCount(r) PROVE TypeOK'
    BY <1>11, RequestsAssumption DEF ReadRow, DbCount, Announce, Labels, Filling, Ended, Requests
  <1>12. ASSUME NEW r \in Requests, NEW n, Reply(r, n), pc[r] \in {"incr", "decr"}
         PROVE /\ pc' \in [Requests -> Labels]
               /\ \A s \in Readers : pc'[s] \in Filling \cup Ended
               /\ announced' \in SUBSET Writers
               /\ faults' \in 0..MaxFaults
    BY <1>12, BoundsAssumption DEF Reply, Fault, Announce, Labels, Filling, Ended, Requests
  <1>13. ASSUME NEW r \in Requests, Incr(r) \/ Decr(r) PROVE TypeOK'
    BY <1>13, <1>12, OpOfWriter, SentinelsAssumption DEF Incr, Decr, Incremented, Decremented, Value
  <1>14. ASSUME NEW r \in Requests, CommandFails(r) PROVE TypeOK'
    BY <1>14 DEF CommandFails, Taint, Labels, Filling, Ended
  <1>15. ASSUME NEW r \in Requests, NextCount(r) PROVE TypeOK'
    BY <1>15 DEF NextCount, Labels, Filling, Ended
  <1>16. ASSUME NEW r \in Requests, Drop(r) PROVE TypeOK'
    BY <1>16, BoundsAssumption DEF Drop, Fault, Labels, Filling, Ended
  <1>17. ASSUME NEW i \in Items, Expire(i) PROVE TypeOK'
    BY <1>17 DEF Expire, Taint
  <1>18. ASSUME RedisDown \/ RedisUp PROVE TypeOK'
    BY <1>18, BoundsAssumption DEF RedisDown, RedisUp, Fault
  <1>19. ASSUME UNCHANGED vars PROVE TypeOK'
    BY <1>19 DEF vars
  <1> QED
    BY <1>1, <1>2, <1>4, <1>5, <1>6, <1>7, <1>8, <1>9, <1>10, <1>11, <1>13, <1>14,
       <1>15, <1>16, <1>17, <1>18, <1>19
    DEF Next, Step, Fill, Finish

\* The types hold initially.
LEMMA InitTypes == Init => TypeOK
  <1> SUFFICES ASSUME Init PROVE TypeOK
    OBVIOUS
  <1> USE RequestsAssumption, BoundsAssumption, SentinelsAssumption
  <1>1. count \in [Items -> Int \cup {NoKey}] /\ clean \in SUBSET Items
    BY RowsNat DEF Init
  <1>2. req \in [Requests -> Asks \cup Counts]
    BY DEF Init
  <1>3. \A r \in Requests : req[r] \in Asks <=> r \in Writers
    BY DEF Init, Asks, Counts, Requests
  <1>4. pc \in [Requests -> Labels] /\ \A r \in Readers : pc[r] \in Filling \cup Ended
    BY DEF Init, Labels, Filling, Ended, Requests
  <1>5. /\ flight \in [Items -> Mutexes \cup {NoMutex}]
        /\ mtx \in [Requests -> Mutexes \cup {NoMutex}]
        /\ fetched \in [Requests -> Nat]
    BY DEF Init
  <1>6. likes \in SUBSET (Users \X Items) /\ redis = "up"
    BY DEF Init
  <1>7. /\ changed = {} /\ announced = {} /\ quiet = {}
        /\ faults \in 0..MaxFaults /\ expired = FALSE
    BY DEF Init
  <1> QED
    BY <1>1, <1>2, <1>3, <1>4, <1>5, <1>6, <1>7 DEF TypeOK

\* Every value a variable takes is of its kind.
THEOREM TypeCorrect == Spec => []TypeOK
  <1>1. Init => TypeOK
    BY InitTypes
  <1>2. TypeOK /\ [Next]_vars => TypeOK'
    BY TypeStep
  <1> QED
    BY <1>1, <1>2, PTL DEF Spec

-----------------------------------------------------------------------------
(***************************************************************************)
(* Mutual exclusion: the mutex of a request is the one it waits for or     *)
(* holds, and no two requests hold one mutex, although the map may hand    *)
(* out another mutex for the same key by then.                             *)
(***************************************************************************)
MutexInv ==
    /\ \A r \in Requests : mtx[r] # NoMutex <=> pc[r] \in Critical \cup {"lock"}
    /\ OneHolder

\* A step moves one request, and into the critical section only by Lock.
LEMMA MutexStep ==
  ASSUME TypeOK, MutexInv, NEW r \in Requests,
         mtx' = mtx,
         NEW label \in Labels, pc' = [pc EXCEPT ![r] = label],
         label \in Critical <=> pc[r] \in Critical,
         label = "lock" <=> pc[r] = "lock"
  PROVE  MutexInv'
  BY DEF TypeOK, MutexInv, OneHolder

\* A step of a request that keeps outside the section, or leaves it.
LEMMA MutexExit ==
  ASSUME TypeOK, MutexInv, NEW r \in Requests,
         mtx' = [mtx EXCEPT ![r] = NoMutex],
         NEW label \in Labels, pc' = [pc EXCEPT ![r] = label],
         label \notin Critical \cup {"lock"}
  PROVE  MutexInv'
  BY DEF TypeOK, MutexInv, OneHolder

\* No request holds a mutex at first.
LEMMA InitMutex == Init => MutexInv
  BY DEF Init, MutexInv, OneHolder, Critical, Requests

\* A step keeps the holders apart.
LEMMA MutexKept == TypeOK /\ MutexInv /\ [Next]_vars => MutexInv'
  <1> SUFFICES ASSUME TypeOK, MutexInv, [Next]_vars PROVE MutexInv'
    OBVIOUS
  <1> USE DEF Critical, Labels, Filling, Ended
  <1>1. ASSUME NEW r \in Requests, Enter(r) PROVE MutexInv'
    <2>1. PICK m \in Mutexes : mtx' = [mtx EXCEPT ![r] = m]
      BY <1>1, OpOfWriter DEF Enter, MutexOf, Fresh, TypeOK
    <2> QED
      BY <1>1, <2>1, SentinelsAssumption DEF Enter, TypeOK, MutexInv, OneHolder
  <1>2. ASSUME NEW r \in Requests, Lock(r) PROVE MutexInv'
    BY <1>2 DEF Lock, Held, TypeOK, MutexInv, OneHolder
  <1>3. ASSUME NEW r \in Requests, Validate(r) \/ Write(r) PROVE MutexInv'
    <2>1. PICK label \in {"save", "remove", "failed", "incr", "peek"} :
            /\ pc' = [pc EXCEPT ![r] = label] /\ mtx' = mtx
            /\ pc[r] \in {"validate", "save", "remove"}
      BY <1>3 DEF Validate, Write, SaveNew, SaveExisting, RemoveLiked, RemoveAbsent
    <2> QED
      BY <2>1, MutexStep
  <1>4. ASSUME NEW r \in Requests, NEW n, Return(r, n)
        PROVE  \E label \in {"row", "decr", "ok"} : pc' = [pc EXCEPT ![r] = label]
    BY <1>4 DEF Return, AfterCount
  <1>5. ASSUME NEW r \in Requests, PeekHit(r) PROVE MutexInv'
    <2>1. PICK label \in {"row", "decr", "ok"} : pc' = [pc EXCEPT ![r] = label]
      BY <1>4, <1>5 DEF PeekHit
    <2> QED
      BY <1>5, <2>1, MutexStep DEF PeekHit
  <1>6. ASSUME NEW r \in Requests, PeekMiss(r) PROVE MutexInv'
    BY <1>6, MutexStep DEF PeekMiss
  <1>7. ASSUME NEW r \in Requests,
               RecheckHit(r) \/ RecheckMiss(r) \/ Fetch(r) \/ Store(r)
        PROVE  MutexInv'
    <2>1. PICK label \in Critical :
            /\ pc' = [pc EXCEPT ![r] = label] /\ mtx' = mtx
            /\ pc[r] \in Critical
      BY <1>7 DEF RecheckHit, RecheckMiss, Fetch, Store
    <2> QED
      BY <2>1, MutexStep
  <1>8. ASSUME NEW r \in Requests, Leave(r) PROVE MutexInv'
    <2>1. PICK label \in {"row", "decr", "ok"} : pc' = [pc EXCEPT ![r] = label]
      BY <1>4, <1>8 DEF Leave
    <2> QED
      BY <1>8, <2>1, MutexExit DEF Leave
  <1>9. ASSUME NEW r \in Requests, Finish(r) \/ NextCount(r) PROVE MutexInv'
    <2>1. PICK label \in {"ok", "failed", "dbcount", "peek"} :
            /\ pc' = [pc EXCEPT ![r] = label] /\ mtx' = mtx
            /\ pc[r] \in {"row", "incr", "decr", "dbcount", "ok", "failed"}
      BY <1>9 DEF Finish, ReadRow, Incr, Decr, Reply, CommandFails, DbCount, NextCount
    <2> QED
      BY <2>1, MutexStep
  <1>10. ASSUME NEW r \in Requests, Drop(r) PROVE MutexInv'
    BY <1>10, MutexExit DEF Drop
  <1>11. ASSUME UNCHANGED <<pc, mtx>> PROVE MutexInv'
    BY <1>11 DEF MutexInv, OneHolder
  <1>12. ASSUME (\E i \in Items : Expire(i)) \/ RedisDown \/ RedisUp \/ UNCHANGED vars
         PROVE  MutexInv'
    BY <1>11, <1>12 DEF Expire, RedisDown, RedisUp, vars
  <1> QED
    BY <1>1, <1>2, <1>3, <1>5, <1>6, <1>7, <1>8, <1>9, <1>10, <1>12
    DEF Next, Step, Fill

\* At most one request holds a mutex of flight_locks.
THEOREM MutualExclusion == Spec => []MutexInv
  <1>1. Init => MutexInv
    BY InitMutex
  <1>2. TypeOK /\ MutexInv /\ [Next]_vars => MutexInv'
    BY MutexKept
  <1> QED
    BY <1>1, <1>2, TypeCorrect, PTL DEF Spec

-----------------------------------------------------------------------------
(***************************************************************************)
(* Single flight.  As long as nothing has failed or expired and users only *)
(* like, a counter that can be read stays so.  An entry leaves the map     *)
(* only when the counter can be read, so as long as it cannot, all the     *)
(* requests of an item that have a mutex have the one in the map; whoever  *)
(* still has another one finds the counter when it looks again.            *)
(***************************************************************************)
Orphaned(r) == mtx[r] # NoMutex /\ flight[ItemOf(r)] # mtx[r]

\* In that case every counter that is there can be read.
ReadableInv ==
    /\ redis = "up"
    /\ \A r \in Requests : pc[r] # "decr"
    /\ \A i \in Items : Value(i) >= 0

FlightInv ==
    /\ ReadableInv
    /\ \A r \in Requests : pc[r] = "leave" => Hit(ItemOf(r))
    /\ \A r \in Requests : Orphaned(r) => Hit(ItemOf(r))
    /\ \A i \in Items : \A r, s \in Fetching(i) : r = s

\* Whatever has failed or expired before a step has done so after it.
LEMMA CalmBefore ==
  ASSUME TypeOK, [Next]_vars
  PROVE  /\ faults' = 0 => faults = 0
         /\ Calm' => Calm
  <1> SUFFICES /\ faults' \in {faults, faults + 1}
               /\ expired => expired'
    BY BoundsAssumption DEF TypeOK, Calm
  <1>1. ASSUME NEW r \in Requests, Step(r)
        PROVE  faults' \in {faults, faults + 1} /\ expired' = expired
    BY <1>1 DEF Step, Validate, Write, SaveNew, SaveExisting, RemoveLiked, RemoveAbsent,
       Fill, PeekHit, PeekMiss, Enter, Lock, RecheckHit, RecheckMiss, Fetch, Store, Leave,
       Finish, ReadRow, Incr, Decr, Reply, Fault, CommandFails, DbCount, NextCount
  <1>2. ASSUME (\E r \in Requests : Drop(r)) \/ RedisDown \/ RedisUp \/ UNCHANGED vars
        PROVE  faults' \in {faults, faults + 1} /\ expired' = expired
    BY <1>2 DEF Drop, Fault, RedisDown, RedisUp, vars
  <1>3. ASSUME NEW i \in Items, Expire(i)
        PROVE  faults' \in {faults, faults + 1} /\ expired'
    BY <1>3 DEF Expire
  <1> QED
    BY <1>1, <1>2, <1>3 DEF Next

\* Nobody's request changes.
LEMMA OnlyLikesBefore ==
  ASSUME [Next]_vars, OnlyLikes'
  PROVE  OnlyLikes
  BY DEF OnlyLikes, Op, Next, Step, Validate, Write, SaveNew, SaveExisting, RemoveLiked,
     RemoveAbsent, Fill, PeekHit, PeekMiss, Enter, Lock, RecheckHit, RecheckMiss, Fetch,
     Store, Leave, Finish, ReadRow, Incr, Decr, CommandFails, DbCount, NextCount, Drop,
     Expire, RedisDown, RedisUp, vars

\* The shape of the steps that can happen at all in that case.
LEMMA CalmStep ==
  ASSUME TypeOK, Calm, Calm', OnlyLikes, ReadableInv, [Next]_vars
  PROVE  /\ UNCHANGED <<redis, req>>
         /\ \/ UNCHANGED count
            \/ \E r \in Requests : Store(r) \/ Incr(r)
  <1> USE DEF TypeOK, Calm, ReadableInv
  <1>1. ASSUME NEW r \in Requests, Drop(r) PROVE FALSE
    BY <1>1, BoundsAssumption DEF Drop, Fault
  <1>2. ASSUME NEW i \in Items, Expire(i) PROVE FALSE
    BY <1>2 DEF Expire
  <1>3. ASSUME RedisDown \/ RedisUp PROVE FALSE
    BY <1>3, BoundsAssumption DEF RedisDown, RedisUp, Fault
  <1>4. ASSUME NEW r \in Requests, Step(r)
        PROVE  /\ UNCHANGED <<redis, req>>
               /\ UNCHANGED count \/ Store(r) \/ Incr(r)
    BY <1>4 DEF Step, Validate, Write, SaveNew, SaveExisting, RemoveLiked, RemoveAbsent,
       Fill, PeekHit, PeekMiss, Enter, Lock, RecheckHit, RecheckMiss, Fetch, Store, Leave,
       Finish, ReadRow, Incr, Decr, CommandFails, DbCount, NextCount
  <1> QED
    BY <1>1, <1>2, <1>3, <1>4 DEF Next, vars

\* Counters stay readable, and no request is about to decrement.
LEMMA CalmCounters ==
  ASSUME TypeOK, TypeOK', Calm, Calm', OnlyLikes, ReadableInv, [Next]_vars
  PROVE  /\ \A i \in Items : Value(i)' >= 0 /\ (Hit(i) => Hit(i)')
         /\ \A r \in Requests : ItemOf(r)' = ItemOf(r)
         /\ \A r \in Requests : Store(r) => Hit(ItemOf(r))'
  <1>1. \A r \in Requests : ItemOf(r)' = ItemOf(r)
    BY CalmStep DEF ItemOf
  <1>2. ASSUME UNCHANGED count
        PROVE  \A i \in Items : Value(i)' >= 0 /\ (Hit(i) => Hit(i)')
    BY <1>2, CalmStep DEF ReadableInv, Hit, Value
  <1>3. ASSUME NEW r \in Requests, Store(r) \/ Incr(r)
        PROVE  /\ \A i \in Items : Value(i)' >= 0 /\ (Hit(i) => Hit(i)')
               /\ Store(r) => Hit(ItemOf(r))'
    BY <1>3, CalmStep, OpOfWriter, SentinelsAssumption
    DEF ReadableInv, Hit, Value, Store, Stored, Incr, Incremented, TypeOK, ItemOf
  <1> QED
    BY <1>1, <1>2, <1>3, CalmStep

\* Where the steps of a request lead in that case.
LEMMA CalmMoves ==
  ASSUME TypeOK, Calm, Calm', OnlyLikes, ReadableInv, [Next]_vars,
         NEW r \in Requests, pc'[r] # pc[r]
  PROVE  /\ pc'[r] # "decr"
         /\ pc'[r] = "leave" => Store(r) \/ RecheckHit(r)
         /\ pc'[r] = "fetch" => RecheckMiss(r)
         /\ pc'[r] = "store" => pc[r] = "fetch"
  <1> USE DEF TypeOK
  <1>1. PICK s \in Requests : Step(s)
    BY BoundsAssumption
    DEF Next, vars, Calm, ReadableInv, Drop, Fault, Expire, RedisDown, RedisUp
  <1>2. \A x \in Requests : Op(x) # "unlike"
    BY OpOfWriter DEF OnlyLikes, Requests
  <1>3. ASSUME NEW n, Return(s, n)
        PROVE  \E label \in {"row", "ok"} : pc' = [pc EXCEPT ![s] = label]
    BY <1>2, <1>3 DEF Return, AfterCount
  <1>4. CASE Validate(s) \/ Write(s)
    BY <1>2, <1>4 DEF Validate, Write, SaveNew, SaveExisting, RemoveLiked, RemoveAbsent
  <1>5. CASE PeekHit(s) \/ Leave(s)
    BY <1>3, <1>5 DEF PeekHit, Leave
  <1>6. CASE PeekMiss(s) \/ Enter(s) \/ Lock(s) \/ RecheckHit(s)
    BY <1>6 DEF PeekMiss, Enter, Lock, RecheckHit
  <1>7. CASE RecheckMiss(s) \/ Fetch(s) \/ Store(s)
    BY <1>7 DEF RecheckMiss, Fetch, Store
  <1>8. CASE Finish(s) \/ NextCount(s)
    BY <1>8 DEF Finish, ReadRow, Incr, Decr, Reply, CommandFails, DbCount, NextCount
  <1> QED
    BY <1>1, <1>4, <1>5, <1>6, <1>7, <1>8 DEF Step, Fill

\* No request is about to decrement a counter, and every counter stays readable.
LEMMA ReadableStep ==
  ASSUME TypeOK, TypeOK', Calm, Calm', OnlyLikes, ReadableInv, [Next]_vars
  PROVE  ReadableInv'
  BY CalmStep, CalmCounters, CalmMoves DEF ReadableInv

\* Every step of the calm case keeps FlightInv: the core of the argument.
LEMMA FlightStep ==
  ASSUME TypeOK, TypeOK', MutexInv, Calm, Calm', OnlyLikes, FlightInv, [Next]_vars
  PROVE  FlightInv'
  <1> USE DEF TypeOK
  <1>1. ReadableInv /\ ReadableInv'
    BY ReadableStep DEF FlightInv
  <1>2. ASSUME NEW r \in Requests, pc'[r] = "leave" PROVE Hit(ItemOf(r))'
    <2>1. CASE pc[r] = "leave" \/ RecheckHit(r)
      BY <2>1, <1>1, CalmCounters, OpOfWriter DEF FlightInv, RecheckHit
    <2>2. CASE Store(r)
      BY <2>2, <1>1, CalmCounters
    <2> QED
      BY <1>1, <1>2, CalmMoves, <2>1, <2>2
  <1>3. ASSUME NEW r \in Requests, Orphaned(r)' PROVE Hit(ItemOf(r))'
    <2>1. CASE Orphaned(r)
      BY <2>1, <1>1, CalmCounters, OpOfWriter DEF FlightInv
    <2>2. CASE ~Orphaned(r)
      <3>1. ItemOf(r)' = ItemOf(r) /\ ItemOf(r) \in Items
        BY <1>1, CalmCounters, OpOfWriter
      <3>2. UNCHANGED <<flight, mtx>> \/ \E s \in Requests : Enter(s) \/ Leave(s) \/ Drop(s)
        BY DEF Next, Step, Validate, Write, SaveNew, SaveExisting, RemoveLiked, RemoveAbsent,
           Fill, PeekHit, PeekMiss, Lock, RecheckHit, RecheckMiss, Fetch, Store,
           Finish, ReadRow, Incr, Decr, CommandFails, DbCount, NextCount,
           Expire, RedisDown, RedisUp, vars
      <3>3. ASSUME NEW s \in Requests, Drop(s) PROVE FALSE
        BY <3>3, BoundsAssumption DEF Drop, Fault, Calm
      <3>4. ASSUME NEW s \in Requests, Enter(s) PROVE FALSE
        BY <1>3, <2>2, <3>1, <3>4, OpOfWriter DEF Enter, MutexOf, Orphaned
      <3>5. ASSUME NEW s \in Requests, Leave(s) PROVE Hit(ItemOf(r))'
        <4>1. ItemOf(s) = ItemOf(r)
          BY <1>3, <2>2, <3>1, <3>5, OpOfWriter DEF Leave, Unregister, Orphaned
        <4> QED
          BY <3>5, <4>1, <3>1, <1>1, CalmCounters DEF Leave, FlightInv
      <3> QED
        BY <1>3, <2>2, <3>1, <3>2, <3>3, <3>4, <3>5 DEF Orphaned
    <2> QED
      BY <2>1, <2>2
  <1>4. ASSUME NEW i \in Items, NEW r \in Fetching(i)', NEW s \in Fetching(i)'
        PROVE  r = s
    <2>1. \A x \in Fetching(i)' : x \in Fetching(i) \/ (RecheckMiss(x) /\ ItemOf(x) = i)
      BY <1>1, CalmMoves, CalmCounters DEF Fetching
    <2>2. ASSUME NEW x \in Requests, NEW y \in Requests, RecheckMiss(x),
                 ItemOf(x) = i, ItemOf(y) = i,
                 y \in Fetching(i) \/ RecheckMiss(y)
          PROVE  x = y
      <3>1. pc[x] \in Critical /\ pc[y] \in Critical
        BY <2>2 DEF RecheckMiss, Fetching, Critical
      <3>2. mtx[x] = flight[i] /\ mtx[y] = flight[i]
        BY <2>2, <3>1 DEF FlightInv, Orphaned, MutexInv, RecheckMiss
      <3> QED
        BY <3>1, <3>2 DEF MutexInv, OneHolder
    <2> QED
      BY <1>4, <2>1, <2>2 DEF FlightInv, Fetching
  <1> QED
    BY <1>1, <1>2, <1>3, <1>4 DEF FlightInv

\* The stampede on a cold key reaches the database once.
THEOREM StampedeReachesDatabaseOnce == Spec => []SingleFlight
  <1>1. Init => FlightInv
    BY RowsNat, SentinelsAssumption DEF Init, FlightInv, ReadableInv, Orphaned, Fetching, Value, Requests
  <1>2. TypeOK /\ TypeOK' /\ MutexInv /\ (Calm /\ OnlyLikes => FlightInv) /\ [Next]_vars
        => (Calm /\ OnlyLikes => FlightInv)'
    BY OnlyLikesBefore, CalmBefore, FlightStep
  <1>3. (Calm /\ OnlyLikes => FlightInv) => SingleFlight
    BY DEF FlightInv, SingleFlight
  <1> QED
    BY <1>1, <1>2, <1>3, TypeCorrect, MutualExclusion, PTL DEF Spec

-----------------------------------------------------------------------------
\* Requests keep asking for what they asked for.
LEMMA ReqStays ==
  ASSUME [Next]_vars
  PROVE  req' = req
  BY DEF Next, Step, Validate, Write, SaveNew, SaveExisting, RemoveLiked, RemoveAbsent,
     Fill, PeekHit, PeekMiss, Enter, Lock, RecheckHit, RecheckMiss, Fetch, Store, Leave,
     Finish, ReadRow, Incr, Decr, CommandFails, DbCount, NextCount, Drop, Expire,
     RedisDown, RedisUp, vars

\* Until something fails the lock map holds no entry that nobody uses.
THEOREM NoEntryLeaks == Spec => []EntryInUse
  <1>1. Init => EntryInUse
    BY DEF Init, EntryInUse
  <1>2. TypeOK /\ MutexInv /\ EntryInUse /\ [Next]_vars => EntryInUse'
    <2> SUFFICES ASSUME TypeOK, MutexInv, EntryInUse, [Next]_vars, faults' = 0,
                        NEW i \in Items, flight'[i] # NoMutex
                 PROVE  \E r \in Requests : mtx'[r] = flight'[i] /\ ItemOf(r)' = i
      BY DEF EntryInUse
    <2>0. faults = 0
      BY CalmBefore
    <2>1. \A r \in Requests : ItemOf(r)' = ItemOf(r)
      BY ReqStays DEF ItemOf
    <2>2. \/ UNCHANGED <<flight, mtx>>
          \/ \E r \in Requests : Enter(r) \/ Leave(r) \/ Drop(r)
      BY DEF Next, Step, Validate, Write, SaveNew, SaveExisting, RemoveLiked, RemoveAbsent,
         Fill, PeekHit, PeekMiss, Lock, RecheckHit, RecheckMiss, Fetch, Store,
         Finish, ReadRow, Incr, Decr, CommandFails, DbCount, NextCount,
         Expire, RedisDown, RedisUp, vars
    <2>3. CASE UNCHANGED <<flight, mtx>>
      BY <2>0, <2>1, <2>3 DEF EntryInUse
    <2>4. ASSUME NEW r \in Requests, Drop(r) PROVE FALSE
      BY <2>0, <2>4 DEF Drop, Fault
    <2>5. ASSUME NEW r \in Requests, Enter(r)
          PROVE  \E x \in Requests : mtx'[x] = flight'[i] /\ ItemOf(x)' = i
      <3>1. mtx[r] = NoMutex
        BY <2>5 DEF Enter, MutexInv, Critical
      <3>2. CASE ItemOf(r) = i
        BY <2>1, <2>5, <3>2 DEF Enter, TypeOK
      <3>3. CASE ItemOf(r) # i
        <4>1. flight'[i] = flight[i]
          BY <2>5, <3>3, OpOfWriter DEF Enter, TypeOK
        <4>2. PICK x \in Requests : mtx[x] = flight[i] /\ ItemOf(x) = i
          BY <2>0, <4>1 DEF EntryInUse
        <4> QED
          BY <2>1, <2>5, <3>1, <4>1, <4>2 DEF Enter, TypeOK
      <3> QED
        BY <3>2, <3>3
    <2>6. ASSUME NEW r \in Requests, Leave(r)
          PROVE  \E x \in Requests : mtx'[x] = flight'[i] /\ ItemOf(x)' = i
      <3>1. ItemOf(r) # i /\ flight'[i] = flight[i]
        BY <2>6, OpOfWriter DEF Leave, Unregister, TypeOK
      <3>2. PICK x \in Requests : mtx[x] = flight[i] /\ ItemOf(x) = i
        BY <2>0, <3>1 DEF EntryInUse
      <3> QED
        BY <2>1, <2>6, <3>1, <3>2 DEF Leave, TypeOK
    <2> QED
      BY <2>2, <2>3, <2>4, <2>5, <2>6
  <1> QED
    BY <1>1, <1>2, TypeCorrect, MutualExclusion, PTL DEF Spec

-----------------------------------------------------------------------------
(***************************************************************************)
(* Refinement: every step of LikeService is a step of LikeLedger or leaves *)
(* the table, the answers and the phases of the write requests alone.      *)
(***************************************************************************)
OpInv ==
    /\ \A r \in Requests : pc[r] = "save" => Op(r) = "like"
    /\ \A r \in Requests : pc[r] = "remove" => Op(r) = "unlike"

\* A step leaves requests at awaits of their handler.
LEMMA OpStep == TypeOK /\ OpInv /\ [Next]_vars => OpInv'
  <1> SUFFICES ASSUME TypeOK, OpInv, [Next]_vars PROVE OpInv'
    OBVIOUS
  <1>1. ASSUME NEW r \in Requests, pc'[r] \in {"save", "remove"}, pc'[r] # pc[r]
        PROVE  Validate(r)
    BY <1>1 DEF Next, Step, Validate, Write, SaveNew, SaveExisting, RemoveLiked,
       RemoveAbsent, Fill, PeekHit, PeekMiss, Enter, Lock, RecheckHit, RecheckMiss,
       Fetch, Store, Leave, Return, AfterCount, Finish, ReadRow, Incr, Decr, Reply,
       CommandFails, DbCount, NextCount, Drop, Expire, RedisDown, RedisUp, vars, TypeOK
  <1>2. ASSUME NEW r \in Requests, Validate(r)
        PROVE  /\ pc'[r] = "save" => Op(r) = "like"
               /\ pc'[r] = "remove" => Op(r) = "unlike"
    <2>1. Op(r) \in {"like", "unlike"}
      BY <1>2, OpOfWriter DEF Validate, TypeOK, Requests, Filling, Ended
    <2> QED
      BY <1>2, <2>1 DEF Validate, TypeOK
  <1>3. \A r \in Requests : Op(r)' = Op(r)
    BY ReqStays DEF Op
  <1> QED
    BY <1>1, <1>2, <1>3 DEF OpInv

\* No request starts at an await of another handler.
LEMMA InitOps == Init => OpInv
  BY DEF Init, OpInv, Requests

\* A request saves only if it is a like and removes only if it is an unlike.
THEOREM OpCorrect == Spec => []OpInv
  <1>1. Init => OpInv
    BY InitOps
  <1>2. TypeOK /\ OpInv /\ [Next]_vars => OpInv'
    BY OpStep
  <1> QED
    BY <1>1, <1>2, TypeCorrect, PTL DEF Spec

phaseMap == [w \in Writers |-> PhaseAt(pc[w])]

\* A request that goes to a label takes its phase there.
LEMMA PhaseMoves ==
  ASSUME TypeOK, NEW r \in Writers, NEW label, pc' = [pc EXCEPT ![r] = label]
  PROVE  phaseMap' = [phaseMap EXCEPT ![r] = PhaseAt(label)]
  BY RequestsAssumption DEF phaseMap, TypeOK, Requests

\* The request of a reader is nothing to the ledger.
LEMMA PhaseOfReader ==
  ASSUME TypeOK, NEW r \in Readers, NEW label, pc' = [pc EXCEPT ![r] = label]
  PROVE  phaseMap' = phaseMap
  BY RequestsAssumption DEF phaseMap, TypeOK, Requests

\* The phase of each label, spelled out once.
LEMMA PhaseNames ==
  /\ PhaseAt("validate") = "waiting" /\ PhaseAt("save") = "waiting"
  /\ PhaseAt("remove") = "waiting"
  /\ PhaseAt("ok") = "answered" /\ PhaseAt("failed") = "failed"
  /\ \A label \in Labels : label \notin {"validate", "save", "remove", "ok", "failed"}
       => PhaseAt(label) = "applied"
  BY DEF PhaseAt, Labels, Filling, Ended

\* The labels between the change of the table and the answer.
Between == Filling \cup {"incr", "row", "decr", "dbcount"}

LedgerStep == [Ledger!Next]_(Ledger!ledgerVars)

\* A step that changes no row, answer or phase is no step of the ledger.
LEMMA LedgerStutters ==
  ASSUME UNCHANGED <<likes, req, changed>>, phaseMap' = phaseMap
  PROVE  LedgerStep
  BY DEF LedgerStep, Ledger!ledgerVars, phaseMap

\* Steps of one request that leave table and answers alone.
LEMMA LedgerMoves ==
  ASSUME TypeOK, NEW r \in Requests, NEW label \in Labels,
         UNCHANGED <<likes, req, changed>>, pc' = [pc EXCEPT ![r] = label],
         \/ pc[r] \in Between /\ label \in Between \cup Ended
         \/ pc[r] = "validate" /\ label \in {"save", "remove", "failed"}
         \/ pc[r] \in {"save", "remove"} /\ label = "failed"
         \/ r \in Readers
  PROVE  LedgerStep
  <1> USE DEF Labels, Filling, Ended, Between
  <1>1. CASE r \in Readers
    BY <1>1, PhaseOfReader, LedgerStutters
  <1>2. CASE r \in Writers
    <2>1. /\ phaseMap[r] = PhaseAt(pc[r])
          /\ phaseMap' = [phaseMap EXCEPT ![r] = PhaseAt(label)]
      BY <1>2, PhaseMoves DEF phaseMap
    <2>2. CASE PhaseAt(label) = PhaseAt(pc[r])
      <3>1. phaseMap' = phaseMap
        BY <2>1, <2>2 DEF phaseMap
      <3> QED
        BY <3>1, LedgerStutters
    <2>3. CASE label = "failed"
      <3>1. phaseMap[r] \in {"waiting", "applied"}
        BY <2>1, <2>3, <1>2, RequestsAssumption, PhaseNames DEF TypeOK
      <3>2. Ledger!GiveUp(r)
        BY <2>1, <2>3, <3>1, PhaseNames DEF Ledger!GiveUp, phaseMap
      <3> QED
        BY <1>2, <3>2 DEF LedgerStep, Ledger!Next, Ledger!Serve
    <2>4. CASE label = "ok"
      <3>1. phaseMap[r] = "applied"
        BY <2>1, <2>4, <1>2, RequestsAssumption, PhaseNames DEF TypeOK
      <3>2. Ledger!Answer(r)
        BY <2>1, <2>4, <3>1, PhaseNames DEF Ledger!Answer, phaseMap
      <3> QED
        BY <1>2, <3>2 DEF LedgerStep, Ledger!Next, Ledger!Serve
    <2> QED
      BY <2>2, <2>3, <2>4, <1>2, RequestsAssumption, PhaseNames DEF TypeOK
  <1> QED
    BY <1>1, <1>2 DEF Requests

\* A change of the table is the ledger's insert or delete.
LEMMA LedgerWrites ==
  ASSUME TypeOK, OpInv, NEW r \in Requests, Write(r)
  PROVE  LedgerStep
  <1> USE DEF Labels, Filling, Ended
  <1>1. r \in Writers /\ pc[r] \in {"save", "remove"}
    BY DEF Write, SaveNew, SaveExisting, RemoveLiked, RemoveAbsent, TypeOK, Requests
  <1>2. /\ phaseMap[r] = "waiting"
        /\ \A label \in {"incr", "peek"} : pc' = [pc EXCEPT ![r] = label]
             => phaseMap' = [phaseMap EXCEPT ![r] = "applied"]
    BY <1>1, PhaseMoves, PhaseNames DEF phaseMap
  <1>3. Ledger!Row(r) = RowOf(r)
    BY <1>1 DEF Ledger!Row, RowOf
  <1>4. CASE SaveNew(r) \/ SaveExisting(r)
    <2>1. Op(r) = "like" /\ req' = req
      BY <1>4 DEF SaveNew, SaveExisting, OpInv
    <2>2. likes' = likes \cup {RowOf(r)}
      BY <1>4 DEF SaveNew, SaveExisting, SaveRow
    <2>3. changed' = changed \cup {x \in {r} : Ledger!Row(x) \notin likes}
      BY <1>3, <1>4 DEF SaveNew, SaveExisting, AlreadyExists
    <2>4. phaseMap' = [phaseMap EXCEPT ![r] = "applied"]
      BY <1>2, <1>4 DEF SaveNew, SaveExisting
    <2>5. Ledger!Insert(r)
      BY <1>1, <1>2, <1>3, <2>1, <2>2, <2>3, <2>4 DEF Ledger!Insert, phaseMap, Op
    <2> QED
      BY <1>1, <2>5 DEF LedgerStep, Ledger!Next, Ledger!Serve
  <1>5. CASE RemoveLiked(r) \/ RemoveAbsent(r)
    <2>1. Op(r) = "unlike" /\ req' = req
      BY <1>5 DEF RemoveLiked, RemoveAbsent, OpInv
    <2>2. likes' = likes \ {RowOf(r)}
      BY <1>5 DEF RemoveLiked, RemoveAbsent, RemoveRow
    <2>3. changed' = changed \cup {x \in {r} : Ledger!Row(x) \in likes}
      BY <1>3, <1>5 DEF RemoveLiked, RemoveAbsent, WasLiked
    <2>4. phaseMap' = [phaseMap EXCEPT ![r] = "applied"]
      BY <1>2, <1>5 DEF RemoveLiked, RemoveAbsent
    <2>5. Ledger!Delete(r)
      BY <1>1, <1>2, <1>3, <2>1, <2>2, <2>3, <2>4 DEF Ledger!Delete, phaseMap, Op
    <2> QED
      BY <1>1, <2>5 DEF LedgerStep, Ledger!Next, Ledger!Serve
  <1> QED
    BY <1>4, <1>5 DEF Write

\* A step of a request is a step of the ledger, or none.
LEMMA LedgerSteps == TypeOK /\ OpInv /\ [Next]_vars => LedgerStep
  <1> SUFFICES ASSUME TypeOK, OpInv, [Next]_vars PROVE LedgerStep
    OBVIOUS
  <1> USE DEF Labels, Filling, Ended, Between
  <1>1. ASSUME NEW r \in Requests, Validate(r) PROVE LedgerStep
    BY <1>1, LedgerMoves DEF Validate
  <1>2. ASSUME NEW r \in Requests, NEW n, Return(r, n)
        PROVE  \E label \in {"row", "decr", "ok"} : pc' = [pc EXCEPT ![r] = label]
    BY <1>2 DEF Return, AfterCount
  <1>3. ASSUME NEW r \in Requests, Fill(r) PROVE LedgerStep
    <2>1. PICK label \in Between \cup Ended : pc' = [pc EXCEPT ![r] = label]
      BY <1>2, <1>3 DEF Fill, PeekHit, PeekMiss, Enter, Lock, RecheckHit, RecheckMiss,
         Fetch, Store, Leave
    <2>2. pc[r] \in Between /\ UNCHANGED <<likes, req, changed>>
      BY <1>3 DEF Fill, PeekHit, PeekMiss, Enter, Lock, RecheckHit, RecheckMiss,
         Fetch, Store, Leave
    <2> QED
      BY <2>1, <2>2, LedgerMoves
  <1>4. ASSUME NEW r \in Requests, Finish(r) PROVE LedgerStep
    <2>1. PICK label \in Between \cup Ended : pc' = [pc EXCEPT ![r] = label]
      BY <1>4 DEF Finish, ReadRow, Incr, Decr, Reply, CommandFails, DbCount
    <2>2. pc[r] \in Between /\ UNCHANGED <<likes, req, changed>>
      BY <1>4 DEF Finish, ReadRow, Incr, Decr, CommandFails, DbCount
    <2> QED
      BY <2>1, <2>2, LedgerMoves
  <1>5. ASSUME NEW r \in Requests, NextCount(r) PROVE LedgerStep
    BY <1>5, LedgerMoves DEF NextCount
  <1>6. ASSUME NEW r \in Requests, Drop(r) PROVE LedgerStep
    <2>1. pc[r] \in Between \/ pc[r] \in {"validate", "save", "remove"}
      BY <1>6 DEF Drop, TypeOK
    <2> QED
      BY <1>6, <2>1, LedgerMoves DEF Drop
  <1>7. ASSUME (\E i \in Items : Expire(i)) \/ RedisDown \/ RedisUp \/ UNCHANGED vars
        PROVE  LedgerStep
    <2>1. UNCHANGED <<likes, req, changed, pc>>
      BY <1>7 DEF Expire, RedisDown, RedisUp, vars
    <2> QED
      BY <2>1, LedgerStutters DEF phaseMap
  <1> QED
    BY <1>1, <1>3, <1>4, <1>5, <1>6, <1>7, LedgerWrites DEF Next, Step

\* The initial states are those of the ledger.
LEMMA InitLedger == Init => Ledger!Init
  BY RequestsAssumption, PhaseNames
  DEF Init, Ledger!Init, Ledger!Writes, Asks, Requests

\* The likes table behaves as LikeLedger says.
THEOREM ImplementsLedger == Spec => LedgerSafe
  <1>1. Init => Ledger!Init
    BY InitLedger
  <1>2. TypeOK /\ OpInv /\ [Next]_vars => LedgerStep
    BY LedgerSteps
  <1> QED
    BY <1>1, <1>2, TypeCorrect, OpCorrect, PTL
    DEF Spec, LedgerSafe, LedgerStep, Ledger!Spec

-----------------------------------------------------------------------------
(***************************************************************************)
(* The clean counter.  The strengthening says when a request owes a counter *)
(* command, and what a fetch that no write overlaps is worth.              *)
(***************************************************************************)
OwesInv ==
    /\ \A r \in changed : pc[r] \notin {"validate", "save", "remove"}
    /\ \A r \in Requests : pc[r] = "incr" => r \in changed /\ Op(r) = "like"
    /\ \A r \in Requests : pc[r] = "decr" => r \in changed /\ Op(r) = "unlike"

QuietInv ==
    \A r \in quiet : /\ pc[r] = "store"
                     /\ fetched[r] = Rows(ItemOf(r))
                     /\ Due(ItemOf(r)) = {}

CounterInv == OwesInv /\ QuietInv /\ CleanCounterExact

Owing == Filling \cup {"decr"}

\* What is due on an item can be counted.
LEMMA DueFinite ==
  ASSUME TypeOK, NEW i
  PROVE  /\ IsFiniteSet(DueIncr(i)) /\ Cardinality(DueIncr(i)) \in Nat
         /\ IsFiniteSet(DueDecr(i)) /\ Cardinality(DueDecr(i)) \in Nat
  <1>1. DueIncr(i) \in SUBSET Writers /\ DueDecr(i) \in SUBSET Writers
    BY DEF DueIncr, DueDecr, TypeOK
  <1> QED
    BY <1>1, RequestsAssumption, FS_Subset, FS_CardinalityType

\* A step of one request changes what is due on its own item only.
LEMMA DueElsewhere ==
  ASSUME TypeOK, NEW r \in Requests, NEW label, pc' = [pc EXCEPT ![r] = label],
         req' = req, changed' \in {changed, changed \cup {r}},
         NEW i, i # ItemOf(r)
  PROVE  DueIncr(i)' = DueIncr(i) /\ DueDecr(i)' = DueDecr(i)
  BY DEF DueIncr, DueDecr, TypeOK, Op, ItemOf, Requests

\* What a step of one request to label does to what is due on its item.
LEMMA DueHere ==
  ASSUME TypeOK, NEW r \in Requests, NEW label, pc' = [pc EXCEPT ![r] = label],
         req' = req, changed' \in {changed, changed \cup {r}}, NEW i, i = ItemOf(r)
  PROVE  /\ DueIncr(i)' = IF r \in changed' /\ label = "incr"
                          THEN DueIncr(i) \cup {r} ELSE DueIncr(i) \ {r}
         /\ DueDecr(i)' = IF r \in changed' /\ Op(r) = "unlike" /\ label \in Owing
                          THEN DueDecr(i) \cup {r} ELSE DueDecr(i) \ {r}
  BY DEF DueIncr, DueDecr, TypeOK, Op, ItemOf, Requests, Owing

\* A step that changes no row and lets no request owe more.
LEMMA DueShrinks ==
  ASSUME TypeOK, NEW r \in Requests, NEW label, pc' = [pc EXCEPT ![r] = label],
         req' = req, changed' = changed,
         label = "incr" => pc[r] = "incr",
         r \in changed /\ Op(r) = "unlike" /\ label \in Owing => pc[r] \in Owing,
         NEW i
  PROVE  /\ DueIncr(i)' \in {DueIncr(i), DueIncr(i) \ {r}}
         /\ DueDecr(i)' \in {DueDecr(i), DueDecr(i) \ {r}}
  BY DEF DueIncr, DueDecr, TypeOK, Op, ItemOf, Requests, Owing

\* A step that changes no row and pays no debt.
LEMMA DueSame ==
  ASSUME TypeOK, NEW r \in Requests, NEW label, pc' = [pc EXCEPT ![r] = label],
         req' = req, changed' = changed,
         label = "incr" <=> pc[r] = "incr",
         r \in changed /\ Op(r) = "unlike" => (label \in Owing <=> pc[r] \in Owing),
         NEW i
  PROVE  DueIncr(i)' = DueIncr(i) /\ DueDecr(i)' = DueDecr(i)
  BY DEF DueIncr, DueDecr, TypeOK, Op, ItemOf, Requests, Owing

\* A new row is counted for its item only.
LEMMA RowsSaved ==
  ASSUME TypeOK, NEW u \in Users, NEW i \in Items, <<u, i>> \notin likes,
         likes' = likes \cup {<<u, i>>}
  PROVE  /\ Rows(i)' = Rows(i) + 1
         /\ \A j \in Items : j # i => Rows(j)' = Rows(j)
  <1> DEFINE S == {x \in Users : <<x, i>> \in likes}
  <1>1. IsFiniteSet(S)
    BY RequestsAssumption, FS_Subset
  <1>2. {x \in Users : <<x, i>> \in likes'} = S \cup {u}
    OBVIOUS
  <1>3. Cardinality(S \cup {u}) = Cardinality(S) + 1
    BY <1>1, FS_AddElement
  <1>4. \A j \in Items : j # i =>
          {x \in Users : <<x, j>> \in likes'} = {x \in Users : <<x, j>> \in likes}
    OBVIOUS
  <1> QED
    BY <1>2, <1>3, <1>4 DEF Rows

\* A row less is counted for its item only.
LEMMA RowsRemoved ==
  ASSUME TypeOK, NEW u \in Users, NEW i \in Items, <<u, i>> \in likes,
         likes' = likes \ {<<u, i>>}
  PROVE  /\ Rows(i)' = Rows(i) - 1
         /\ \A j \in Items : j # i => Rows(j)' = Rows(j)
  <1> DEFINE S == {x \in Users : <<x, i>> \in likes}
  <1>1. IsFiniteSet(S) /\ u \in S
    BY RequestsAssumption, FS_Subset
  <1>2. {x \in Users : <<x, i>> \in likes'} = S \ {u}
    OBVIOUS
  <1>3. Cardinality(S \ {u}) = Cardinality(S) - 1
    BY <1>1, FS_RemoveElement
  <1>4. \A j \in Items : j # i =>
          {x \in Users : <<x, j>> \in likes'} = {x \in Users : <<x, j>> \in likes}
    OBVIOUS
  <1> QED
    BY <1>2, <1>3, <1>4 DEF Rows

\* Steps that change no row, with what they may do to debts and fetches.
LEMMA QuietKept ==
  ASSUME TypeOK, QuietInv, NEW r \in Requests, NEW label \in Labels,
         pc' = [pc EXCEPT ![r] = label],
         UNCHANGED <<likes, req, changed>>,
         label = "incr" => pc[r] = "incr",
         r \in changed /\ Op(r) = "unlike" /\ label \in Owing => pc[r] \in Owing,
         quiet' \in SUBSET quiet, r \notin quiet',
         \A q \in Requests : q # r => fetched'[q] = fetched[q]
  PROVE  QuietInv'
  <1>1. \A i \in Items : Rows(i)' = Rows(i)
    BY DEF Rows
  <1>2. \A i \in Items : Due(i) = {} => Due(i)' = {}
    BY DueShrinks DEF Due
  <1>3. \A q \in Requests : ItemOf(q)' = ItemOf(q) /\ ItemOf(q) \in Items
    BY OpOfWriter DEF ItemOf
  <1>4. \A q \in quiet' : q \in Requests /\ pc'[q] = pc[q]
    BY DEF TypeOK
  <1> QED
    BY <1>1, <1>2, <1>3, <1>4 DEF QuietInv

\* Clean counters stay exact when nothing is paid and nothing is written.
LEMMA CleanKept ==
  ASSUME TypeOK, CleanCounterExact, NEW r \in Requests, NEW label \in Labels,
         pc' = [pc EXCEPT ![r] = label],
         UNCHANGED <<likes, count, req, changed>>,
         \/ /\ clean' \in SUBSET clean
            /\ label = "incr" <=> pc[r] = "incr"
            /\ r \in changed /\ Op(r) = "unlike" => (label \in Owing <=> pc[r] \in Owing)
         \/ clean' \in SUBSET (clean \ {ItemOf(r)})
  PROVE  CleanCounterExact'
  <1> SUFFICES ASSUME NEW i \in clean'
               PROVE  Value(i)' = Rows(i)' - Cardinality(DueIncr(i)') + Cardinality(DueDecr(i)')
    BY DEF CleanCounterExact
  <1>1. i \in clean /\ Rows(i)' = Rows(i) /\ Value(i)' = Value(i)
    BY DEF Rows, Value
  <1>2. DueIncr(i)' = DueIncr(i) /\ DueDecr(i)' = DueDecr(i)
    BY DueSame, DueElsewhere
  <1> QED
    BY <1>1, <1>2 DEF CleanCounterExact

\* A request comes to owe a command only by the step that changes its row.
LEMMA OwesKept ==
  ASSUME TypeOK, OwesInv, NEW r \in Requests, NEW label \in Labels,
         pc' = [pc EXCEPT ![r] = label], req' = req, changed' = changed,
         label \in {"validate", "save", "remove"} => pc[r] = "validate",
         label # "incr",
         label = "decr" => r \in changed /\ Op(r) = "unlike"
  PROVE  OwesInv'
  BY DEF OwesInv, TypeOK, Op

\* The new row of add_like: one more to count, one more increment due.
LEMMA CounterSaveNew ==
  ASSUME TypeOK, OpInv, CounterInv, NEW r \in Requests, SaveNew(r),
         NEW h \in Items, h = ItemOf(r)
  PROVE  CounterInv'
  <1> USE DEF TypeOK
  <1>1. r \in Writers /\ r \notin changed /\ Op(r) = "like"
    BY OpOfWriter DEF SaveNew, Requests, Filling, Ended, OpInv, CounterInv, OwesInv
  <1>2. /\ Rows(h)' = Rows(h) + 1
        /\ \A j \in Items : j # h => Rows(j)' = Rows(j)
    <2>1. req[r].user \in Users
      BY <1>1 DEF Asks
    <2> QED
      BY <1>1, <2>1, RowsSaved DEF SaveNew, SaveRow, AlreadyExists, RowOf, ItemOf
  <1>3. /\ DueIncr(h)' = DueIncr(h) \cup {r}
        /\ DueDecr(h)' = DueDecr(h)
        /\ r \notin DueIncr(h) /\ r \notin DueDecr(h)
    <2>1. r \notin DueIncr(h) /\ r \notin DueDecr(h)
      BY <1>1 DEF DueIncr, DueDecr
    <2>2. \E label \in {"incr", "peek"} :
          /\ r \in changed' /\ label = "incr"
          /\ DueIncr(h)' = IF r \in changed' /\ label = "incr"
                           THEN DueIncr(h) \cup {r} ELSE DueIncr(h) \ {r}
          /\ DueDecr(h)' = IF r \in changed' /\ Op(r) = "unlike" /\ label \in Owing
                           THEN DueDecr(h) \cup {r} ELSE DueDecr(h) \ {r}
      BY DueHere DEF SaveNew
    <2> QED
      BY <1>1, <2>1, <2>2 DEF Owing, Filling
  <1>4. \A j \in Items : j # h => DueIncr(j)' = DueIncr(j) /\ DueDecr(j)' = DueDecr(j)
    BY DueElsewhere DEF SaveNew
  <1>5. CleanCounterExact'
    <2> SUFFICES ASSUME NEW i \in clean
                 PROVE  Value(i)' = Rows(i)' - Cardinality(DueIncr(i)') + Cardinality(DueDecr(i)')
      BY DEF CleanCounterExact, SaveNew
    <2>1. Value(i)' = Value(i)
      BY DEF SaveNew, Value
    <2>2. CASE i = h
      <3>1. Cardinality(DueIncr(i) \cup {r}) = Cardinality(DueIncr(i)) + 1
        BY <1>3, <2>2, DueFinite, FS_AddElement
      <3>2. Rows(i) \in Nat /\ Cardinality(DueIncr(i)) \in Nat /\ Cardinality(DueDecr(i)) \in Nat
        BY DueFinite, RowsNat
      <3>3. Value(i) = Rows(i) - Cardinality(DueIncr(i)) + Cardinality(DueDecr(i))
        BY DEF CounterInv, CleanCounterExact
      <3>4. /\ Rows(i)' = Rows(i) + 1
            /\ Cardinality(DueIncr(i)') = Cardinality(DueIncr(i)) + 1
            /\ Cardinality(DueDecr(i)') = Cardinality(DueDecr(i))
        BY <1>2, <1>3, <2>2, <3>1
      <3> QED
        BY <2>1, <3>2, <3>3, <3>4
    <2>3. CASE i # h
      BY <1>2, <1>4, <2>1, <2>3 DEF CounterInv, CleanCounterExact
    <2> QED
      BY <2>2, <2>3
  <1>6. QuietInv'
    BY <1>2, <1>4, OpOfWriter DEF CounterInv, QuietInv, SaveNew, Disturb, ItemOf, Due
  <1>7. OwesInv'
    BY <1>1 DEF CounterInv, OwesInv, SaveNew, Op
  <1> QED
    BY <1>5, <1>6, <1>7 DEF CounterInv

\* The row that remove_like deletes: one less to count, one decrement due.
LEMMA CounterRemoveLiked ==
  ASSUME TypeOK, OpInv, CounterInv, NEW r \in Requests, RemoveLiked(r),
         NEW h \in Items, h = ItemOf(r)
  PROVE  CounterInv'
  <1> USE DEF TypeOK
  <1>1. r \in Writers /\ r \notin changed /\ Op(r) = "unlike"
    BY OpOfWriter DEF RemoveLiked, Requests, Filling, Ended, OpInv, CounterInv, OwesInv
  <1>2. /\ Rows(h)' = Rows(h) - 1
        /\ \A j \in Items : j # h => Rows(j)' = Rows(j)
    <2>1. req[r].user \in Users
      BY <1>1 DEF Asks
    <2> QED
      BY <1>1, <2>1, RowsRemoved DEF RemoveLiked, RemoveRow, WasLiked, RowOf, ItemOf
  <1>3. /\ DueDecr(h)' = DueDecr(h) \cup {r}
        /\ DueIncr(h)' = DueIncr(h)
        /\ r \notin DueIncr(h) /\ r \notin DueDecr(h)
    <2>1. r \notin DueIncr(h) /\ r \notin DueDecr(h)
      BY <1>1 DEF DueIncr, DueDecr
    <2>2. \E label \in {"incr", "peek"} :
          /\ r \in changed' /\ label = "peek"
          /\ DueIncr(h)' = IF r \in changed' /\ label = "incr"
                           THEN DueIncr(h) \cup {r} ELSE DueIncr(h) \ {r}
          /\ DueDecr(h)' = IF r \in changed' /\ Op(r) = "unlike" /\ label \in Owing
                           THEN DueDecr(h) \cup {r} ELSE DueDecr(h) \ {r}
      BY DueHere DEF RemoveLiked
    <2> QED
      BY <1>1, <2>1, <2>2 DEF Owing, Filling
  <1>4. \A j \in Items : j # h => DueIncr(j)' = DueIncr(j) /\ DueDecr(j)' = DueDecr(j)
    BY DueElsewhere DEF RemoveLiked
  <1>5. CleanCounterExact'
    <2> SUFFICES ASSUME NEW i \in clean
                 PROVE  Value(i)' = Rows(i)' - Cardinality(DueIncr(i)') + Cardinality(DueDecr(i)')
      BY DEF CleanCounterExact, RemoveLiked
    <2>1. Value(i)' = Value(i)
      BY DEF RemoveLiked, Value
    <2>2. CASE i = h
      <3>1. Cardinality(DueDecr(i) \cup {r}) = Cardinality(DueDecr(i)) + 1
        BY <1>3, <2>2, DueFinite, FS_AddElement
      <3>2. Rows(i) \in Nat /\ Cardinality(DueIncr(i)) \in Nat /\ Cardinality(DueDecr(i)) \in Nat
        BY DueFinite, RowsNat
      <3>3. Value(i) = Rows(i) - Cardinality(DueIncr(i)) + Cardinality(DueDecr(i))
        BY DEF CounterInv, CleanCounterExact
      <3>4. /\ Rows(i)' = Rows(i) - 1
            /\ Cardinality(DueDecr(i)') = Cardinality(DueDecr(i)) + 1
            /\ Cardinality(DueIncr(i)') = Cardinality(DueIncr(i))
        BY <1>2, <1>3, <2>2, <3>1
      <3> QED
        BY <2>1, <3>2, <3>3, <3>4
    <2>3. CASE i # h
      BY <1>2, <1>4, <2>1, <2>3 DEF CounterInv, CleanCounterExact
    <2> QED
      BY <2>2, <2>3
  <1>6. QuietInv'
    BY <1>2, <1>4, OpOfWriter DEF CounterInv, QuietInv, RemoveLiked, Disturb, ItemOf, Due
  <1>7. OwesInv'
    BY <1>1 DEF CounterInv, OwesInv, RemoveLiked, Op
  <1> QED
    BY <1>5, <1>6, <1>7 DEF CounterInv

\* The increment pays what its request owes.
LEMMA CounterIncr ==
  ASSUME TypeOK, CounterInv, NEW r \in Requests, Incr(r),
         NEW h \in Items, h = ItemOf(r)
  PROVE  CounterInv'
  <1> USE DEF TypeOK
  <1>1. r \in changed /\ Op(r) = "like" /\ pc[r] = "incr"
    BY DEF Incr, CounterInv, OwesInv
  <1>2. PICK label \in {"ok", "dbcount", "failed"} : pc' = [pc EXCEPT ![r] = label]
    BY DEF Incr, Reply
  <1>3. UNCHANGED <<likes, req, changed, fetched, clean, quiet>>
    BY DEF Incr
  <1>4. DueIncr(h)' = DueIncr(h) \ {r} /\ DueDecr(h)' = DueDecr(h)
    <2>1. /\ DueIncr(h)' = DueIncr(h) \ {r}
          /\ DueDecr(h)' = DueDecr(h) \ {r}
      BY <1>2, <1>3, DueHere DEF Owing, Filling
    <2>2. r \notin DueDecr(h)
      BY <1>1 DEF DueDecr, Filling
    <2> QED
      BY <2>1, <2>2
  <1>5. r \in DueIncr(h)
    BY <1>1 DEF DueIncr
  <1>6. /\ Value(h)' = Value(h) + 1 /\ Value(h) \in Int
        /\ \A j \in Items : j # h => Value(j)' = Value(j)
    BY SentinelsAssumption DEF Incr, Incremented, Value
  <1>7. \A j \in Items : j # h => DueIncr(j)' = DueIncr(j) /\ DueDecr(j)' = DueDecr(j)
    BY <1>2, <1>3, DueElsewhere
  <1>8. CleanCounterExact'
    <2> SUFFICES ASSUME NEW i \in clean
                 PROVE  Value(i)' = Rows(i)' - Cardinality(DueIncr(i)') + Cardinality(DueDecr(i)')
      BY <1>3 DEF CleanCounterExact
    <2>1. Rows(i)' = Rows(i)
      BY <1>3 DEF Rows
    <2>2. Value(i) = Rows(i) - Cardinality(DueIncr(i)) + Cardinality(DueDecr(i))
      BY DEF CounterInv, CleanCounterExact
    <2>3. CASE i = h
      <3>1. Cardinality(DueIncr(i)') = Cardinality(DueIncr(i)) - 1
        BY <1>4, <1>5, <2>3, DueFinite, FS_RemoveElement
      <3>2. Cardinality(DueDecr(i)') = Cardinality(DueDecr(i))
        BY <1>4, <2>3
      <3>3. Rows(i) \in Nat /\ Cardinality(DueIncr(i)) \in Nat /\ Cardinality(DueDecr(i)) \in Nat
        BY DueFinite, RowsNat
      <3> QED
        BY <1>6, <2>1, <2>2, <2>3, <3>1, <3>2, <3>3
    <2>4. CASE i # h
      BY <1>6, <1>7, <2>1, <2>2, <2>4
    <2> QED
      BY <2>3, <2>4
  <1>9. QuietInv'
    <2>1. r \notin quiet
      BY <1>1 DEF CounterInv, QuietInv
    <2> QED
      BY <1>2, <1>3, <2>1, QuietKept DEF CounterInv, Labels, Filling, Ended, Owing
  <1>10. OwesInv'
    BY <1>2, <1>3, OwesKept DEF CounterInv, Labels, Filling, Ended
  <1> QED
    BY <1>8, <1>9, <1>10 DEF CounterInv

\* The decrement pays what its request owes.
LEMMA CounterDecr ==
  ASSUME TypeOK, CounterInv, NEW r \in Requests, Decr(r),
         NEW h \in Items, h = ItemOf(r)
  PROVE  CounterInv'
  <1> USE DEF TypeOK
  <1>1. r \in changed /\ Op(r) = "unlike" /\ pc[r] = "decr"
    BY DEF Decr, CounterInv, OwesInv
  <1>2. PICK label \in {"ok", "dbcount", "failed"} : pc' = [pc EXCEPT ![r] = label]
    BY DEF Decr, Reply
  <1>3. UNCHANGED <<likes, req, changed, fetched, clean, quiet>>
    BY DEF Decr
  <1>4. DueDecr(h)' = DueDecr(h) \ {r} /\ DueIncr(h)' = DueIncr(h)
    <2>1. /\ DueIncr(h)' = DueIncr(h) \ {r}
          /\ DueDecr(h)' = DueDecr(h) \ {r}
      BY <1>2, <1>3, DueHere DEF Owing, Filling
    <2>2. r \notin DueIncr(h)
      BY <1>1 DEF DueIncr, Filling
    <2> QED
      BY <2>1, <2>2
  <1>5. r \in DueDecr(h)
    BY <1>1 DEF DueDecr
  <1>6. /\ Value(h)' = Value(h) - 1 /\ Value(h) \in Int
        /\ \A j \in Items : j # h => Value(j)' = Value(j)
    BY SentinelsAssumption DEF Decr, Decremented, Value
  <1>7. \A j \in Items : j # h => DueIncr(j)' = DueIncr(j) /\ DueDecr(j)' = DueDecr(j)
    BY <1>2, <1>3, DueElsewhere
  <1>8. CleanCounterExact'
    <2> SUFFICES ASSUME NEW i \in clean
                 PROVE  Value(i)' = Rows(i)' - Cardinality(DueIncr(i)') + Cardinality(DueDecr(i)')
      BY <1>3 DEF CleanCounterExact
    <2>1. Rows(i)' = Rows(i)
      BY <1>3 DEF Rows
    <2>2. Value(i) = Rows(i) - Cardinality(DueIncr(i)) + Cardinality(DueDecr(i))
      BY DEF CounterInv, CleanCounterExact
    <2>3. CASE i = h
      <3>1. Cardinality(DueDecr(i)') = Cardinality(DueDecr(i)) - 1
        BY <1>4, <1>5, <2>3, DueFinite, FS_RemoveElement
      <3>2. Cardinality(DueIncr(i)') = Cardinality(DueIncr(i))
        BY <1>4, <2>3
      <3>3. Rows(i) \in Nat /\ Cardinality(DueIncr(i)) \in Nat /\ Cardinality(DueDecr(i)) \in Nat
        BY DueFinite, RowsNat
      <3> QED
        BY <1>6, <2>1, <2>2, <2>3, <3>1, <3>2, <3>3
    <2>4. CASE i # h
      BY <1>6, <1>7, <2>1, <2>2, <2>4
    <2> QED
      BY <2>3, <2>4
  <1>9. QuietInv'
    <2>1. r \notin quiet
      BY <1>1 DEF CounterInv, QuietInv
    <2> QED
      BY <1>2, <1>3, <2>1, QuietKept DEF CounterInv, Labels, Filling, Ended, Owing
  <1>10. OwesInv'
    BY <1>2, <1>3, OwesKept DEF CounterInv, Labels, Filling, Ended
  <1> QED
    BY <1>8, <1>9, <1>10 DEF CounterInv

\* The fill: a count that no write overlaps is exact, any other taints.
LEMMA CounterStore ==
  ASSUME TypeOK, CounterInv, NEW r \in Requests, Store(r),
         NEW h \in Items, h = ItemOf(r)
  PROVE  CounterInv'
  <1> USE DEF TypeOK
  <1>1. pc[r] = "store" /\ pc' = [pc EXCEPT ![r] = "leave"]
        /\ UNCHANGED <<likes, req, changed, fetched>>
    BY DEF Store
  <1>2. \A i \in Items : DueIncr(i)' = DueIncr(i) /\ DueDecr(i)' = DueDecr(i)
    BY <1>1, DueSame DEF Owing, Filling
  <1>3. \A i \in Items : Rows(i)' = Rows(i)
    BY <1>1 DEF Rows
  <1>4. CleanCounterExact'
    <2> SUFFICES ASSUME NEW i \in clean'
                 PROVE  Value(i)' = Rows(i)' - Cardinality(DueIncr(i)') + Cardinality(DueDecr(i)')
      BY DEF CleanCounterExact
    <2>1. CASE i \in clean /\ Value(i)' = Value(i)
      BY <1>2, <1>3, <2>1 DEF CounterInv, CleanCounterExact
    <2>2. CASE i = h /\ redis = "up" /\ r \in quiet
      <3>1. Value(i)' = Rows(i)
        BY <2>2, SentinelsAssumption DEF Store, Stored, Value, CounterInv, QuietInv
      <3>2. DueIncr(i) = {} /\ DueDecr(i) = {}
        BY <2>2 DEF CounterInv, QuietInv, Due
      <3>3. Cardinality(DueIncr(i)') = 0 /\ Cardinality(DueDecr(i)') = 0
        BY <1>2, <2>2, <3>2, FS_EmptySet
      <3>4. Rows(i)' = Rows(i) /\ Rows(i) \in Nat
        BY <1>3, <2>2, RowsNat
      <3> QED
        BY <3>1, <3>3, <3>4
    <2> QED
      BY <2>1, <2>2 DEF Store, Stored, Value
  <1>5. QuietInv'
    BY <1>1, QuietKept DEF Store, CounterInv, Labels, Filling, Ended, Owing
  <1>6. OwesInv'
    BY <1>1, OwesKept DEF CounterInv, Labels, Filling, Ended
  <1> QED
    BY <1>4, <1>5, <1>6 DEF CounterInv

\* The count read from the database is quiet if nothing is due by then.
LEMMA CounterFetch ==
  ASSUME TypeOK, CounterInv, NEW r \in Requests, Fetch(r)
  PROVE  CounterInv'
  <1> USE DEF TypeOK
  <1>1. pc[r] = "fetch" /\ pc' = [pc EXCEPT ![r] = "store"]
        /\ UNCHANGED <<likes, count, req, changed, clean>>
    BY DEF Fetch
  <1>2. \A i : DueIncr(i)' = DueIncr(i) /\ DueDecr(i)' = DueDecr(i)
    BY <1>1, DueSame DEF Owing, Filling
  <1>3. \A i \in Items : Rows(i)' = Rows(i)
    BY <1>1 DEF Rows
  <1>4. CleanCounterExact'
    BY <1>1, CleanKept DEF CounterInv, Labels, Filling, Ended, Owing
  <1>5. QuietInv'
    <2> SUFFICES ASSUME NEW q \in quiet'
                 PROVE  /\ pc'[q] = "store"
                        /\ fetched'[q] = Rows(ItemOf(q))'
                        /\ Due(ItemOf(q))' = {}
      BY DEF QuietInv
    <2>1. /\ q \in Requests /\ ItemOf(q)' = ItemOf(q)
          /\ Rows(ItemOf(q))' = Rows(ItemOf(q)) /\ Due(ItemOf(q))' = Due(ItemOf(q))
      BY <1>1, <1>2, <1>3, OpOfWriter DEF Fetch, ItemOf, Due
    <2>2. CASE q = r
      BY <1>1, <2>1, <2>2 DEF Fetch, CounterInv, QuietInv
    <2>3. CASE q # r
      BY <1>1, <2>1, <2>3 DEF Fetch, CounterInv, QuietInv
    <2> QED
      BY <2>2, <2>3
  <1>6. OwesInv'
    BY <1>1, OwesKept DEF CounterInv, Labels, Filling, Ended
  <1> QED
    BY <1>4, <1>5, <1>6 DEF CounterInv

\* Steps that leave rows, counters and answers alone and pay no debt, or
\* that taint the item they leave a debt on.
LEMMA CounterPasses ==
  ASSUME TypeOK, CounterInv, NEW r \in Requests, NEW label \in Labels,
         pc' = [pc EXCEPT ![r] = label], pc[r] # "store" \/ quiet' = quiet \ {r},
         UNCHANGED <<likes, count, req, changed>>,
         quiet' \in SUBSET quiet,
         \A q \in Requests : q # r => fetched'[q] = fetched[q],
         label \in {"validate", "save", "remove"} => pc[r] = "validate",
         label # "incr",
         label = "decr" => r \in changed /\ Op(r) = "unlike",
         r \in changed /\ Op(r) = "unlike" /\ label \in Owing => pc[r] \in Owing,
         \/ /\ clean' \in SUBSET clean
            /\ pc[r] # "incr"
            /\ r \in changed /\ Op(r) = "unlike" => (label \in Owing <=> pc[r] \in Owing)
         \/ clean' \in SUBSET (clean \ {ItemOf(r)})
  PROVE  CounterInv'
  <1>1. r \notin quiet'
    BY DEF CounterInv, QuietInv
  <1> QED
    BY <1>1, CleanKept, QuietKept, OwesKept DEF CounterInv

\* get_like_count_with_fallback returns: remove_like goes on to decrement,
\* or skips a zero and taints the item.
LEMMA CounterReturns ==
  ASSUME TypeOK, CounterInv, NEW r \in Requests, NEW n, Return(r, n),
         pc[r] \in {"peek", "leave"}, UNCHANGED <<likes, count, req, changed, quiet>>,
         \A q \in Requests : q # r => fetched'[q] = fetched[q]
  PROVE  CounterInv'
  <1> USE DEF Labels, Filling, Ended, Owing
  <1>1. PICK label \in {"row", "decr", "ok"} :
          /\ pc' = [pc EXCEPT ![r] = label]
          /\ label = "decr" => r \in changed /\ Op(r) = "unlike"
          /\ r \in changed /\ Op(r) = "unlike" => label = "decr" \/ SkipsDecrement(r, n)
    BY DEF Return, AfterCount, SkipsDecrement
  <1>2. /\ clean' \in SUBSET clean
        /\ SkipsDecrement(r, n) => clean' \in SUBSET (clean \ {ItemOf(r)})
    BY DEF Return
  <1>3. CASE SkipsDecrement(r, n)
    BY <1>1, <1>2, <1>3, CounterPasses
  <1>4. CASE ~SkipsDecrement(r, n)
    BY <1>1, <1>2, <1>4, CounterPasses
  <1> QED
    BY <1>3, <1>4

\* Expiry, outages and idle steps.
LEMMA CounterSurroundings ==
  ASSUME TypeOK, CounterInv,
         UNCHANGED <<likes, pc, req, fetched, changed, quiet>>,
         clean' \in SUBSET clean,
         \A i \in clean' : Value(i)' = Value(i)
  PROVE  CounterInv'
  <1>1. \A i \in Items : Rows(i)' = Rows(i)
    BY DEF Rows
  <1>2. \A i : DueIncr(i)' = DueIncr(i) /\ DueDecr(i)' = DueDecr(i)
    BY DEF DueIncr, DueDecr, Op, ItemOf
  <1>3. CleanCounterExact'
    BY <1>1, <1>2 DEF CounterInv, CleanCounterExact, TypeOK
  <1>4. QuietInv'
    BY <1>1, <1>2, OpOfWriter DEF CounterInv, QuietInv, Due, ItemOf, TypeOK
  <1>5. OwesInv'
    BY DEF CounterInv, OwesInv, Op
  <1> QED
    BY <1>3, <1>4, <1>5 DEF CounterInv

\* A step keeps the counters of the clean items.
LEMMA CounterStep == TypeOK /\ OpInv /\ CounterInv /\ [Next]_vars => CounterInv'
  <1> SUFFICES ASSUME TypeOK, OpInv, CounterInv, [Next]_vars PROVE CounterInv'
    OBVIOUS
  <1> USE DEF Labels, Filling, Ended, Owing
  <1>1. ASSUME NEW r \in Requests PROVE ItemOf(r) \in Items
    BY OpOfWriter
  <1>2. ASSUME NEW r \in Requests, Validate(r) PROVE CounterInv'
    <2>1. r \notin changed
      BY <1>2 DEF Validate, CounterInv, OwesInv
    <2> QED
      BY <1>2, <2>1, CounterPasses DEF Validate
  <1>3. ASSUME NEW r \in Requests, SaveNew(r) \/ RemoveLiked(r) PROVE CounterInv'
    BY <1>1, <1>3, CounterSaveNew, CounterRemoveLiked
  <1>4. ASSUME NEW r \in Requests, SaveExisting(r) \/ RemoveAbsent(r) PROVE CounterInv'
    <2>1. r \notin changed /\ pc[r] \in {"save", "remove"}
      BY <1>4 DEF SaveExisting, RemoveAbsent, CounterInv, OwesInv
    <2>2. likes' = likes
      BY <1>4 DEF SaveExisting, SaveRow, AlreadyExists, RemoveAbsent, RemoveRow, WasLiked
    <2> QED
      BY <1>4, <2>1, <2>2, CounterPasses DEF SaveExisting, RemoveAbsent
  <1>5. ASSUME NEW r \in Requests, PeekHit(r) \/ Leave(r) PROVE CounterInv'
    BY <1>5, CounterReturns DEF PeekHit, Leave, TypeOK
  <1>6. ASSUME NEW r \in Requests,
               PeekMiss(r) \/ Enter(r) \/ Lock(r) \/ RecheckHit(r) \/ RecheckMiss(r)
        PROVE  CounterInv'
    <2>1. PICK label \in Filling : pc' = [pc EXCEPT ![r] = label]
      BY <1>6 DEF PeekMiss, Enter, Lock, RecheckHit, RecheckMiss
    <2>2. /\ pc[r] \in Filling \ {"store"}
          /\ UNCHANGED <<likes, count, req, changed, quiet, clean>>
          /\ \A q \in Requests : q # r => fetched'[q] = fetched[q]
      BY <1>6 DEF PeekMiss, Enter, Lock, RecheckHit, RecheckMiss, TypeOK
    <2> QED
      BY <2>1, <2>2, CounterPasses
  <1>7. ASSUME NEW r \in Requests, Fetch(r) \/ Store(r) PROVE CounterInv'
    BY <1>1, <1>7, CounterFetch, CounterStore
  <1>8. ASSUME NEW r \in Requests, Incr(r) \/ Decr(r) PROVE CounterInv'
    BY <1>1, <1>8, CounterIncr, CounterDecr
  <1>9. ASSUME NEW r \in Requests, CommandFails(r) PROVE CounterInv'
    BY <1>9, CounterPasses DEF CommandFails, Taint
  <1>10. ASSUME NEW r \in Requests, ReadRow(r) \/ DbCount(r) \/ NextCount(r)
         PROVE  CounterInv'
    <2>1. PICK label \in {"ok", "failed", "peek"} :
            /\ pc' = [pc EXCEPT ![r] = label]
            /\ label = "peek" => r \notin changed
      BY <1>10, RequestsAssumption DEF ReadRow, DbCount, NextCount, TypeOK
    <2>2. /\ pc[r] \in {"row", "dbcount", "ok", "failed"}
          /\ UNCHANGED <<likes, count, req, changed, quiet, clean, fetched>>
      BY <1>10 DEF ReadRow, DbCount, NextCount
    <2> QED
      BY <2>1, <2>2, CounterPasses
  <1>11. ASSUME NEW r \in Requests, Drop(r) PROVE CounterInv'
    <2>1. /\ pc' = [pc EXCEPT ![r] = "failed"] /\ quiet' = quiet \ {r}
          /\ UNCHANGED <<likes, count, req, changed>>
          /\ \A q \in Requests : q # r => fetched'[q] = fetched[q]
      BY <1>11 DEF Drop, TypeOK
    <2>2. CASE r \in Due(ItemOf(r))
      <3>1. clean' \in SUBSET (clean \ {ItemOf(r)})
        BY <1>11, <2>2 DEF Drop
      <3> QED
        BY <2>1, <3>1, CounterPasses
    <2>3. CASE r \notin Due(ItemOf(r))
      <3>1. clean' \in SUBSET clean
        BY <1>11 DEF Drop
      <3>2. pc[r] # "incr" /\ (r \in changed /\ Op(r) = "unlike" => pc[r] \notin Owing)
        BY <2>3 DEF Due, DueIncr, DueDecr, CounterInv, OwesInv
      <3> QED
        BY <2>1, <3>1, <3>2, CounterPasses
    <2> QED
      BY <2>2, <2>3
  <1>12. ASSUME NEW i \in Items, Expire(i) PROVE CounterInv'
    BY <1>12, CounterSurroundings DEF Expire, Taint, Value, TypeOK
  <1>13. ASSUME RedisDown \/ RedisUp \/ UNCHANGED vars PROVE CounterInv'
    <2>1. /\ UNCHANGED <<likes, pc, req, fetched, changed, quiet>>
          /\ clean' \in SUBSET clean
      BY <1>13 DEF RedisDown, RedisUp, vars
    <2>2. \A i \in clean' : Value(i)' = Value(i)
      BY <1>13 DEF RedisDown, RedisUp, vars, Value, TypeOK
    <2> QED
      BY <2>1, <2>2, CounterSurroundings
  <1> QED
    BY <1>2, <1>3, <1>4, <1>5, <1>6, <1>7, <1>8, <1>9, <1>10, <1>11, <1>12, <1>13
    DEF Next, Step, Write, Fill, Finish

\* The counters are exact initially.
LEMMA InitCounters == Init /\ TypeOK => CounterInv
  <1> SUFFICES ASSUME Init, TypeOK PROVE CounterInv
    OBVIOUS
  <1>1. \A i : DueIncr(i) = {} /\ DueDecr(i) = {}
    BY DEF Init, DueIncr, DueDecr
  <1>2. ASSUME NEW i \in clean PROVE Value(i) = Rows(i)
    BY <1>2, RowsNat, SentinelsAssumption DEF Init, Value
  <1>3. CleanCounterExact
    <2> SUFFICES ASSUME NEW i \in clean
                 PROVE  Value(i) = Rows(i) - Cardinality(DueIncr(i)) + Cardinality(DueDecr(i))
      BY DEF CleanCounterExact
    <2>1. Cardinality(DueIncr(i)) = 0 /\ Cardinality(DueDecr(i)) = 0
      BY <1>1, FS_EmptySet
    <2>2. Rows(i) \in Nat
      BY RowsNat DEF TypeOK
    <2> QED
      BY <1>2, <2>1, <2>2
  <1>4. OwesInv /\ QuietInv
    BY DEF Init, OwesInv, QuietInv, Requests
  <1> QED
    BY <1>3, <1>4 DEF CounterInv

\* The counter, what is owed to it and what a quiet fetch is worth.
THEOREM CounterInductive == Spec => []CounterInv
  <1>1. Init /\ TypeOK => CounterInv
    BY InitCounters
  <1>2. TypeOK /\ OpInv /\ CounterInv /\ [Next]_vars => CounterInv'
    BY CounterStep
  <1> QED
    BY <1>1, <1>2, TypeCorrect, OpCorrect, PTL DEF Spec

\* A counter that no race or fault touched is exact.
THEOREM CounterExact == Spec => []CleanCounterExact
  <1>1. CounterInv => CleanCounterExact
    BY DEF CounterInv
  <1> QED
    BY <1>1, CounterInductive, PTL

-----------------------------------------------------------------------------
(***************************************************************************)
(* The history of a row: the writes that changed it, by what they did.     *)
(***************************************************************************)
Inserted(p) == {w \in changed : RowOf(w) = p /\ Op(w) = "like"}
Deleted(p) == {w \in changed : RowOf(w) = p /\ Op(w) = "unlike"}

\* The writes of a row can be counted.
LEMMA WritesFinite ==
  ASSUME TypeOK, NEW p
  PROVE  /\ IsFiniteSet(Inserted(p)) /\ Cardinality(Inserted(p)) \in Nat
         /\ IsFiniteSet(Deleted(p)) /\ Cardinality(Deleted(p)) \in Nat
  <1>1. Inserted(p) \in SUBSET Writers /\ Deleted(p) \in SUBSET Writers
    BY DEF Inserted, Deleted, TypeOK
  <1> QED
    BY <1>1, RequestsAssumption, FS_Subset, FS_CardinalityType

\* A new row is one insert more of that row, and of no other.
LEMMA AlternateInsert ==
  ASSUME TypeOK, OpInv, OwesInv, ChangesAlternate, NEW r \in Requests, SaveNew(r)
  PROVE  ChangesAlternate'
  <1>1. r \in Writers /\ pc[r] = "save" /\ Op(r) = "like" /\ r \notin changed
    <2>1. pc[r] = "save"
      BY DEF SaveNew
    <2>2. r \in Writers
      BY <2>1 DEF TypeOK, Requests, Filling, Ended
    <2> QED
      BY <2>1, <2>2 DEF OwesInv, OpInv
  <1>2. /\ RowOf(r) \notin likes
        /\ likes' = likes \cup {RowOf(r)}
        /\ changed' = changed \cup {r}
        /\ req' = req
    BY DEF SaveNew, AlreadyExists, SaveRow
  <1> SUFFICES ASSUME NEW p \in Users \X Items
               PROVE  Cardinality(Inserted(p)') - Cardinality(Deleted(p)')
                        \in IF p \in likes' THEN {0, 1} ELSE {-1, 0}
    BY DEF ChangesAlternate, Inserted, Deleted
  <1>3. Cardinality(Inserted(p)) - Cardinality(Deleted(p))
          \in IF p \in likes THEN {0, 1} ELSE {-1, 0}
    BY DEF ChangesAlternate, Inserted, Deleted
  <1>4. Deleted(p)' = Deleted(p)
    BY <1>1, <1>2 DEF Deleted, Op, RowOf
  <1>5. CASE p = RowOf(r)
    <2>1. Inserted(p)' = Inserted(p) \cup {r} /\ r \notin Inserted(p)
      BY <1>1, <1>2, <1>5 DEF Inserted, Op, RowOf
    <2>2. Cardinality(Inserted(p)') = Cardinality(Inserted(p)) + 1
      BY <2>1, WritesFinite, FS_AddElement
    <2> QED
      BY <1>2, <1>3, <1>4, <1>5, <2>2, WritesFinite
  <1>6. CASE p # RowOf(r)
    <2>1. Inserted(p)' = Inserted(p)
      BY <1>2, <1>6 DEF Inserted, Op, RowOf
    <2> QED
      BY <1>2, <1>3, <1>4, <1>6, <2>1
  <1> QED
    BY <1>5, <1>6

\* A row less is one delete more of that row, and of no other.
LEMMA AlternateDelete ==
  ASSUME TypeOK, OpInv, OwesInv, ChangesAlternate, NEW r \in Requests, RemoveLiked(r)
  PROVE  ChangesAlternate'
  <1>1. r \in Writers /\ pc[r] = "remove" /\ Op(r) = "unlike" /\ r \notin changed
    <2>1. pc[r] = "remove"
      BY DEF RemoveLiked
    <2>2. r \in Writers
      BY <2>1 DEF TypeOK, Requests, Filling, Ended
    <2> QED
      BY <2>1, <2>2 DEF OwesInv, OpInv
  <1>2. /\ RowOf(r) \in likes
        /\ likes' = likes \ {RowOf(r)}
        /\ changed' = changed \cup {r}
        /\ req' = req
    BY DEF RemoveLiked, WasLiked, RemoveRow
  <1> SUFFICES ASSUME NEW p \in Users \X Items
               PROVE  Cardinality(Inserted(p)') - Cardinality(Deleted(p)')
                        \in IF p \in likes' THEN {0, 1} ELSE {-1, 0}
    BY DEF ChangesAlternate, Inserted, Deleted
  <1>3. Cardinality(Inserted(p)) - Cardinality(Deleted(p))
          \in IF p \in likes THEN {0, 1} ELSE {-1, 0}
    BY DEF ChangesAlternate, Inserted, Deleted
  <1>4. Inserted(p)' = Inserted(p)
    BY <1>1, <1>2 DEF Inserted, Op, RowOf
  <1>5. CASE p = RowOf(r)
    <2>1. Deleted(p)' = Deleted(p) \cup {r} /\ r \notin Deleted(p)
      BY <1>1, <1>2, <1>5 DEF Deleted, Op, RowOf
    <2>2. Cardinality(Deleted(p)') = Cardinality(Deleted(p)) + 1
      BY <2>1, WritesFinite, FS_AddElement
    <2> QED
      BY <1>2, <1>3, <1>4, <1>5, <2>2, WritesFinite
  <1>6. CASE p # RowOf(r)
    <2>1. Deleted(p)' = Deleted(p)
      BY <1>2, <1>6 DEF Deleted, Op, RowOf
    <2> QED
      BY <1>2, <1>3, <1>4, <1>6, <2>1
  <1> QED
    BY <1>5, <1>6

\* Every other step leaves the table and the answers given as they were.
LEMMA HistoryKept ==
  ASSUME [Next]_vars
  PROVE  \/ \E r \in Requests : SaveNew(r) \/ RemoveLiked(r)
         \/ UNCHANGED <<likes, changed, req>>
  <1>1. ASSUME NEW r \in Requests, SaveExisting(r) \/ RemoveAbsent(r)
        PROVE  UNCHANGED <<likes, changed, req>>
    BY <1>1 DEF SaveExisting, AlreadyExists, SaveRow, RemoveAbsent, WasLiked, RemoveRow
  <1>2. ASSUME NEW r \in Requests, Fill(r)
        PROVE  UNCHANGED <<likes, changed, req>>
    BY <1>2 DEF Fill, PeekHit, PeekMiss, Enter, Lock, RecheckHit, RecheckMiss, Fetch, Store, Leave
  <1>3. ASSUME NEW r \in Requests, Finish(r) \/ Validate(r) \/ NextCount(r) \/ Drop(r)
        PROVE  UNCHANGED <<likes, changed, req>>
    BY <1>3 DEF Finish, ReadRow, Incr, Decr, CommandFails, DbCount, Validate, NextCount, Drop
  <1>4. ASSUME (\E i \in Items : Expire(i)) \/ RedisDown \/ RedisUp \/ UNCHANGED vars
        PROVE  UNCHANGED <<likes, changed, req>>
    BY <1>4 DEF Expire, RedisDown, RedisUp, vars
  <1> QED
    BY <1>1, <1>2, <1>3, <1>4 DEF Next, Step, Write

\* Nothing has been answered at first.
LEMMA InitHistory == Init => ChangesAlternate
  <1> SUFFICES ASSUME Init, NEW p \in Users \X Items
               PROVE  Cardinality(Inserted(p)) - Cardinality(Deleted(p))
                        \in IF p \in likes THEN {0, 1} ELSE {-1, 0}
    BY DEF ChangesAlternate, Inserted, Deleted
  <1>1. Inserted(p) = {} /\ Deleted(p) = {}
    BY DEF Init, Inserted, Deleted
  <1> QED
    BY <1>1, FS_EmptySet

\* A step keeps the history of each row.
LEMMA HistoryStep ==
  TypeOK /\ OpInv /\ CounterInv /\ ChangesAlternate /\ [Next]_vars => ChangesAlternate'
  <1> SUFFICES ASSUME TypeOK, OpInv, OwesInv, ChangesAlternate, [Next]_vars
               PROVE  ChangesAlternate'
    BY DEF CounterInv
  <1>1. CASE UNCHANGED <<likes, changed, req>>
    BY <1>1 DEF ChangesAlternate, Op, RowOf
  <1> QED
    BY <1>1, HistoryKept, AlternateInsert, AlternateDelete

\* The answers of any number of likes and unlikes fit one history of each row.
THEOREM AnswersFitOneHistory == Spec => []ChangesAlternate
  <1>1. Init => ChangesAlternate
    BY InitHistory
  <1>2. TypeOK /\ OpInv /\ CounterInv /\ ChangesAlternate /\ [Next]_vars => ChangesAlternate'
    BY HistoryStep
  <1> QED
    BY <1>1, <1>2, TypeCorrect, OpCorrect, CounterInductive, PTL DEF Spec

\* A step that ends a request announces what the request changed.
LEMMA AnnouncedStep == TypeOK /\ ChangesAnnounced /\ [Next]_vars => ChangesAnnounced'
  <1> SUFFICES ASSUME TypeOK, ChangesAnnounced, [Next]_vars PROVE ChangesAnnounced'
    OBVIOUS
  <1>1. ASSUME NEW r \in Requests, NEW label, pc' = [pc EXCEPT ![r] = label],
               changed' \in {changed, changed \cup {r}},
               announced \subseteq announced',
               label = "ok" /\ r \in changed' => r \in announced'
        PROVE  ChangesAnnounced'
    BY <1>1 DEF ChangesAnnounced, TypeOK, Requests
  <1>2. ASSUME NEW r \in Requests, Validate(r) \/ Write(r) \/ Drop(r) PROVE ChangesAnnounced'
    BY <1>1, <1>2
    DEF Validate, Write, SaveNew, SaveExisting, RemoveLiked, RemoveAbsent, Drop
  <1>3. ASSUME NEW r \in Requests, NEW n, Return(r, n), changed' = changed
        PROVE  ChangesAnnounced'
    <2>1. r \in changed => Op(r) \in {"like", "unlike"}
      BY OpOfWriter DEF TypeOK
    <2>2. AfterCount(r, n) = "ok" /\ r \in changed => SkipsDecrement(r, n)
      BY <2>1 DEF AfterCount, SkipsDecrement
    <2>3. announced' = announced \cup {x \in {r} : SkipsDecrement(x, n)}
      BY <1>3 DEF Return
    <2> QED
      BY <1>1, <1>3, <2>2, <2>3 DEF Return
  <1>4. ASSUME NEW r \in Requests, PeekHit(r) \/ Leave(r) PROVE ChangesAnnounced'
    BY <1>3, <1>4 DEF PeekHit, Leave
  <1>5. ASSUME NEW r \in Requests, PeekMiss(r) \/ Enter(r) \/ Lock(r) \/ RecheckHit(r)
                                   \/ RecheckMiss(r) \/ Fetch(r) \/ Store(r)
        PROVE  ChangesAnnounced'
    BY <1>1, <1>5 DEF PeekMiss, Enter, Lock, RecheckHit, RecheckMiss, Fetch, Store
  <1>6. ASSUME NEW r \in Requests, NEW n, Reply(r, n), changed' = changed
        PROVE  ChangesAnnounced'
    BY <1>1, <1>6 DEF Reply, Announce
  <1>7. ASSUME NEW r \in Requests, Finish(r) \/ NextCount(r) PROVE ChangesAnnounced'
    <2>1. CASE Incr(r) \/ Decr(r)
      BY <1>6, <2>1 DEF Incr, Decr
    <2>2. CASE ReadRow(r) \/ DbCount(r) \/ CommandFails(r) \/ NextCount(r)
      BY <1>1, <2>2 DEF ReadRow, DbCount, CommandFails, NextCount, Announce
    <2> QED
      BY <1>7, <2>1, <2>2 DEF Finish
  <1>8. ASSUME (\E i \in Items : Expire(i)) \/ RedisDown \/ RedisUp \/ UNCHANGED vars
        PROVE  ChangesAnnounced'
    BY <1>8 DEF Expire, RedisDown, RedisUp, vars, ChangesAnnounced
  <1> QED
    BY <1>2, <1>4, <1>5, <1>7, <1>8 DEF Next, Step, Fill

\* However it ends, a request that changed its row is answered after its event.
THEOREM AnsweredChangesAnnounced == Spec => []ChangesAnnounced
  <1>1. Init => ChangesAnnounced
    BY DEF Init, ChangesAnnounced
  <1>2. TypeOK /\ ChangesAnnounced /\ [Next]_vars => ChangesAnnounced'
    BY AnnouncedStep
  <1> QED
    BY <1>1, <1>2, TypeCorrect, PTL DEF Spec
=============================================================================
