------------------------- MODULE BatchCountsProofs -------------------------
(***************************************************************************)
(* What stays true of LikeService when batches run beside its requests,    *)
(* for every number of batches and items asked for, checked by TLAPS.      *)
(***************************************************************************)
EXTENDS BatchHistory, LikeServiceProofs

USE DEF ports, local, ghosts, Goto

\* What is cached or missing, or claimed by a batch, was asked for.
LEMMA AskedForItems ==
  ASSUME BatchTypeOK, NEW b \in Batches
  PROVE  Cached(asked[b]) \in SUBSET Items /\ Missing(b) \in SUBSET Items
  BY DEF BatchTypeOK, Cached, Missing

\* A step of a batch, of its task, or its end by a fault.
OfBatch(b) == BatchStep(b) \/ TaskStep(b) \/ BatchDrop(b)

\* A step of LikeService moves no batch.
LEMMA BatchTypeSingle ==
  ASSUME BatchTypeOK, SingleStep
  PROVE  BatchTypeOK'
  <1>1. TypeOK'
    BY TypeStep DEF SingleStep, BatchTypeOK
  <1> QED
    BY <1>1 DEF SingleStep, bvars, BatchTypeOK

\* The parts of LikeService that a batch changes keep their types.
LEMMA BatchTypeShared ==
  ASSUME BatchTypeOK, NEW b \in Batches, OfBatch(b)
  PROVE  TypeOK'
  <1> USE DEF BatchTypeOK
  <1>1. CASE Mget(b) \/ NothingClaimed(b) \/ BatchFetch(b) \/ TaskRelease(b)
    BY <1>1, TypeStep DEF Mget, NothingClaimed, BatchFetch, TaskRelease
  <1>2. CASE Claim(b)
    BY <1>2 DEF Claim, Claimable, Fresh, TypeOK
  <1>3. CASE TaskWrite(b)
    <2>1. count' \in [Items -> Int \cup {NoKey}]
      BY <1>3 DEF TaskWrite, SetCounts, TypeOK
    <2>2. clean' \in SUBSET Items
      BY <1>3 DEF TaskWrite, TypeOK
    <2> QED
      BY <1>3, <2>1, <2>2 DEF TaskWrite, TypeOK
  <1>4. CASE BatchDrop(b)
    BY <1>4, BoundsAssumption DEF BatchDrop, Fault, TypeOK
  <1> QED
    BY <1>1, <1>2, <1>3, <1>4 DEF OfBatch, BatchStep, TaskStep

\* The variables of the batches keep theirs.
LEMMA BatchTypeOwn ==
  ASSUME BatchTypeOK, NEW b \in Batches, OfBatch(b)
  PROVE  BatchTypeOK'
  <1> USE DEF BatchTypeOK, Move, Ended
  <1>1. TypeOK'
    BY BatchTypeShared
  <1>2. CASE Mget(b)
    BY <1>1, <1>2, AskedForItems DEF Mget
  <1>3. CASE Claim(b)
    BY <1>1, <1>3 DEF Claim, Claimable, Won
  <1>4. CASE NothingClaimed(b)
    BY <1>1, <1>4 DEF NothingClaimed
  <1>5. CASE BatchFetch(b)
    <2>1. [i \in Items |-> IF i \in claimed[b] THEN Rows(i) ELSE 0] \in [Items -> Nat]
      BY RowsNat
    <2>2. bquiet' \in SUBSET (Batches \X Items)
      BY <1>5 DEF BatchFetch
    <2> QED
      BY <1>1, <1>5, <2>1, <2>2 DEF BatchFetch
  <1>6. CASE TaskWrite(b)
    <2>1. bquiet' \in SUBSET (Batches \X Items)
      BY <1>6 DEF TaskWrite
    <2> QED
      BY <1>1, <1>6, <2>1 DEF TaskWrite
  <1>7. CASE TaskRelease(b)
    BY <1>1, <1>7 DEF TaskRelease
  <1>8. CASE BatchDrop(b)
    BY <1>1, <1>8 DEF BatchDrop
  <1> QED
    BY <1>2, <1>3, <1>4, <1>5, <1>6, <1>7, <1>8 DEF OfBatch, BatchStep, TaskStep

\* Every value a variable takes is of its kind, also beside batches.
THEOREM BatchTypeCorrect == BatchSpec => []BatchTypeOK
  <1>1. BatchInit => BatchTypeOK
    BY InitTypes DEF BatchInit, BatchTypeOK, Ended
  <1>2. BatchTypeOK /\ [BatchNext]_allVars => BatchTypeOK'
    <2>1. ASSUME BatchTypeOK, UNCHANGED allVars PROVE BatchTypeOK'
      <3>1. TypeOK'
        BY <2>1, TypeStep DEF allVars, BatchTypeOK
      <3> QED
        BY <2>1, <3>1 DEF allVars, bvars, BatchTypeOK
    <2> QED
      BY <2>1, BatchTypeSingle, BatchTypeOwn DEF BatchNext, OfBatch
  <1> QED
    BY <1>1, <1>2, PTL DEF BatchSpec

-----------------------------------------------------------------------------
(***************************************************************************)
(* The ledger: batches read the table and change no row.                   *)
(***************************************************************************)

\* A step of a batch leaves requests and rows where they are.
LEMMA BatchesReadOnly ==
  ASSUME NEW b \in Batches, OfBatch(b)
  PROVE  UNCHANGED <<likes, req, changed, pc, fetched, quiet>>
  BY DEF OfBatch, BatchStep, TaskStep, Mget, Claim, NothingClaimed, BatchFetch,
     TaskWrite, TaskRelease, BatchDrop, vars

\* A request is at an await of its handler, also beside batches.
LEMMA BatchOpCorrect == BatchSpec => []OpInv
  <1>1. BatchInit => OpInv
    BY InitOps DEF BatchInit
  <1>2. BatchTypeOK /\ OpInv /\ [BatchNext]_allVars => OpInv'
    <2> SUFFICES ASSUME BatchTypeOK, OpInv, [BatchNext]_allVars PROVE OpInv'
      OBVIOUS
    <2>1. CASE SingleStep
      BY <2>1, OpStep DEF SingleStep, BatchTypeOK
    <2>2. ASSUME NEW b \in Batches, OfBatch(b) PROVE OpInv'
      BY <2>2, BatchesReadOnly DEF OpInv, Op
    <2>3. CASE UNCHANGED allVars
      BY <2>3 DEF allVars, vars, OpInv, Op
    <2> QED
      BY <2>1, <2>2, <2>3 DEF BatchNext, OfBatch
  <1> QED
    BY <1>1, <1>2, BatchTypeCorrect, PTL DEF BatchSpec

\* The likes table behaves as LikeLedger says, whatever batches run beside it.
THEOREM BatchesKeepLedger == BatchSpec => LedgerSafe
  <1>1. BatchInit => Ledger!Init
    BY InitLedger DEF BatchInit
  <1>2. BatchTypeOK /\ OpInv /\ [BatchNext]_allVars => LedgerStep
    <2> SUFFICES ASSUME BatchTypeOK, OpInv, [BatchNext]_allVars PROVE LedgerStep
      OBVIOUS
    <2>1. CASE SingleStep
      BY <2>1, LedgerSteps DEF SingleStep, BatchTypeOK
    <2>2. ASSUME NEW b \in Batches, OfBatch(b) PROVE LedgerStep
      BY <2>2, BatchesReadOnly, LedgerStutters DEF phaseMap
    <2>3. CASE UNCHANGED allVars
      BY <2>3, LedgerStutters DEF allVars, vars, phaseMap
    <2> QED
      BY <2>1, <2>2, <2>3 DEF BatchNext, OfBatch
  <1> QED
    BY <1>1, <1>2, BatchTypeCorrect, BatchOpCorrect, PTL
    DEF BatchSpec, LedgerSafe, LedgerStep, Ledger!Spec

-----------------------------------------------------------------------------
(***************************************************************************)
(* The clean counters: a count that a batch fetched while nothing was due  *)
(* on the item, and that no write has overlapped since, is exact when the  *)
(* spawned task stores it.                                                 *)
(***************************************************************************)
FetchedInv ==
    \A b \in Batches : \A i \in Items : <<b, i>> \in bquiet =>
        /\ i \in claimed[b]
        /\ dbCounts[b][i] = Rows(i)
        /\ Due(i) = {}

\* A request that has changed its row comes to owe nothing again.
LEMMA NoNewDebt ==
  ASSUME TypeOK, OpInv, OwesInv, [Next]_vars, NEW w \in changed
  PROVE  /\ pc'[w] = "incr" => pc[w] = "incr"
         /\ pc'[w] \in Owing => pc[w] \in Owing
  <1> USE DEF Owing, Filling, Ended, TypeOK
  <1>1. w \in Requests /\ w \notin Readers
    BY RequestsAssumption DEF Requests
  <1>2. pc[w] \notin {"validate", "save", "remove"}
    BY DEF OwesInv
  <1>3. ASSUME NEW r \in Requests, Validate(r) \/ Write(r)
        PROVE  pc'[w] = pc[w]
    BY <1>1, <1>2, <1>3
    DEF Validate, Write, SaveNew, SaveExisting, RemoveLiked, RemoveAbsent
  <1>4. ASSUME NEW r \in Requests, NEW label, pc' = [pc EXCEPT ![r] = label],
               label # "incr", label \in Owing => pc[r] \in Owing
        PROVE  /\ pc'[w] = "incr" => pc[w] = "incr"
               /\ pc'[w] \in Owing => pc[w] \in Owing
    BY <1>1, <1>4
  <1>5. ASSUME NEW r \in Requests, Fill(r)
        PROVE  \E label : /\ pc' = [pc EXCEPT ![r] = label]
                          /\ label # "incr" /\ pc[r] \in Owing
    BY <1>5 DEF Fill, PeekHit, PeekMiss, Enter, Lock, RecheckHit, RecheckMiss, Fetch,
       Store, Leave, Return, AfterCount
  <1>6. ASSUME NEW r \in Requests, Finish(r) \/ Drop(r)
        PROVE  \E label : /\ pc' = [pc EXCEPT ![r] = label]
                          /\ label # "incr" /\ label \notin Owing
    BY <1>6 DEF Finish, ReadRow, Incr, Decr, Reply, CommandFails, DbCount, Drop
  <1>7. ASSUME NEW r \in Requests, NextCount(r)
        PROVE  pc'[w] = pc[w]
    BY <1>1, <1>7 DEF NextCount
  <1>8. ASSUME (\E i \in Items : Expire(i)) \/ RedisDown \/ RedisUp \/ UNCHANGED vars
        PROVE  pc'[w] = pc[w]
    BY <1>8 DEF Expire, RedisDown, RedisUp, vars
  <1> QED
    BY <1>3, <1>4, <1>5, <1>6, <1>7, <1>8 DEF Next, Step

\* An item nothing is due on stays so until one of its rows changes.
LEMMA NothingDueKept ==
  ASSUME TypeOK, OpInv, OwesInv, [Next]_vars, NEW i \in Items, RowsKept(i), Due(i) = {}
  PROVE  Due(i)' = {} /\ Rows(i)' = Rows(i)
  <1>1. Rows(i)' = Rows(i)
    BY DEF Rows, RowsKept
  <1>2. ASSUME NEW w \in changed' PROVE w \notin Due(i)'
    <2>1. req' = req
      BY ReqStays
    <2>2. CASE w \in changed
      <3>1. w \in Due(i)' => w \in Due(i)
        BY <2>1, <2>2, NoNewDebt DEF Due, DueIncr, DueDecr, Owing, ItemOf, Op
      <3> QED
        BY <3>1
    <2>3. CASE w \notin changed
      <3>1. PICK r \in Requests : SaveNew(r) \/ RemoveLiked(r)
        BY <1>2, <2>3, HistoryKept
      <3>2. w = r
        BY <1>2, <2>3, <3>1 DEF SaveNew, RemoveLiked
      <3>3. r \in Writers
        BY <3>1 DEF SaveNew, RemoveLiked, TypeOK, Requests, Filling, Ended
      <3>4. RowOf(r) \in likes' <=> RowOf(r) \notin likes
        BY <3>1 DEF SaveNew, RemoveLiked, AlreadyExists, WasLiked, SaveRow, RemoveRow
      <3>5. req[r].user \in Users
        BY <3>3 DEF TypeOK, Asks, Requests
      <3>6. ItemOf(r) # i
        BY <3>4, <3>5 DEF RowsKept, RowOf, ItemOf
      <3> QED
        BY <2>1, <3>2, <3>6 DEF Due, DueIncr, DueDecr, ItemOf
    <2> QED
      BY <2>2, <2>3
  <1>3. \A w \in Due(i)' : w \in changed'
    BY DEF Due, DueIncr, DueDecr
  <1> QED
    BY <1>1, <1>2, <1>3

\* A step of LikeService keeps what the quiet fetches of batches are worth.
LEMMA FetchedSingle ==
  ASSUME BatchTypeOK, OpInv, CounterInv, FetchedInv, SingleStep
  PROVE  FetchedInv'
  <1> SUFFICES ASSUME NEW b \in Batches, NEW i \in Items, <<b, i>> \in bquiet'
               PROVE  /\ i \in claimed'[b]
                      /\ dbCounts'[b][i] = Rows(i)'
                      /\ Due(i)' = {}
    BY DEF FetchedInv
  <1>1. <<b, i>> \in bquiet /\ RowsKept(i)
    BY DEF SingleStep
  <1>2. claimed' = claimed /\ dbCounts' = dbCounts /\ Next
    BY DEF SingleStep, bvars
  <1>3. i \in claimed[b] /\ dbCounts[b][i] = Rows(i) /\ Due(i) = {}
    BY <1>1 DEF FetchedInv
  <1> QED
    BY <1>1, <1>2, <1>3, NothingDueKept DEF BatchTypeOK, CounterInv

\* A step of a batch keeps it as well.
LEMMA FetchedBatch ==
  ASSUME BatchTypeOK, FetchedInv, NEW c \in Batches, OfBatch(c)
  PROVE  FetchedInv'
  <1>1. \A i \in Items : Rows(i)' = Rows(i) /\ Due(i)' = Due(i)
    BY BatchesReadOnly DEF Rows, Due, DueIncr, DueDecr, ItemOf, Op
  <1> SUFFICES ASSUME NEW b \in Batches, NEW i \in Items, <<b, i>> \in bquiet'
               PROVE  /\ i \in claimed'[b]
                      /\ dbCounts'[b][i] = Rows(i)
                      /\ Due(i) = {}
    BY <1>1 DEF FetchedInv
  <1>2. CASE BatchFetch(c)
    <2>1. CASE b = c
      <3>1. i \in claimed[b] /\ Due(i) = {}
        BY <1>2, <2>1 DEF BatchFetch, FetchedInv
      <3>2. dbCounts'[b][i] = Rows(i)
        BY <1>2, <2>1, <3>1 DEF BatchFetch, BatchTypeOK
      <3> QED
        BY <1>2, <3>1, <3>2 DEF BatchFetch
    <2>2. CASE b # c
      BY <1>2, <2>2 DEF BatchFetch, FetchedInv, BatchTypeOK
    <2> QED
      BY <2>1, <2>2
  <1>3. CASE TaskWrite(c)
    <2>1. b # c /\ <<b, i>> \in bquiet
      BY <1>3 DEF TaskWrite
    <2> QED
      BY <1>3, <2>1 DEF TaskWrite, FetchedInv, BatchTypeOK
  <1>4. CASE Mget(c) \/ Claim(c) \/ NothingClaimed(c) \/ TaskRelease(c) \/ BatchDrop(c)
    <2>1. bquiet' = bquiet /\ dbCounts' = dbCounts
      BY <1>4 DEF Mget, Claim, NothingClaimed, TaskRelease, BatchDrop
    <2>2. claimed[b] \subseteq claimed'[b]
      BY <1>4 DEF Mget, Claim, NothingClaimed, TaskRelease, BatchDrop, BatchTypeOK
    <2> QED
      BY <2>1, <2>2 DEF FetchedInv
  <1> QED
    BY <1>2, <1>3, <1>4 DEF OfBatch, BatchStep, TaskStep

\* The counters that the task of a batch stores, and those it leaves alone.
LEMMA CounterBatch ==
  ASSUME BatchTypeOK, CounterInv, FetchedInv, NEW c \in Batches, OfBatch(c)
  PROVE  CounterInv'
  <1>1. UNCHANGED <<likes, req, changed, pc, fetched, quiet>>
    BY BatchesReadOnly
  <1>2. \A i : Rows(i)' = Rows(i) /\ DueIncr(i)' = DueIncr(i) /\ DueDecr(i)' = DueDecr(i)
    BY <1>1 DEF Rows, DueIncr, DueDecr, ItemOf, Op
  <1>3. OwesInv' /\ QuietInv'
    BY <1>1, <1>2 DEF CounterInv, OwesInv, QuietInv, Op, ItemOf, Due
  <1>4. ASSUME NEW i \in clean'
        PROVE  Value(i)' = Rows(i) - Cardinality(DueIncr(i)) + Cardinality(DueDecr(i))
    <2>1. CASE i \in clean /\ count'[i] = count[i]
      BY <2>1 DEF CounterInv, CleanCounterExact, Value
    <2>2. CASE ~(i \in clean /\ count'[i] = count[i])
      <3>1. TaskWrite(c) /\ redis = "up"
        BY <2>2 DEF OfBatch, BatchStep, TaskStep, Mget, Claim, NothingClaimed, BatchFetch,
           TaskWrite, TaskRelease, BatchDrop, vars
      <3>2. i \in Items
        BY <3>1 DEF TaskWrite, BatchTypeOK, TypeOK
      <3>3. <<c, i>> \in bquiet /\ i \in claimed[c]
        BY <2>2, <3>1, <3>2 DEF TaskWrite, SetCounts
      <3>4. count'[i] = Rows(i) /\ Due(i) = {}
        BY <3>1, <3>2, <3>3 DEF TaskWrite, SetCounts, FetchedInv
      <3>5. Value(i)' = Rows(i) /\ Rows(i) \in Nat
        BY <3>2, <3>4, RowsNat, SentinelsAssumption DEF Value
      <3>6. Cardinality(DueIncr(i)) = 0 /\ Cardinality(DueDecr(i)) = 0
        BY <3>4, FS_EmptySet DEF Due
      <3> QED
        BY <3>5, <3>6
    <2> QED
      BY <2>1, <2>2
  <1> QED
    BY <1>2, <1>3, <1>4 DEF CounterInv, CleanCounterExact

\* What CounterInv says of requests, and what the batches have fetched, holds
\* beside any number of batches.
LEMMA BatchCountersCorrect == BatchSpec => [](CounterInv /\ FetchedInv)
  <1>1. BatchInit => CounterInv /\ FetchedInv
    BY InitTypes, InitCounters DEF BatchInit, FetchedInv
  <1>2. BatchTypeOK /\ OpInv /\ CounterInv /\ FetchedInv /\ [BatchNext]_allVars
          => CounterInv' /\ FetchedInv'
    <2> SUFFICES ASSUME BatchTypeOK, OpInv, CounterInv, FetchedInv, [BatchNext]_allVars
                 PROVE  CounterInv' /\ FetchedInv'
      OBVIOUS
    <2>1. CASE SingleStep
      BY <2>1, CounterStep, FetchedSingle DEF SingleStep, BatchTypeOK
    <2>2. ASSUME NEW b \in Batches, OfBatch(b) PROVE CounterInv' /\ FetchedInv'
      BY <2>2, CounterBatch, FetchedBatch
    <2>3. CASE UNCHANGED allVars
      <3>1. CounterInv'
        BY <2>3, CounterStep DEF allVars, BatchTypeOK
      <3>2. FetchedInv'
        BY <2>3 DEF allVars, vars, bvars, FetchedInv, Rows, Due, DueIncr, DueDecr, ItemOf, Op
      <3> QED
        BY <3>1, <3>2
    <2> QED
      BY <2>1, <2>2, <2>3 DEF BatchNext, OfBatch
  <1> QED
    BY <1>1, <1>2, BatchTypeCorrect, BatchOpCorrect, PTL DEF BatchSpec

\* Beside any number of batches a counter that no race or fault touched is
\* exact, and a count stored by the task of a batch that no write overlapped.
THEOREM BatchCountersExact == BatchSpec => []CleanCounterExact
  <1>1. CounterInv => CleanCounterExact
    BY DEF CounterInv
  <1> QED
    BY <1>1, BatchCountersCorrect, PTL

-----------------------------------------------------------------------------
(***************************************************************************)
(* Locks and answers of the requests beside batches.  A batch replaces     *)
(* entries of the lock map that requests wait behind; it does not touch    *)
(* the mutexes they have.                                                  *)
(***************************************************************************)

\* A step of a batch answers no write and moves no mutex of a request.
LEMMA BatchesAnswerNothing ==
  ASSUME NEW b \in Batches, OfBatch(b)
  PROVE  UNCHANGED <<likes, req, changed, pc, mtx, announced>>
  BY DEF OfBatch, BatchStep, TaskStep, Mget, Claim, NothingClaimed, BatchFetch,
     TaskWrite, TaskRelease, BatchDrop, vars

\* Beside any number of batches, which replace entries others wait behind, no
\* two requests hold one mutex, the answers of likes and unlikes fit one
\* history of each row, and a change that is answered has been announced.
THEOREM BatchesKeepAnswers ==
  BatchSpec => [](MutexInv /\ ChangesAlternate /\ ChangesAnnounced)
  <1> DEFINE Answers == MutexInv /\ ChangesAlternate /\ ChangesAnnounced
  <1>1. BatchInit => Answers
    BY InitMutex, InitHistory DEF BatchInit, Init, ChangesAnnounced
  <1>2. BatchTypeOK /\ OpInv /\ CounterInv /\ Answers /\ [BatchNext]_allVars => Answers'
    <2> SUFFICES ASSUME BatchTypeOK, OpInv, CounterInv, Answers, [BatchNext]_allVars
                 PROVE  Answers'
      OBVIOUS
    <2>1. CASE SingleStep
      BY <2>1, MutexKept, HistoryStep, AnnouncedStep DEF SingleStep, BatchTypeOK
    <2>2. ASSUME UNCHANGED <<likes, req, changed, pc, mtx, announced>> PROVE Answers'
      BY <2>2 DEF MutexInv, OneHolder, ChangesAlternate, ChangesAnnounced, Op, RowOf
    <2>3. ASSUME NEW b \in Batches, OfBatch(b) PROVE Answers'
      BY <2>2, <2>3, BatchesAnswerNothing
    <2>4. CASE UNCHANGED allVars
      BY <2>2, <2>4 DEF allVars, vars
    <2> QED
      BY <2>1, <2>3, <2>4 DEF BatchNext, OfBatch
  <1> QED
    BY <1>1, <1>2, BatchTypeCorrect, BatchOpCorrect, BatchCountersCorrect, PTL DEF BatchSpec

-----------------------------------------------------------------------------
(***************************************************************************)
(* The history of the lock map (BatchHistory).                             *)
(***************************************************************************)

\* The history only watches: without it the steps are those of BatchCounts.
THEOREM HistoryErased == HistorySpec => BatchSpec
  <1>1. HistoryInit => BatchInit
    BY DEF HistoryInit
  <1>2. [HistoryNext]_historyVars => [BatchNext]_allVars
    BY DEF HistoryNext, historyVars
  <1> QED
    BY <1>1, <1>2, PTL DEF HistorySpec, BatchSpec

\* What a batch has still to register was asked for and is not answered yet.
ClaimsInv ==
    \A b \in Batches :
        /\ bpc[b] = "mget" => claimed[b] = {}
        /\ left[b] \cap claimed[b] = {}
        /\ bpc[b] = "claim" => left[b] \subseteq asked[b] \ answered[b]
        /\ bpc[b] = "ok" => left[b] = {} /\ claimed[b] \subseteq answered[b]

\* What the claims say of the entries of the lock map.
EntriesInv ==
    \A b \in Batches : \A i \in claimed[b] : flight[i] # NoMutex \/ <<b, i>> \in lost

HistoryInv == ClaimsInv /\ EntriesInv /\ BatchSingleFlight

\* A step of LikeService moves no batch; the history records what it does to
\* the entries.
LEMMA HistorySingle ==
  ASSUME BatchTypeOK, HistoryInv, SingleStep, Recorded
  PROVE  HistoryInv'
  <1>1. UNCHANGED <<bpc, asked, left, claimed, answered>> /\ lost \subseteq lost'
    BY DEF SingleStep, bvars, Recorded
  <1>2. ASSUME NEW b \in Batches, NEW i \in claimed[b]
        PROVE  flight'[i] # NoMutex \/ <<b, i>> \in lost'
    <2>1. i \in Items
      BY DEF BatchTypeOK
    <2> QED
      BY <1>1, <2>1 DEF HistoryInv, EntriesInv, Recorded, Removed
  <1> QED
    BY <1>1, <1>2 DEF HistoryInv, ClaimsInv, EntriesInv, BatchSingleFlight

\* What the claim of one item does: it wins the item only if the map has no
\* entry for it, and puts one in either way.
LEMMA ClaimEffect ==
  ASSUME BatchTypeOK, NEW b \in Batches, Claim(b)
  PROVE  \E i \in left[b], m \in Mutexes :
           /\ i \in Items /\ m # NoMutex
           /\ flight' = [flight EXCEPT ![i] = m]
           /\ left' = [left EXCEPT ![b] = @ \ {i}]
           /\ claimed' = [claimed EXCEPT ![b] =
                            IF flight[i] = NoMutex THEN @ \cup {i} ELSE @]
  <1>1. PICK i \in left[b], m \in Mutexes :
           /\ flight' = [flight EXCEPT ![i] = m]
           /\ left' = [left EXCEPT ![b] = @ \ {i}]
           /\ claimed' = [claimed EXCEPT ![b] = @ \cup Won(i)]
    BY DEF Claim, Claimable, Fresh
  <1>2. Won(i) = IF flight[i] = NoMutex THEN {i} ELSE {}
    BY DEF Won
  <1>3. i \in Items /\ m # NoMutex
    BY SentinelsAssumption DEF BatchTypeOK
  <1>4. claimed' = [claimed EXCEPT ![b] = IF flight[i] = NoMutex THEN @ \cup {i} ELSE @]
    <2>1. claimed[b] \cup {} = claimed[b]
      OBVIOUS
    <2> QED
      BY <1>1, <1>2, <2>1
  <1> QED
    BY <1>1, <1>3, <1>4

LEMMA HistoryClaim ==
  ASSUME BatchTypeOK, HistoryInv, NEW b \in Batches, Claim(b), Recorded
  PROVE  HistoryInv'
  <1> USE DEF BatchTypeOK, TypeOK
  <1>1. PICK i \in left[b], m \in Mutexes :
           /\ i \in Items /\ m # NoMutex
           /\ flight' = [flight EXCEPT ![i] = m]
           /\ left' = [left EXCEPT ![b] = @ \ {i}]
           /\ claimed' = [claimed EXCEPT ![b] =
                            IF flight[i] = NoMutex THEN @ \cup {i} ELSE @]
    BY ClaimEffect
  <1>2. UNCHANGED <<bpc, asked, answered>> /\ bpc[b] = "claim" /\ lost \subseteq lost'
    BY DEF Claim, Recorded
  <1>3. \A c \in Batches : claimed[c] \subseteq claimed'[c] /\ (c # b => claimed'[c] = claimed[c])
    BY <1>1
  <1>4. ClaimsInv'
    BY <1>1, <1>2 DEF HistoryInv, ClaimsInv
  <1>5. ASSUME NEW c \in Batches, NEW j \in claimed'[c]
        PROVE  flight'[j] # NoMutex \/ <<c, j>> \in lost'
    BY <1>1, <1>2, <1>3 DEF HistoryInv, EntriesInv
  \* Whoever claimed the item before has lost its entry.
  <1>6. ASSUME NEW c \in Batches, NEW d \in Batches, c # d,
               NEW j \in claimed'[c] \cap claimed'[d]
        PROVE  <<c, j>> \in lost' \/ <<d, j>> \in lost'
    <2>1. CASE j \in claimed[c] /\ j \in claimed[d]
      BY <1>2, <1>6, <2>1 DEF HistoryInv, BatchSingleFlight
    <2>2. CASE ~(j \in claimed[c] /\ j \in claimed[d])
      <3>1. j = i /\ flight[i] = NoMutex /\ (c = b \/ d = b)
        BY <1>1, <1>3, <2>2
      <3>2. \A e \in {c, d} : e # b => j \in claimed[e]
        BY <1>3
      <3> QED
        BY <1>2, <1>6, <3>1, <3>2 DEF HistoryInv, EntriesInv
    <2> QED
      BY <2>1, <2>2
  <1> QED
    BY <1>4, <1>5, <1>6 DEF HistoryInv, EntriesInv, BatchSingleFlight

\* The other steps of a batch leave the entries and the claims alone.
LEMMA HistoryOther ==
  ASSUME BatchTypeOK, HistoryInv, NEW b \in Batches, Recorded,
         OfBatch(b), ~Claim(b)
  PROVE  HistoryInv'
  <1> USE DEF BatchTypeOK, HistoryInv, ClaimsInv, Move
  <1>1. UNCHANGED <<flight, claimed, asked>> /\ lost \subseteq lost'
    BY DEF OfBatch, BatchStep, TaskStep, Mget, NothingClaimed, BatchFetch,
       TaskWrite, TaskRelease, BatchDrop, vars, Recorded
  <1>2. EntriesInv' /\ BatchSingleFlight'
    BY <1>1 DEF EntriesInv, BatchSingleFlight
  <1>3. CASE Mget(b)
    <2>1. Missing(b) \subseteq asked[b] \ Cached(asked[b])
      BY DEF Missing
    <2> QED
      BY <1>1, <1>2, <1>3, <2>1 DEF Mget
  <1>4. CASE NothingClaimed(b)
    BY <1>1, <1>2, <1>4 DEF NothingClaimed
  <1>5. CASE BatchFetch(b)
    BY <1>1, <1>2, <1>5 DEF BatchFetch
  <1>6. CASE TaskWrite(b) \/ TaskRelease(b)
    BY <1>1, <1>2, <1>6 DEF TaskWrite, TaskRelease
  <1>7. CASE BatchDrop(b)
    BY <1>1, <1>2, <1>7 DEF BatchDrop
  <1> QED
    BY <1>3, <1>4, <1>5, <1>6, <1>7 DEF OfBatch, BatchStep, TaskStep

\* What the lock map and the claims say of each other holds throughout.
THEOREM HistoryCorrect == HistorySpec => []HistoryInv
  <1>1. HistoryInit => HistoryInv
    <2> SUFFICES ASSUME HistoryInit PROVE HistoryInv
      OBVIOUS
    <2>1. \A b \in Batches : bpc[b] = "mget" /\ left[b] = {} /\ claimed[b] = {}
      BY DEF HistoryInit, BatchInit, Init
    <2> QED
      BY <2>1 DEF HistoryInv, ClaimsInv, EntriesInv, BatchSingleFlight
  <1>2. BatchTypeOK /\ HistoryInv /\ [HistoryNext]_historyVars => HistoryInv'
    <2> SUFFICES ASSUME BatchTypeOK, HistoryInv, [HistoryNext]_historyVars PROVE HistoryInv'
      OBVIOUS
    <2>1. CASE SingleStep /\ Recorded
      BY <2>1, HistorySingle
    <2>2. ASSUME NEW b \in Batches, OfBatch(b), Recorded PROVE HistoryInv'
      BY <2>2, HistoryClaim, HistoryOther
    <2>3. CASE UNCHANGED historyVars
      BY <2>3
      DEF historyVars, allVars, bvars, vars, HistoryInv, ClaimsInv, EntriesInv,
          BatchSingleFlight
    <2> QED
      BY <2>1, <2>2, <2>3 DEF HistoryNext, BatchNext, OfBatch
  <1>3. HistorySpec => []BatchTypeOK
    BY HistoryErased, BatchTypeCorrect, PTL
  <1> QED
    BY <1>1, <1>2, <1>3, PTL DEF HistorySpec

\* Batches ask for the same item again only after an entry was removed, for any
\* number of batches, and of requests that come and go.
THEOREM BatchesAskOnce == HistorySpec => []BatchSingleFlight
  <1>1. HistoryInv => BatchSingleFlight
    BY DEF HistoryInv
  <1> QED
    BY <1>1, HistoryCorrect, PTL

(***************************************************************************)
(* Why a batch omits nothing while it is alone, until something fails,     *)
(* expires or is unliked: a counter is never unreadable (ReadableInv), an  *)
(* entry of the map means that its counter is cached or somebody is at     *)
(* work on the item (EntriesMean), so that an entry in the way of a batch  *)
(* that missed the counter is one it shares the item with (PassedOver).    *)
(***************************************************************************)
EntriesMean ==
    \A i \in Items : flight[i] # NoMutex => count[i] # NoKey \/ AtWork(i) # {}

PassedOver ==
    \A b \in Batches :
        /\ bpc[b] = "claim" =>
             \A i \in left[b] : flight[i] # NoMutex => <<b, i>> \in beside
        /\ bpc[b] \in {"claim", "ok"} =>
             \A i \in asked[b] \ (answered[b] \cup left[b] \cup claimed[b]) :
                <<b, i>> \in beside

PeaceInv == Calm /\ OnlyLikes => ReadableInv /\ EntriesMean /\ PassedOver

\* In that case only entering and leaving move an entry or a mutex.
LEMMA PeaceMoves ==
  ASSUME TypeOK, Calm, Calm', ReadableInv, [Next]_vars
  PROVE  UNCHANGED <<flight, mtx>> \/ \E s \in Requests : Enter(s) \/ Leave(s)
  <1>1. ASSUME NEW s \in Requests, Drop(s) PROVE FALSE
    BY <1>1, BoundsAssumption DEF Drop, Fault, Calm, TypeOK
  <1> QED
    BY <1>1 DEF Next, Step, Validate, Write, SaveNew, SaveExisting, RemoveLiked,
       RemoveAbsent, Fill, PeekHit, PeekMiss, Lock, RecheckHit, RecheckMiss, Fetch, Store,
       Finish, ReadRow, Incr, Decr, CommandFails, DbCount, NextCount, Expire, RedisDown,
       RedisUp, vars

\* Whoever is at work on an item stays there as long as its entry does, and
\* whoever puts an entry in is at work.
LEMMA WorkersStay ==
  ASSUME BatchTypeOK, SingleStep, Calm, Calm', ReadableInv,
         NEW i \in Items, flight'[i] # NoMutex, flight[i] = NoMutex \/ AtWork(i) # {}
  PROVE  AtWork(i)' # {}
  <1> USE DEF BatchTypeOK, TypeOK
  <1>1. /\ UNCHANGED <<req, bpc, claimed, task>>
        /\ [Next]_vars
    BY ReqStays DEF SingleStep, bvars
  <1>2. CASE UNCHANGED <<flight, mtx>>
    BY <1>1, <1>2 DEF AtWork, ItemOf
  <1>3. ASSUME NEW s \in Requests, Enter(s) PROVE AtWork(i)' # {}
    <2>1. ItemOf(s) \in Items /\ ItemOf(s)' = ItemOf(s)
      BY <1>1, OpOfWriter DEF ItemOf
    <2>2. PICK m \in Mutexes \cup {NoMutex} :
            /\ m # NoMutex
            /\ flight' = [flight EXCEPT ![ItemOf(s)] = m]
            /\ mtx' = [mtx EXCEPT ![s] = m]
      BY <1>3, <2>1, SentinelsAssumption DEF Enter, MutexOf, Fresh
    <2>3. CASE i = ItemOf(s)
      <3>1. s \in AtWork(i)'
        BY <2>1, <2>2, <2>3 DEF AtWork
      <3> QED
        BY <3>1
    <2>4. CASE i # ItemOf(s)
      <3>1. AtWork(i) # {}
        BY <2>1, <2>2, <2>4
      <3>2. AtWork(i) \subseteq AtWork(i)'
        BY <1>1, <2>2, <2>4 DEF AtWork, ItemOf
      <3> QED
        BY <3>1, <3>2
    <2> QED
      BY <2>3, <2>4
  <1>4. ASSUME NEW s \in Requests, Leave(s) PROVE AtWork(i)' # {}
    <2>1. ItemOf(s) # i /\ AtWork(i) # {}
      BY <1>4, OpOfWriter DEF Leave, Unregister
    <2>2. AtWork(i) \subseteq AtWork(i)'
      BY <1>1, <1>4, <2>1 DEF AtWork, ItemOf, Leave
    <2> QED
      BY <2>1, <2>2
  <1> QED
    BY <1>1, <1>2, <1>3, <1>4, PeaceMoves

\* A step of a request, in that case.
LEMMA PeaceSingle ==
  ASSUME BatchTypeOK, BatchTypeOK', HistoryInv, SingleStep, Recorded,
         Calm, Calm', OnlyLikes, ReadableInv, EntriesMean, PassedOver
  PROVE  ReadableInv' /\ EntriesMean' /\ PassedOver'
  <1> USE DEF BatchTypeOK
  <1>1. UNCHANGED <<bpc, asked, left, claimed, answered>> /\ [Next]_vars
    BY DEF SingleStep, bvars
  <1>2. ReadableInv'
    BY <1>1, ReadableStep
  <1>3. \A i \in Items : count[i] # NoKey => count'[i] # NoKey
    BY <1>1, CalmStep, SentinelsAssumption, OpOfWriter
    DEF Store, Stored, Incr, Incremented, Value, TypeOK
  <1>4. EntriesMean'
    BY <1>3, WorkersStay DEF EntriesMean
  <1>5. ASSUME NEW b \in Batches, bpc[b] = "claim", NEW i \in left[b], flight'[i] # NoMutex
        PROVE  <<b, i>> \in beside'
    <2>1. i \in Items /\ i \in asked[b] \ (answered[b] \cup claimed[b])
      BY <1>5 DEF HistoryInv, ClaimsInv
    <2>2. CASE flight[i] # NoMutex
      BY <1>5, <2>2 DEF PassedOver, Recorded
    <2>3. CASE flight[i] = NoMutex
      <3>1. NotAlone(b, i)'
        BY <1>1, <1>5, <2>1, <2>3, WorkersStay DEF NotAlone
      <3> QED
        BY <2>1, <3>1 DEF Recorded
    <2> QED
      BY <2>2, <2>3
  <1>6. PassedOver'
    BY <1>1, <1>5 DEF PassedOver, Recorded
  <1> QED
    BY <1>2, <1>4, <1>6

\* A batch, in that case: the counts it stores are those of the database.
LEMMA PeaceReadable ==
  ASSUME BatchTypeOK, NEW b \in Batches, OfBatch(b), ReadableInv
  PROVE  /\ ReadableInv'
         /\ \A i \in Items : count[i] # NoKey => count'[i] # NoKey
         /\ TaskWrite(b) => \A i \in claimed[b] : count'[i] # NoKey
  <1> USE DEF BatchTypeOK, TypeOK, ReadableInv
  <1>1. UNCHANGED <<pc, redis>>
    BY DEF OfBatch, BatchStep, TaskStep, Mget, Claim, NothingClaimed, BatchFetch,
       TaskWrite, TaskRelease, BatchDrop, vars
  <1>2. CASE TaskWrite(b)
    <2>1. count' = [i \in Items |-> IF i \in claimed[b] THEN dbCounts[b][i] ELSE count[i]]
      BY <1>2 DEF TaskWrite, SetCounts
    <2>2. \A i \in Items : dbCounts[b][i] \in Nat /\ dbCounts[b][i] # NoKey
      BY SentinelsAssumption
    <2>3. \A i \in Items : Value(i)' >= 0
      BY <2>1, <2>2 DEF Value
    <2> QED
      BY <1>1, <2>1, <2>2, <2>3
  <1>3. CASE ~TaskWrite(b)
    <2>1. UNCHANGED count
      BY <1>3 DEF OfBatch, BatchStep, TaskStep, Mget, Claim, NothingClaimed, BatchFetch,
         TaskRelease, BatchDrop, vars
    <2> QED
      BY <1>1, <1>3, <2>1 DEF Value
  <1> QED
    BY <1>2, <1>3

\* The claim of an item that has an entry passes the item over.
LEMMA PeaceClaim ==
  ASSUME BatchTypeOK, HistoryInv, NEW b \in Batches, Claim(b), Recorded,
         EntriesMean, PassedOver
  PROVE  EntriesMean' /\ PassedOver'
  <1> USE DEF BatchTypeOK, TypeOK
  <1>1. PICK i \in left[b], m \in Mutexes :
           /\ i \in Items /\ m # NoMutex
           /\ flight' = [flight EXCEPT ![i] = m]
           /\ left' = [left EXCEPT ![b] = @ \ {i}]
           /\ claimed' = [claimed EXCEPT ![b] =
                            IF flight[i] = NoMutex THEN @ \cup {i} ELSE @]
    BY ClaimEffect
  <1>2. /\ UNCHANGED <<bpc, asked, answered, task, count, req, mtx>>
        /\ bpc[b] = "claim"
        /\ beside \subseteq beside'
    BY DEF Claim, Recorded, ports, local
  <1>3. \A j : AtWork(j) \subseteq AtWork(j)'
    BY <1>1, <1>2 DEF AtWork, ItemOf
  <1>4. flight[i] = NoMutex => b \in AtWork(i)'
    BY <1>1, <1>2 DEF AtWork
  <1>5. EntriesMean'
    BY <1>1, <1>2, <1>3, <1>4 DEF EntriesMean
  <1>6. ASSUME NEW c \in Batches, bpc[c] = "claim", NEW j \in left'[c], flight'[j] # NoMutex
        PROVE  <<c, j>> \in beside'
    <2>1. j \in left[c]
      BY <1>1
    <2>2. CASE flight[j] # NoMutex
      BY <1>2, <1>6, <2>1, <2>2 DEF PassedOver
    <2>3. CASE flight[j] = NoMutex
      <3>1. j = i /\ c # b
        BY <1>1, <1>6, <2>3
      <3>2. j \in asked[c] \ (answered[c] \cup claimed[c])
        BY <1>6, <2>1 DEF HistoryInv, ClaimsInv
      <3>3. NotAlone(c, j)'
        BY <1>1, <1>2, <1>4, <1>6, <2>3, <3>1, <3>2 DEF NotAlone
      <3> QED
        BY <3>1, <3>3, <1>1 DEF Recorded
    <2> QED
      BY <2>2, <2>3
  <1>7. ASSUME NEW c \in Batches, bpc[c] \in {"claim", "ok"},
               NEW j \in asked[c] \ (answered[c] \cup left'[c] \cup claimed'[c])
        PROVE  <<c, j>> \in beside'
    <2>1. CASE c = b /\ j = i
      BY <1>1, <1>2, <1>7, <2>1 DEF PassedOver
    <2>2. CASE c # b \/ j # i
      BY <1>1, <1>2, <1>7, <2>2 DEF PassedOver
    <2> QED
      BY <2>1, <2>2
  <1>8. PassedOver'
    BY <1>2, <1>6, <1>7 DEF PassedOver
  <1> QED
    BY <1>5, <1>8

\* The other steps of a batch: where it reads the counters, what is missing
\* has no key, and its entry is somebody's who is at work.
LEMMA PeaceOther ==
  ASSUME BatchTypeOK, HistoryInv, NEW b \in Batches, OfBatch(b), ~Claim(b), Recorded,
         Calm', ReadableInv, EntriesMean, PassedOver
  PROVE  EntriesMean' /\ PassedOver'
  <1> USE DEF BatchTypeOK, TypeOK
  <1>1. /\ UNCHANGED <<flight, claimed, asked, req, mtx>>
        /\ beside \subseteq beside'
        /\ \A c \in Batches : c # b => /\ bpc'[c] = bpc[c] /\ left'[c] = left[c]
                                       /\ answered'[c] = answered[c] /\ task'[c] = task[c]
    BY DEF OfBatch, BatchStep, TaskStep, Mget, NothingClaimed, BatchFetch,
       TaskWrite, TaskRelease, BatchDrop, vars, local, ports, Recorded, Move
  <1>2. ~BatchDrop(b)
    BY BoundsAssumption DEF BatchDrop, Fault, Calm
  \* Only the write-back ends the work on an item, and it stores a count.
  <1>3. \A j \in Items : j \in claimed[b] /\ (bpc[b] = "claim" \/ task[b] = "write")
           => bpc'[b] = "claim" \/ task'[b] = "write" \/ count'[j] # NoKey
    BY <1>2, PeaceReadable DEF OfBatch, BatchStep, TaskStep, Mget, NothingClaimed,
       BatchFetch, TaskWrite, TaskRelease, Move, HistoryInv, ClaimsInv
  <1>4. \A j \in Items : AtWork(j) # {} => AtWork(j)' # {} \/ count'[j] # NoKey
    <2> SUFFICES ASSUME NEW j \in Items, NEW x \in AtWork(j)
                 PROVE  AtWork(j)' # {} \/ count'[j] # NoKey
      OBVIOUS
    <2>1. CASE x \in Requests /\ ItemOf(x) = j /\ mtx[x] # NoMutex
      <3>1. x \in AtWork(j)'
        BY <1>1, <2>1 DEF AtWork, ItemOf
      <3> QED
        BY <3>1
    <2>2. CASE x \in Batches /\ j \in claimed[x] /\ (bpc[x] = "claim" \/ task[x] = "write")
      <3>1. j \in claimed'[x] /\ (bpc'[x] = "claim" \/ task'[x] = "write")
              => x \in AtWork(j)'
        BY <2>2 DEF AtWork
      <3> QED
        BY <1>1, <1>3, <2>2, <3>1
    <2> QED
      BY <2>1, <2>2 DEF AtWork
  <1>5. EntriesMean'
    BY <1>1, <1>4, PeaceReadable DEF EntriesMean
  <1>6. CASE Mget(b)
    <2>1. /\ left'[b] = Missing(b) /\ answered'[b] = Cached(asked[b])
          /\ claimed[b] = {}
      BY <1>6 DEF Mget, HistoryInv, ClaimsInv
    <2>2. \A i \in Missing(b) : count[i] = NoKey /\ i \in asked[b] \ Cached(asked[b])
      BY DEF Missing, Cached, ReadableInv
    <2>3. ASSUME NEW i \in left'[b], flight'[i] # NoMutex, bpc'[b] = "claim"
          PROVE  <<b, i>> \in beside'
      <3>1. i \in Items /\ AtWork(i) # {} /\ count'[i] = NoKey
        BY <1>1, <1>6, <2>1, <2>2, <2>3, AskedForItems DEF EntriesMean, Mget, vars, ports
      <3>2. NotAlone(b, i)'
        BY <1>1, <1>4, <2>1, <2>2, <2>3, <3>1 DEF NotAlone
      <3> QED
        BY <3>1, <3>2 DEF Recorded
    <2>4. asked[b] \ (answered'[b] \cup left'[b]) = {}
      BY <2>1 DEF Missing
    <2> QED
      BY <1>1, <1>5, <2>3, <2>4 DEF PassedOver
  <1>7. CASE ~Mget(b)
    <2>1. /\ left' = left
          /\ bpc'[b] \in {bpc[b], "ok"} /\ (bpc'[b] # bpc[b] => bpc[b] = "claim")
          /\ answered[b] \cup claimed[b] = answered'[b] \cup claimed[b]
      BY <1>2, <1>7 DEF OfBatch, BatchStep, TaskStep, NothingClaimed, BatchFetch,
         TaskWrite, TaskRelease, Move
    <2>2. asked[b] \ (answered'[b] \cup left[b] \cup claimed[b])
            = asked[b] \ (answered[b] \cup left[b] \cup claimed[b])
      BY <2>1
    <2> QED
      BY <1>1, <1>5, <2>1, <2>2 DEF PassedOver
  <1> QED
    BY <1>6, <1>7

\* Why batches omit what they omit, in that case.
THEOREM PeaceCorrect == HistorySpec => []PeaceInv
  <1>1. HistoryInit => PeaceInv
    <2> SUFFICES ASSUME HistoryInit PROVE ReadableInv /\ EntriesMean /\ PassedOver
      BY DEF PeaceInv
    <2> USE DEF HistoryInit, BatchInit, Init
    <2>1. ReadableInv
      BY RowsNat, SentinelsAssumption DEF ReadableInv, Value, Requests
    <2> QED
      BY <2>1 DEF EntriesMean, PassedOver
  <1>2. BatchTypeOK /\ BatchTypeOK' /\ HistoryInv /\ PeaceInv /\ [HistoryNext]_historyVars
          => PeaceInv'
    <2> SUFFICES ASSUME BatchTypeOK, BatchTypeOK', HistoryInv, PeaceInv,
                        [HistoryNext]_historyVars, Calm', OnlyLikes'
                 PROVE  ReadableInv' /\ EntriesMean' /\ PassedOver'
      BY DEF PeaceInv
    <2>1. CASE SingleStep /\ Recorded
      <3>1. Calm /\ OnlyLikes
        BY <2>1, CalmBefore, OnlyLikesBefore DEF SingleStep, BatchTypeOK
      <3> QED
        BY <2>1, <3>1, PeaceSingle DEF PeaceInv
    <2>2. ASSUME NEW b \in Batches, OfBatch(b), Recorded
          PROVE  ReadableInv' /\ EntriesMean' /\ PassedOver'
      <3>1. OnlyLikes
        BY <2>2, BatchesReadOnly DEF OnlyLikes, Op
      <3>2. Calm
        BY <2>2, BoundsAssumption
        DEF OfBatch, BatchStep, TaskStep, Mget, Claim, NothingClaimed, BatchFetch, TaskWrite,
            TaskRelease, BatchDrop, Fault, vars, ghosts, Calm, BatchTypeOK, TypeOK
      <3> QED
        BY <2>2, <3>1, <3>2, PeaceReadable, PeaceClaim, PeaceOther DEF PeaceInv
    <2>3. CASE UNCHANGED historyVars
      BY <2>3
      DEF historyVars, allVars, bvars, vars, ports, local, ghosts, PeaceInv, ReadableInv,
          EntriesMean, PassedOver, AtWork, ItemOf, Value, Calm, OnlyLikes, Op
    <2> QED
      BY <2>1, <2>2, <2>3 DEF HistoryNext, BatchNext, OfBatch
  <1>3. HistorySpec => []BatchTypeOK
    BY HistoryErased, BatchTypeCorrect, PTL
  <1> QED
    BY <1>1, <1>2, <1>3, HistoryCorrect, PTL DEF HistorySpec

\* Until something fails, expires or is unliked, a batch omits an item only if
\* somebody else was at work on it while the batch ran.
THEOREM OmissionsExplained == HistorySpec => []OmittedIfBusy
  <1>1. HistoryInv /\ PeaceInv => OmittedIfBusy
    BY DEF HistoryInv, ClaimsInv, PeaceInv, PassedOver, OmittedIfBusy, AnsweredAlone
  <1> QED
    BY <1>1, HistoryCorrect, PeaceCorrect, PTL
=============================================================================
