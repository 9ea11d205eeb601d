---------------------------- MODULE BatchHistory ----------------------------
(***************************************************************************)
(* BatchCounts with a history of the lock map, for what batches and single *)
(* requests say of each other by its entries: whose entry was removed, and *)
(* who was at work on an item while a batch passed it over.  The history   *)
(* follows the steps and constrains none of them.                          *)
(***************************************************************************)
EXTENDS BatchCounts

VARIABLES
    lost,     \* history: (batch, item) claims whose entry was removed
    beside    \* history: (batch, item) where others worked as the batch ran

historyVars == <<allVars, lost, beside>>

\* A step that takes the entry of an item out of the map.
Removed(i) == flight[i] # NoMutex /\ flight'[i] = NoMutex

\* A request between entry and leave of the item, or a batch that has
\* claimed it and whose count is not yet in Redis: whoever has work under
\* way that the entry of the item stands for.
AtWork(i) ==
    {r \in Requests : ItemOf(r) = i /\ mtx[r] # NoMutex}
    \cup {c \in Batches : i \in claimed[c] /\ (bpc[c] = "claim" \/ task[c] = "write")}

\* Batch b has found no counter of the item, is not answered yet, has not
\* claimed the item itself, and is not alone with it.
NotAlone(b, i) ==
    /\ bpc[b] = "claim"
    /\ i \in asked[b] \ (answered[b] \cup claimed[b])
    /\ AtWork(i) # {}

HistoryInit == BatchInit /\ lost = {} /\ beside = {}

Recorded ==
    /\ lost' = lost \cup {p \in Batches \X Items : p[2] \in claimed[p[1]] /\ Removed(p[2])}
    /\ beside' = beside \cup {p \in Batches \X Items : NotAlone(p[1], p[2])'}

HistoryNext == BatchNext /\ Recorded

HistorySpec == HistoryInit /\ [][HistoryNext]_historyVars

-----------------------------------------------------------------------------
(***************************************************************************)
(* Two batches ask the database for the same item only if the entry of one *)
(* of them was removed after its batch had registered it, by a single      *)
(* request that found it in the map: whatever other requests, batches,     *)
(* faults and tasks do, the map keeps batches from asking twice.           *)
(***************************************************************************)
BatchSingleFlight ==
    \A b, c \in Batches : \A i \in claimed[b] \cap claimed[c] :
        b # c => <<b, i>> \in lost \/ <<c, i>> \in lost

(***************************************************************************)
(* test_batch_count, "must have 100 elements", read as kindly as the map   *)
(* allows: a batch leaves an item out of its answer only if somebody else  *)
(* was at work on that item while the batch ran.                           *)
(***************************************************************************)
AnsweredAlone ==
    \A b \in Batches : bpc[b] = "ok" =>
        \A i \in asked[b] \ answered[b] : <<b, i>> \in beside

(***************************************************************************)
(* That much holds until a key expires, something fails or somebody        *)
(* unlikes: the entries that batches leave in the map do no harm while the *)
(* counters they stand for are cached.                                     *)
(***************************************************************************)
OmittedIfBusy == Calm /\ OnlyLikes => AnsweredAlone
=============================================================================
