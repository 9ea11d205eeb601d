------------------------------ MODULE Shutdown ------------------------------
(***************************************************************************)
(* The end of the process (main.rs) with the event streams of SseHub and   *)
(* the requests that use the database pool, some of which first have one   *)
(* content validated and may wait for each other's result of it.  On       *)
(* SIGTERM the token is cancelled and the pool closed; the server goes on  *)
(* accepting until the pool has drained or 2 s are over, then waits for    *)
(* its connections, and the process exits when every one has ended and     *)
(* every task can be dropped.                                              *)
(***************************************************************************)
EXTENDS SseHub

CONSTANTS
    Handlers,      \* requests that run database statements
    MaxStatements  \* bound: statements of one request

ASSUME HandlersAssumption == MaxStatements \in Nat \ {0}

VARIABLES
    server,    \* how far the server is with its end
    pool,      \* the database pool
    busy,      \* whether the content's key is in single_flight_lock
    hat,       \* the await each handler is at
    todo       \* statements each handler has yet to run

mainVars == <<server, pool, busy, hat, todo>>
allVars == <<hubVars, mainVars>>

ShutdownInit ==
    /\ HubInit
    /\ server = "serving" /\ pool = "open"
    /\ busy \in BOOLEAN    \* an earlier request may have been dropped with it
    /\ hat = [h \in Handlers |-> "new"]
    /\ todo \in [Handlers -> 1..MaxStatements]

Accepting == server \in {"serving", "closing"}
MoveHandler(h, label) == hat' = [hat EXCEPT ![h] = label]

-----------------------------------------------------------------------------
\* A request that likes the content has it validated first; the others go
\* to the database at once.
Accept(h) ==
    /\ Accepting /\ hat[h] = "new"
    /\ \E label \in {"peek", "ready"} : MoveHandler(h, label)
    /\ UNCHANGED <<hubVars, server, pool, busy, todo>>

-----------------------------------------------------------------------------
\* validate_content, as ContentValidation has it in detail: a cached result;
Cached(h) ==
    /\ hat[h] = "peek"
    /\ \E label \in {"ready", "failed"} : MoveHandler(h, label)
    /\ UNCHANGED <<hubVars, server, pool, busy, todo>>

\* none, and the key is free;
Register(h) ==
    /\ hat[h] = "peek" /\ ~busy
    /\ busy' = TRUE
    /\ MoveHandler(h, "call")
    /\ UNCHANGED <<hubVars, server, pool, todo>>

\* none, and somebody has the key: sleep 50 ms and look again, whatever the
\* token says;
Sleep(h) ==
    /\ hat[h] = "peek" /\ busy
    /\ MoveHandler(h, "sleep")
    /\ UNCHANGED <<hubVars, server, pool, busy, todo>>

Wake(h) ==
    /\ hat[h] = "sleep"
    /\ MoveHandler(h, "peek")
    /\ UNCHANGED <<hubVars, server, pool, busy, todo>>

\* and the answer of the content service, or its timeout.
CallEnds(h) ==
    /\ hat[h] = "call"
    /\ busy' = FALSE
    /\ \E label \in {"ready", "failed"} : MoveHandler(h, label)
    /\ UNCHANGED <<hubVars, server, pool, todo>>

Validate(h) == Cached(h) \/ Register(h) \/ Sleep(h) \/ Wake(h) \/ CallEnds(h)

-----------------------------------------------------------------------------
\* Each statement takes a connection of the pool and returns it.
Acquire(h) ==
    /\ hat[h] = "ready" /\ pool = "open"
    /\ MoveHandler(h, "statement")
    /\ UNCHANGED <<hubVars, server, pool, busy, todo>>

\* A closed pool answers at once, and the request ends with an error.
\* (Mutant: it waits for the pool.)
WaitsForPool == FALSE
Refused == pool = "closed"

AcquireFails(h) ==
    /\ hat[h] = "ready" /\ Refused
    /\ MoveHandler(h, "refused")
    /\ UNCHANGED <<hubVars, server, pool, busy, todo>>

\* (Mutant: the last statement does not end the request.)
NeverDone(h) == "ready"
AfterStatement(h) == IF todo[h] = 1 THEN "ok" ELSE "ready"

\* A statement succeeds, or its error ends the request.
Statement(h) ==
    /\ hat[h] = "statement"
    /\ todo' = [todo EXCEPT ![h] = @ - 1]
    /\ \E label \in {AfterStatement(h), "failed"} : MoveHandler(h, label)
    /\ UNCHANGED <<hubVars, server, pool, busy>>

Handle(h) == Validate(h) \/ Acquire(h) \/ AcquireFails(h) \/ Statement(h)

\* The client disconnects and the handler is dropped at its await; a key it
\* had registered stays.
HasEnded(h) == hat[h] \in {"ok", "failed", "refused"}
Active(h) == hat[h] # "new" /\ ~HasEnded(h)

Disconnect(h) ==
    /\ Active(h)
    /\ MoveHandler(h, "failed")
    /\ UNCHANGED <<hubVars, server, pool, busy, todo>>

Join(s, i) == Accepting /\ Connect(s, i) /\ UNCHANGED mainVars

-----------------------------------------------------------------------------
\* shutdown_signal: the token, then pool.close(), which refuses new
\* acquisitions at once and waits for the connections in use, 2 s at most.
Signal ==
    /\ server = "serving"
    /\ Cancel
    /\ server' = "closing" /\ pool' = "closed"
    /\ UNCHANGED <<busy, hat, todo>>

StopAccepting ==
    /\ server = "closing"
    /\ server' = "draining"
    /\ UNCHANGED <<hubVars, pool, busy, hat, todo>>

\* serve returns when every connection has ended; the runtime is dropped
\* when every task is at an await.
Exit ==
    /\ server = "draining"
    /\ \A s \in Streams : at[s] = "away"
    /\ \A h \in Handlers : ~Active(h)
    /\ listener # "blocked"
    /\ server' = "exited"
    /\ UNCHANGED <<hubVars, pool, busy, hat, todo>>

Running == server # "exited"

\* The tasks of SseHub beside the server; none is left after the exit.
Beside(A) == Running /\ A /\ UNCHANGED mainVars

ShutdownNext ==
    \/ Beside(Listen) \/ Beside(RedisDown) \/ Beside(RedisUp)
    \/ \E i \in Items : Beside(Publish(i))
    \/ \E s \in Streams : Beside(Serve(s)) \/ Beside(Leave(s))
    \/ \E s \in Streams, i \in Items : Join(s, i)
    \/ \E h \in Handlers : Accept(h) \/ Handle(h) \/ Disconnect(h)
    \/ Signal \/ StopAccepting \/ Exit

ShutdownSpec == ShutdownInit /\ [][ShutdownNext]_allVars

\* Tasks run when they are ready, clients read what they are sent, Redis
\* comes back, sleeps, calls and statements end, and the pool closes within
\* 2 s.  No client has to disconnect.
ShutdownFairSpec ==
    /\ ShutdownSpec
    /\ WF_allVars(Beside(Listen))
    /\ WF_allVars(Beside(RedisUp))
    /\ \A s \in Streams : WF_allVars(Beside(Serve(s)))
    /\ \A h \in Handlers : WF_allVars(Handle(h))
    /\ WF_allVars(StopAccepting) /\ WF_allVars(Exit)

-----------------------------------------------------------------------------
ShutdownTypeOK ==
    /\ HubTypeOK
    /\ server \in {"serving", "closing", "draining", "exited"}
    /\ pool \in {"open", "closed"}
    /\ busy \in BOOLEAN
    /\ hat \in [Handlers -> {"new", "peek", "sleep", "call", "ready", "statement",
                            "ok", "failed", "refused"}]
    /\ todo \in [Handlers -> 0..MaxStatements]

(***************************************************************************)
(* What keeps the process from ending: a listener that has blocked itself, *)
(* and a request that waits for a key whose owner has been dropped.        *)
(***************************************************************************)
Orphaned == busy /\ \A h \in Handlers : hat[h] # "call"

Stuck ==
    \/ listener = "blocked"
    \/ Orphaned /\ \E h \in Handlers : hat[h] \in {"peek", "sleep"}

(***************************************************************************)
(* After the signal the process exits: streams see the token, handlers     *)
(* find the pool closed instead of waiting for it, those that wait for the *)
(* result of another get it, and streams and requests that were accepted   *)
(* while the pool was closing end as well; or it is stuck in one of these  *)
(* two ways for ever, and the 30-second drain of Readme.md:88 has no end.  *)
(***************************************************************************)
ShutdownEnds == <>cancelled => <>(server = "exited") \/ <>[]Stuck
=============================================================================
