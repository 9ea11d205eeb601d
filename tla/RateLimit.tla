----------------------------- MODULE RateLimit -----------------------------
(***************************************************************************)
(* The token bucket of one key: rate_limit.lua, check_limit and            *)
(* rate_limit_layer.  The fill rate is Limit / Window tokens per second,   *)
(* so tokens are counted in units of 1 / Window and the arithmetic is      *)
(* exact.  The script is atomic in Redis, but the time it works with was   *)
(* read by the replica before it was sent: scripts of different requests   *)
(* see clocks that differ and may go back.                                 *)
(***************************************************************************)
EXTENDS Integers, Sequences

CONSTANTS
    Limit,      \* requests per window, the capacity of the bucket
    Window,     \* length of the window in seconds
    Ttl,        \* seconds after its last write at which the key expires
    Drift,      \* how far a clock may be behind when the script runs
    MaxTime,    \* bound: seconds
    MaxLog      \* bound: requests admitted since the keys were lost

ASSUME RateAssumption ==
    /\ Limit \in Nat \ {0} /\ Window \in Nat \ {0}
    /\ Drift \in Nat /\ Ttl \in Nat /\ Ttl >= Window + Drift
    /\ MaxTime \in Nat /\ MaxLog \in Nat

VARIABLES
    time,     \* seconds since the start
    present,  \* whether the key exists; its fields have no meaning if not
    tokens,   \* its tokens, in units of 1 / Window
    last,     \* its last_update
    written,  \* when it was written, for its TTL
    setback,  \* history: the seconds by which clocks have gone back
    log,      \* history: clock plus setback of each admitted request
    promise   \* history: when the latest answer said the bucket is full

bucket == <<present, tokens, last, written>>
rateVars == <<time, bucket, setback, log, promise>>

Token == Window
Full == Limit * Window

RateInit ==
    /\ time = 0
    /\ present = FALSE /\ tokens = 0 /\ last = 0 /\ written = 0
    /\ setback = 0 /\ log = <<>> /\ promise = 0

-----------------------------------------------------------------------------
\* math.max(0, now - last_update)
\* (Mutant: the distance of the two times.)
Distance(now) == IF now > last THEN now - last ELSE last - now
Elapsed(now) == IF now > last THEN now - last ELSE 0

\* (Mutant: the bucket is not capped.)
Uncapped(now) == IF present THEN tokens + Limit * Elapsed(now) ELSE Full
Current(now) ==
    IF ~present \/ tokens + Limit * Elapsed(now) > Full
    THEN Full
    ELSE tokens + Limit * Elapsed(now)

\* reset_after, for the tokens that are left.
\* (Mutant: rounded down.)
RoundedDown(rest) == (Full - rest) \div Limit
ResetAfter(rest) == (Full - rest + Limit - 1) \div Limit

Back(now) == IF log # <<>> /\ now < last THEN last - now ELSE 0

Admit(now) ==
    /\ Current(now) >= Token /\ Len(log) < MaxLog
    /\ present' = TRUE
    /\ tokens' = Current(now) - Token
    /\ last' = now
    /\ written' = time
    /\ setback' = setback + Back(now)
    /\ log' = Append(log, now + setback')
    /\ promise' = now + ResetAfter(Current(now) - Token)
    /\ UNCHANGED time

\* Nothing is stored.  A reset time counted from a clock that is behind the
\* last update is not kept as a promise.
Refuse(now) ==
    /\ Current(now) < Token
    /\ promise' = IF now < last THEN promise ELSE now + ResetAfter(Current(now))
    /\ UNCHANGED <<time, bucket, setback, log>>

\* Redis is away or its answer is lost: the request passes.
Unmetered == UNCHANGED rateVars

Clocks == {n \in 0..time : n >= time - Drift}

Passes == Unmetered \/ \E now \in Clocks : Admit(now)

Rejected == \E now \in Clocks : Refuse(now)

Expire ==
    /\ present /\ time - written >= Ttl
    /\ present' = FALSE
    /\ UNCHANGED <<time, tokens, last, written, setback, log, promise>>

\* Redis restarts without its keys; what it has admitted no longer counts.
Forget ==
    /\ log # <<>>
    /\ present' = FALSE
    /\ log' = <<>> /\ setback' = 0
    /\ UNCHANGED <<time, tokens, last, written, promise>>

Tick == time < MaxTime /\ time' = time + 1 /\ UNCHANGED <<bucket, setback, log, promise>>

RateNext == Passes \/ Rejected \/ Expire \/ Forget \/ Tick

RateSpec == RateInit /\ [][RateNext]_rateVars

-----------------------------------------------------------------------------
RateTypeOK ==
    /\ time \in Nat /\ last \in Nat /\ written \in Nat
    /\ present \in BOOLEAN
    /\ tokens \in 0..Full
    /\ setback \in Nat
    /\ log \in Seq(Nat)
    /\ promise \in Nat

(***************************************************************************)
(* In any stretch of requests that the limiter admitted (those that passed *)
(* because it could not be reached are counted nowhere, in the code        *)
(* neither) there are no more than one bucket plus what was refilled from  *)
(* its first to its last request, whatever the clocks of the replicas do,  *)
(* also when the key has expired in between: each second by which a clock  *)
(* goes back is refilled once more, nothing else is.                       *)
(***************************************************************************)
RateBounded ==
    \A j \in 1..Len(log) : \A i \in 1..j :
        (j - i + 1) * Token <= Full + Limit * (log[j] - log[i])

(***************************************************************************)
(* Retry-After and X-RateLimit-Reset: once the time has come that the      *)
(* latest answer named, the bucket is full again, unless another request   *)
(* was admitted meanwhile (which then gave the latest answer).  A refusal  *)
(* by a clock that is behind the last update does not count: its time is   *)
(* too early by as much.                                                   *)
(***************************************************************************)
ResetHonored == Current(promise) >= Full
=============================================================================
