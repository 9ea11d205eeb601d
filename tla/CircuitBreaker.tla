--------------------------- MODULE CircuitBreaker ---------------------------
(***************************************************************************)
(* CircuitBreaker (infrastructure/clients/circuit_breaker.rs), the one     *)
(* breaker through which HttpExternalValidator calls the profile service   *)
(* and all content services.  Its three fields are separate atomics: a step *)
(* is one access to a field, and the calls of all requests interleave      *)
(* between any two.  last_failure_time is kept as the seconds since then.  *)
(***************************************************************************)
EXTENDS Integers

CONSTANTS
    ProfileCalls,  \* requests that validate a user
    ContentCalls,  \* requests that validate a content
    Threshold,     \* CB_THRESHOLD
    Timeout        \* CB_TIMEOUT_SECS

ASSUME BreakerAssumption ==
    /\ Threshold \in Nat \ {0} /\ Timeout \in Nat
    /\ ProfileCalls \cap ContentCalls = {}

Calls == ProfileCalls \cup ContentCalls
Services == {"profile", "content"}
ServiceOf(c) == IF c \in ProfileCalls THEN "profile" ELSE "content"

VARIABLES
    state,     \* the last published verdict; it only decides what is published
    failures,  \* failures counted, up to Threshold: nothing reads beyond it
    age,       \* seconds since last_failure_time, up to Timeout
    up,        \* the services that answer
    at,        \* the access each call is at
    seen,      \* old_state of check_state
    expired,   \* now - last_error >= timeout
    verdict,   \* final_state of check_state
    reply,     \* what call returned
    streak     \* history: failures since a call last succeeded, up to Threshold

breaker == <<state, failures, age, streak>>
checks == <<seen, expired, verdict>>
breakerVars == <<breaker, up, at, checks, reply>>

States == {"closed", "open", "halfopen"}
Replies == {"none", "ok", "notfound", "garbled", "unavailable", "rejected"}

BreakerInit ==
    /\ state = "closed" /\ failures = 0 /\ age = Timeout /\ streak = 0
    /\ up \in SUBSET Services
    /\ at = [c \in Calls |-> "idle"]
    /\ seen = [c \in Calls |-> "closed"]
    /\ expired = [c \in Calls |-> FALSE]
    /\ verdict = [c \in Calls |-> "closed"]
    /\ reply = [c \in Calls |-> "none"]

To(c, label) == at' = [at EXCEPT ![c] = label]

\* Counters stop at the value beyond which nothing tells them apart.
Capped(n, cap) == IF n < cap THEN n + 1 ELSE cap

-----------------------------------------------------------------------------
(***************************************************************************)
(* call: check_state, then the request unless the breaker is open.         *)
(***************************************************************************)
LoadState(c) ==
    /\ at[c] = "state"
    /\ seen' = [seen EXCEPT ![c] = state]
    /\ To(c, "time")
    /\ UNCHANGED <<breaker, up, expired, verdict, reply>>

\* (Mutant: an open breaker never lets a call through again.)
NeverOver == FALSE
TimeoutOver == age >= Timeout

LoadTime(c) ==
    /\ at[c] = "time"
    /\ expired' = [expired EXCEPT ![c] = TimeoutOver]
    /\ To(c, "failures")
    /\ UNCHANGED <<breaker, up, seen, verdict, reply>>

Verdict(c) ==
    CASE failures < Threshold -> "closed"
      [] failures >= Threshold /\ expired[c] -> "halfopen"
      [] OTHER -> "open"

\* Where a call goes when check_state returns v.
Proceed(c, v) ==
    /\ To(c, IF v = "open" THEN "done" ELSE "send")
    /\ reply' = [reply EXCEPT ![c] = IF v = "open" THEN "rejected" ELSE "none"]

Decide(c) ==
    /\ at[c] = "failures"
    /\ verdict' = [verdict EXCEPT ![c] = Verdict(c)]
    /\ IF Verdict(c) = seen[c]
       THEN Proceed(c, Verdict(c))
       ELSE To(c, "publish") /\ UNCHANGED reply
    /\ seen' = [seen EXCEPT ![c] = "closed"]
    /\ expired' = [expired EXCEPT ![c] = FALSE]
    /\ UNCHANGED <<breaker, up>>

Publish(c) ==
    /\ at[c] = "publish"
    /\ state' = verdict[c]
    /\ IF verdict[c] = "closed"
       THEN To(c, "zero") /\ UNCHANGED reply
       ELSE Proceed(c, verdict[c])
    /\ UNCHANGED <<failures, age, up, checks, streak>>

\* The failures counted since Decide are lost here.
Zero(c) ==
    /\ at[c] = "zero"
    /\ failures' = 0
    /\ Proceed(c, "closed")
    /\ UNCHANGED <<state, age, up, checks, streak>>

\* What the service answers; a 5xx, a timeout or no connection is unavailable.
Outcomes(c) ==
    IF ServiceOf(c) \in up THEN {"ok", "notfound", "garbled"} ELSE {"unavailable"}

\* Only DependencyUnavailable is a failure.
\* (Mutant: any error is.)
AnyError(outcome) == outcome # "ok"
IsFailure(outcome) == outcome = "unavailable"

\* A success resets the failures, whatever the breaker has done meanwhile.
Send(c, outcome) ==
    /\ at[c] = "send"
    /\ outcome \in Outcomes(c)
    /\ IF outcome = "ok" THEN failures' = 0 /\ streak' = 0
                         ELSE UNCHANGED <<failures, streak>>
    /\ reply' = [reply EXCEPT ![c] = outcome]
    /\ To(c, IF IsFailure(outcome) THEN "count" ELSE "done")
    /\ UNCHANGED <<state, age, up, checks>>

CountFailure(c) ==
    /\ at[c] = "count"
    /\ failures' = Capped(failures, Threshold)
    /\ streak' = IF reply[c] = "unavailable" THEN Capped(streak, Threshold) ELSE streak
    /\ To(c, "stamp")
    /\ UNCHANGED <<state, age, up, checks, reply>>

Stamp(c) ==
    /\ at[c] = "stamp"
    /\ age' = 0
    /\ To(c, "done")
    /\ UNCHANGED <<state, failures, up, checks, reply, streak>>

\* A call begins, and its caller takes the result.
Begin(c) == at[c] = "idle" /\ To(c, "state")
Take(c) ==
    /\ at[c] = "done"
    /\ To(c, "idle")
    /\ reply' = [reply EXCEPT ![c] = "none"]
    /\ verdict' = [verdict EXCEPT ![c] = "closed"]

Tick ==
    /\ age < Timeout
    /\ age' = age + 1
    /\ UNCHANGED <<state, failures, streak, up, at, checks, reply>>

\* A service goes away or comes back.
Switch(s) ==
    /\ up' = IF s \in up THEN up \ {s} ELSE up \cup {s}
    /\ UNCHANGED <<breaker, at, checks, reply>>

Check(c) == LoadState(c) \/ LoadTime(c) \/ Decide(c) \/ Publish(c) \/ Zero(c)
Record(c) == CountFailure(c) \/ Stamp(c)

-----------------------------------------------------------------------------
BreakerTypeOK ==
    /\ state \in States
    /\ failures \in 0..Threshold
    /\ age \in 0..Timeout
    /\ up \in SUBSET Services
    /\ at \in [Calls -> {"idle", "state", "time", "failures", "publish", "zero",
                         "send", "count", "stamp", "done"}]
    /\ seen \in [Calls -> States]
    /\ expired \in [Calls -> BOOLEAN]
    /\ verdict \in [Calls -> States]
    /\ reply \in [Calls -> Replies]
    /\ streak \in 0..Threshold

(***************************************************************************)
(* A call is refused only after Threshold failures without a success in    *)
(* between, counted over all calls of all services, however the accesses   *)
(* of other calls to the three fields interleave.                          *)
(***************************************************************************)
OpensForAReason ==
    [][\A c \in Calls : verdict'[c] = "open" =>
            verdict[c] = "open" \/ streak = Threshold]_breakerVars
=============================================================================
