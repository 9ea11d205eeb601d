------------------------- MODULE ContentValidation -------------------------
(***************************************************************************)
(* validate_user and validate_content of HttpExternalValidator, on top of  *)
(* the CircuitBreaker they share: results are cached in Redis, and the     *)
(* set single_flight_lock lets one request per content ask its service     *)
(* while the others sleep 50 ms and look at the cache again.  A request is *)
(* dropped at an await when its client disconnects.                        *)
(***************************************************************************)
EXTENDS CircuitBreaker, FiniteSets

CONSTANTS
    Contents,    \* (content type, content id) pairs
    Configured,  \* the contents whose type has a service URL
    MaxDrops     \* bound: requests dropped at an await

ASSUME ContentsAssumption ==
    Configured \subseteq Contents /\ Contents \cap Calls = {} /\ MaxDrops \in Nat

VARIABLES
    cache,     \* cached validation results, by key
    busy,      \* single_flight_lock
    known,     \* the tokens and contents that their service knows
    wants,     \* the content each ContentCall asks for
    vat,       \* the step each request is at
    answer,    \* the result of each request, once it has one
    dropped    \* requests dropped at an await

validationVars == <<cache, busy, known, wants, vat, answer, dropped>>
allVars == <<breakerVars, validationVars>>

\* Each user has a token of their own.
Keys == ProfileCalls \cup Contents
KeyOf(r) == IF r \in ProfileCalls THEN r ELSE wants[r]

ValidationInit ==
    /\ BreakerInit
    /\ cache = [k \in Keys |-> "none"]
    /\ busy = {}
    /\ known \in SUBSET Keys
    /\ wants \in [ContentCalls -> Contents]
    /\ vat = [r \in Calls |-> "peek"]
    /\ answer = [r \in Calls |-> "none"]
    /\ dropped = {}

Goto(r, label) == vat' = [vat EXCEPT ![r] = label]
Answer(r, a) == answer' = [answer EXCEPT ![r] = a]

-----------------------------------------------------------------------------
\* The results a cached entry stands for: validate_user ignores a NotFound.
Usable(r) == IF r \in ProfileCalls THEN {"valid"} ELSE {"valid", "notfound"}

PeekCached(r) ==
    /\ vat[r] = "peek"
    /\ cache[KeyOf(r)] \in Usable(r)
    /\ Goto(r, "end")
    /\ Answer(r, cache[KeyOf(r)])
    /\ UNCHANGED <<breakerVars, cache, busy, known, wants, dropped>>

\* Nothing usable is cached or it has expired, or Redis does not answer.
PeekNothing(r) ==
    /\ vat[r] = "peek"
    /\ IF r \in ContentCalls
       THEN Goto(r, "claim") /\ UNCHANGED at
       ELSE Goto(r, "call") /\ Begin(r)
    /\ UNCHANGED <<breaker, up, checks, reply, cache, busy, known, wants, answer, dropped>>

\* single_flight_lock.insert(cache_key); an unknown content type has no URL
\* to call.  (Mutant: the key is registered whoever has it.)
NobodyBusy(k) == TRUE
Free(k) == k \notin busy

Claim(r) ==
    /\ vat[r] = "claim"
    /\ Free(KeyOf(r))
    /\ busy' = busy \cup {KeyOf(r)}
    /\ IF KeyOf(r) \in Configured
       THEN Goto(r, "call") /\ Begin(r) /\ UNCHANGED answer
       ELSE Goto(r, "release") /\ Answer(r, "unknown") /\ UNCHANGED at
    /\ UNCHANGED <<breaker, up, checks, reply, cache, known, wants, dropped>>

ClaimBusy(r) ==
    /\ vat[r] = "claim"
    /\ ~Free(KeyOf(r))
    /\ Goto(r, "sleep")
    /\ UNCHANGED <<breakerVars, cache, busy, known, wants, answer, dropped>>

Wake(r) ==
    /\ vat[r] = "sleep"
    /\ Goto(r, "peek")
    /\ UNCHANGED <<breakerVars, cache, busy, known, wants, answer, dropped>>

\* The services answer for what they know.
Ask(r) ==
    /\ \E outcome \in Outcomes(r) :
         /\ outcome = "ok" => KeyOf(r) \in known
         /\ outcome = "notfound" => KeyOf(r) \notin known
         /\ Send(r, outcome)
    /\ UNCHANGED validationVars

\* (Mutant: a refusal of the breaker is passed on as it is.)
RefusalShown(r) == IF reply[r] = "rejected" THEN "rejected" ELSE "unavailable"
Result(r) ==
    CASE reply[r] = "ok" -> "valid"
      [] reply[r] = "notfound" -> "notfound"
      [] OTHER -> "unavailable"

\* A success is cached, and of a content that it does not exist.
\* (Mutant: an unavailable service is cached as a content not found.)
CacheAll(r) == {"valid", "notfound", "unavailable"}
Cacheable(r) == Usable(r)

Collect(r) ==
    /\ vat[r] = "call"
    /\ Take(r)
    /\ Answer(r, Result(r))
    /\ Goto(r, CASE Result(r) \in Cacheable(r) -> "cache"
                 [] Result(r) \notin Cacheable(r) /\ r \in ContentCalls -> "release"
                 [] OTHER -> "end")
    /\ UNCHANGED <<breaker, up, seen, expired, cache, busy, known, wants, dropped>>

\* SET .. EX; an error is ignored.
Save(r) ==
    /\ vat[r] = "cache"
    /\ \/ UNCHANGED cache
       \/ cache' = [cache EXCEPT ![KeyOf(r)] =
                      IF answer[r] = "valid" THEN "valid" ELSE "notfound"]
    /\ Goto(r, IF r \in ContentCalls THEN "release" ELSE "end")
    /\ UNCHANGED <<breakerVars, busy, known, wants, answer, dropped>>

\* (Mutant: an error returns before the key is removed.)
KeptOnError(r) == IF answer[r] = "unavailable" THEN busy ELSE busy \ {KeyOf(r)}
Removed(r) == busy \ {KeyOf(r)}

Release(r) ==
    /\ vat[r] = "release"
    /\ busy' = Removed(r)
    /\ Goto(r, "end")
    /\ UNCHANGED <<breakerVars, cache, known, wants, answer, dropped>>

\* A user sends the next request with the same token.
Again(r) ==
    /\ r \in ProfileCalls
    /\ vat[r] = "end"
    /\ Goto(r, "peek")
    /\ Answer(r, "none")
    /\ UNCHANGED <<breakerVars, cache, busy, known, wants, dropped>>

\* The client disconnects while the handler awaits Redis, the sleep or the
\* service; the key it had registered stays.
Awaits(r) == vat[r] \in {"peek", "sleep", "cache"} \/ (vat[r] = "call" /\ at[r] = "send")

Disconnect(r) ==
    /\ r \in ContentCalls
    /\ Cardinality(dropped) < MaxDrops
    /\ Awaits(r)
    /\ dropped' = dropped \cup {r}
    /\ Goto(r, "end")
    /\ To(r, "idle")
    /\ verdict' = [verdict EXCEPT ![r] = "closed"]
    /\ UNCHANGED <<breaker, up, seen, expired, reply, cache, busy, known, wants, answer>>

-----------------------------------------------------------------------------
Own(r) ==
    \/ PeekCached(r) \/ PeekNothing(r) \/ Claim(r) \/ ClaimBusy(r) \/ Wake(r)
    \/ Collect(r) \/ Save(r) \/ Release(r) \/ Again(r)

InBreaker(r) == (Check(r) \/ Record(r)) /\ UNCHANGED validationVars

ValidationStep(r) == Own(r) \/ InBreaker(r) \/ Ask(r)

ValidationTick == Tick /\ UNCHANGED validationVars

ValidationNext ==
    \/ \E r \in Calls : ValidationStep(r) \/ Disconnect(r)
    \/ ValidationTick
    \/ \E s \in Services : Switch(s) /\ UNCHANGED validationVars

ValidationSpec == ValidationInit /\ [][ValidationNext]_allVars

\* Tasks run, Redis and the services answer or time out, and time passes.
ValidationFairSpec ==
    /\ ValidationSpec
    /\ \A r \in Calls : WF_allVars(ValidationStep(r))
    /\ WF_allVars(ValidationTick)

-----------------------------------------------------------------------------
ValidationTypeOK ==
    /\ BreakerTypeOK
    /\ cache \in [Keys -> {"none", "valid", "notfound"}]
    /\ busy \in SUBSET Contents
    /\ known \in SUBSET Keys
    /\ wants \in [ContentCalls -> Contents]
    /\ vat \in [Calls -> {"peek", "claim", "sleep", "call", "cache", "release", "end"}]
    /\ \A r \in ProfileCalls : vat[r] \in {"peek", "call", "cache", "end"}
    /\ answer \in [Calls -> {"none", "valid", "notfound", "unavailable", "unknown"}]
    /\ dropped \in SUBSET ContentCalls

(***************************************************************************)
(* At most one request at a time asks the service of a content, and while  *)
(* it does the content's key is registered.                                *)
(***************************************************************************)
OneExternalCall ==
    \A r \in ContentCalls : vat[r] \in {"call", "cache", "release"} =>
        /\ KeyOf(r) \in busy
        /\ \A s \in ContentCalls :
               KeyOf(s) = KeyOf(r) /\ vat[s] \in {"call", "cache", "release"} => s = r

(***************************************************************************)
(* A registered key has an owner: a request that is still to remove it, on *)
(* whatever path its call ended, or one that was dropped at an await.  No  *)
(* other request waits for a key that nobody removes.                      *)
(***************************************************************************)
BusyHasOwner ==
    \A k \in busy : \E r \in ContentCalls :
        KeyOf(r) = k /\ (vat[r] \in {"call", "cache", "release"} \/ r \in dropped)

(***************************************************************************)
(* What the cache and the answers say of a key is what its service said:   *)
(* no outage, refusal of the breaker or unreadable reply is ever cached or *)
(* answered as "exists" or "does not exist".                               *)
(***************************************************************************)
OnlyTruthCached ==
    /\ \A k \in Keys : /\ cache[k] = "valid" => k \in known
                       /\ cache[k] = "notfound" => k \notin known
    /\ \A r \in Calls : /\ answer[r] = "valid" => KeyOf(r) \in known
                        /\ answer[r] = "notfound" => KeyOf(r) \notin known

(***************************************************************************)
(* After an outage, user requests get past the breaker again: once both    *)
(* services stay up, no user is refused for ever.                          *)
(***************************************************************************)
PastBreaker(r) == at[r] = "send" \/ answer[r] = "valid"

Recovers == <>[](up = Services) => \A r \in ProfileCalls : []<>PastBreaker(r)

(***************************************************************************)
(* If no client disconnects, every validation of a content ends, whatever  *)
(* the services, the breaker and the cache do and however many requests    *)
(* sleep on the same key.                                                  *)
(***************************************************************************)
ContentAnswered ==
    [](dropped = {}) => \A r \in ContentCalls : <>(vat[r] = "end")

(***************************************************************************)
(* Readme.md:56, "only the first request performs the external call while  *)
(* others wait to consume the result from the cache": whoever sleeps gets  *)
(* a result some time.                                                     *)
(***************************************************************************)
WaitersServed ==
    \A r \in ContentCalls : vat[r] = "sleep" ~> vat[r] = "end"
=============================================================================
