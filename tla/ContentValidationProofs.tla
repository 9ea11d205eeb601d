---------------------- MODULE ContentValidationProofs ----------------------
(***************************************************************************)
(* Proofs about ContentValidation and the CircuitBreaker under it, for any *)
(* number of requests, contents, drops and any threshold and timeout.      *)
(***************************************************************************)
EXTENDS ContentValidation, TLAPS

-----------------------------------------------------------------------------
(***************************************************************************)
(* Types                                                                   *)
(***************************************************************************)

\* A counter that stops at its cap stays in its range.
LEMMA CappedInRange ==
  ASSUME NEW cap \in Nat, NEW n \in 0..cap
  PROVE  Capped(n, cap) \in 0..cap
  BY DEF Capped

\* Every access of a call to the breaker keeps the types of its fields.
LEMMA BreakerAccessTyped ==
  ASSUME BreakerTypeOK, NEW c \in Calls,
         Check(c) \/ Record(c) \/ \E outcome \in Outcomes(c) : Send(c, outcome)
  PROVE  BreakerTypeOK'
  <1>0. Threshold \in Nat /\ Timeout \in Nat /\ 0 \in 0..Threshold
    BY BreakerAssumption
  <1> USE DEF BreakerTypeOK, breaker, checks, To, States
  <1>1. CASE LoadState(c)
    BY <1>1 DEF LoadState
  <1>2. CASE LoadTime(c)
    BY <1>2 DEF LoadTime, TimeoutOver
  <1>3. CASE Decide(c)
    <2>1. Verdict(c) \in States
      BY DEF Verdict
    <2>2. reply' \in [Calls -> Replies]
      BY <1>3 DEF Decide, Proceed, Replies
    <2>3. QED
      BY <1>3, <2>1, <2>2 DEF Decide, Proceed
  <1>4. CASE Publish(c)
    BY <1>4 DEF Publish, Proceed, Replies
  <1>5. CASE Zero(c)
    BY <1>0, <1>5 DEF Zero, Proceed, Replies
  <1>6. CASE CountFailure(c)
    BY <1>0, <1>6, CappedInRange DEF CountFailure
  <1>7. CASE Stamp(c)
    BY <1>0, <1>7 DEF Stamp
  <1>8. CASE \E outcome \in Outcomes(c) : Send(c, outcome)
    <2>1. PICK outcome \in Outcomes(c) : Send(c, outcome)
      BY <1>8
    <2>2. outcome \in Replies
      BY DEF Outcomes, Replies
    <2>3. QED
      BY <1>0, <2>1, <2>2 DEF Send
  <1>9. QED
    BY <1>1, <1>2, <1>3, <1>4, <1>5, <1>6, <1>7, <1>8 DEF Check, Record

\* Beginning a call, taking its result and dropping it keep the types too.
LEMMA BreakerEdgeTyped ==
  ASSUME BreakerTypeOK, NEW c \in Calls,
         \/ Begin(c) /\ UNCHANGED <<breaker, up, checks, reply>>
         \/ Take(c) /\ UNCHANGED <<breaker, up, seen, expired>>
         \/ UNCHANGED breakerVars
  PROVE  BreakerTypeOK'
  BY DEF BreakerTypeOK, breakerVars, breaker, checks, Begin, Take, To, States, Replies

\* Ticks and switched services keep the types of the breaker.
LEMMA BreakerWorldTyped ==
  ASSUME BreakerTypeOK, Tick \/ \E s \in Services : Switch(s)
  PROVE  BreakerTypeOK'
  <1>1. CASE Tick
    BY <1>1, BreakerAssumption DEF Tick, BreakerTypeOK, checks
  <1>2. CASE \E s \in Services : Switch(s)
    BY <1>2 DEF Switch, BreakerTypeOK, breaker, checks
  <1>3. QED
    BY <1>1, <1>2

\* The content and the result keys are keys of the cache.
LEMMA KeysTyped ==
  ASSUME wants \in [ContentCalls -> Contents], NEW r \in Calls
  PROVE  /\ KeyOf(r) \in Keys
         /\ r \in ContentCalls => KeyOf(r) = wants[r] /\ KeyOf(r) \in Contents
         /\ r \notin ContentCalls => r \in ProfileCalls
  BY BreakerAssumption DEF KeyOf, Keys, Calls

\* Every variable of the validator and its breaker keeps its type.
THEOREM ValidationTypeCorrect == ValidationSpec => []ValidationTypeOK
  <1>1. ValidationInit => ValidationTypeOK
    BY BreakerAssumption
    DEF ValidationInit, BreakerInit, Calls, ValidationTypeOK, BreakerTypeOK, States, Replies
  <1>2. ValidationTypeOK /\ [ValidationNext]_allVars => ValidationTypeOK'
    <2> SUFFICES ASSUME ValidationTypeOK, [ValidationNext]_allVars
                 PROVE  ValidationTypeOK'
      OBVIOUS
    <2> USE BreakerAssumption DEF ValidationTypeOK, Goto, Answer
    <2>1. ASSUME NEW r \in Calls, PeekCached(r) PROVE ValidationTypeOK'
      <3>1. cache[KeyOf(r)] \in {"valid", "notfound"}
        BY <2>1 DEF PeekCached, Usable
      <3>2. QED
        BY <2>1, <3>1, BreakerEdgeTyped DEF PeekCached
    <2>2. ASSUME NEW r \in Calls, PeekNothing(r) PROVE ValidationTypeOK'
      <3>1. BreakerTypeOK'
        <4>1. CASE UNCHANGED at
          BY <2>2, <4>1, BreakerEdgeTyped DEF PeekNothing, breakerVars
        <4>2. CASE Begin(r)
          BY <2>2, <4>2, BreakerEdgeTyped DEF PeekNothing
        <4>3. QED
          BY <2>2, <4>1, <4>2 DEF PeekNothing
      <3>2. QED
        BY <2>2, <3>1 DEF PeekNothing, Calls
    <2>3. ASSUME NEW r \in Calls, Claim(r) PROVE ValidationTypeOK'
      <3>0. r \in ContentCalls
        BY <2>3 DEF Claim, Calls
      <3>1. BreakerTypeOK'
        <4>1. CASE UNCHANGED at
          BY <2>3, <4>1, BreakerEdgeTyped DEF Claim, breakerVars
        <4>2. CASE Begin(r)
          BY <2>3, <4>2, BreakerEdgeTyped DEF Claim
        <4>3. QED
          BY <2>3, <4>1, <4>2 DEF Claim
      <3>2. busy' \in SUBSET Contents
        BY <2>3, <3>0, KeysTyped DEF Claim
      <3>3. QED
        BY <2>3, <3>0, <3>1, <3>2 DEF Claim, Calls
    <2>4. ASSUME NEW r \in Calls, ClaimBusy(r) \/ Wake(r) \/ Release(r) \/ Again(r)
          PROVE  ValidationTypeOK'
      BY <2>4, BreakerEdgeTyped DEF Calls, ClaimBusy, Wake, Release, Again, Removed
    <2>5. ASSUME NEW r \in Calls, Collect(r) PROVE ValidationTypeOK'
      <3>1. BreakerTypeOK'
        BY <2>5, BreakerEdgeTyped DEF Collect
      <3>2. Result(r) \in {"valid", "notfound", "unavailable"}
        BY DEF Result
      <3>3. QED
        BY <2>5, <3>1, <3>2 DEF Collect
    <2>6. ASSUME NEW r \in Calls, Save(r) PROVE ValidationTypeOK'
      BY <2>6, BreakerEdgeTyped, KeysTyped DEF Save
    <2>7. ASSUME NEW r \in Calls, InBreaker(r) \/ Ask(r) PROVE ValidationTypeOK'
      BY <2>7, BreakerAccessTyped DEF InBreaker, Ask, validationVars
    <2>8. ASSUME NEW r \in Calls, Disconnect(r) PROVE ValidationTypeOK'
      BY <2>8 DEF Disconnect, BreakerTypeOK, breaker, To, States
    <2>9. ASSUME ValidationTick \/ \E s \in Services : Switch(s) /\ UNCHANGED validationVars
          PROVE  ValidationTypeOK'
      BY <2>9, BreakerWorldTyped DEF ValidationTick, validationVars
    <2>10. CASE UNCHANGED allVars
      BY <2>10 DEF allVars, breakerVars, breaker, checks, validationVars, BreakerTypeOK
    <2>11. QED
      BY <2>1, <2>2, <2>3, <2>4, <2>5, <2>6, <2>7, <2>8, <2>9, <2>10
      DEF ValidationNext, ValidationStep, Own
  <1>3. QED
    BY <1>1, <1>2, PTL DEF ValidationSpec

-----------------------------------------------------------------------------
(***************************************************************************)
(* One call per content                                                    *)
(***************************************************************************)
Holding == {"call", "cache", "release"}

\* A step of one request that registers nothing it had not, and takes no
\* key away, keeps the holders apart.
LEMMA HoldersKept ==
  ASSUME ValidationTypeOK, OneExternalCall, NEW r \in Calls, NEW label,
         vat' = [vat EXCEPT ![r] = label],
         UNCHANGED <<busy, wants>>,
         label \in Holding => vat[r] \in Holding \/ r \in ProfileCalls
  PROVE  OneExternalCall'
  <1>1. \A s \in ContentCalls :
          vat'[s] \in Holding => vat[s] \in Holding
    BY BreakerAssumption DEF ValidationTypeOK, Calls
  <1>2. QED
    BY <1>1 DEF OneExternalCall, Holding, KeyOf

\* A content's service is asked by at most one request at a time.
THEOREM OneCallPerContent == ValidationSpec => []OneExternalCall
  <1>1. ValidationInit => OneExternalCall
    BY DEF ValidationInit, OneExternalCall, Calls
  <1>2. ValidationTypeOK /\ OneExternalCall /\ [ValidationNext]_allVars => OneExternalCall'
    <2> SUFFICES ASSUME ValidationTypeOK, OneExternalCall, [ValidationNext]_allVars
                 PROVE  OneExternalCall'
      OBVIOUS
    <2> USE DEF Goto
    <2>1. ASSUME NEW r \in Calls, PeekCached(r) \/ ClaimBusy(r) \/ Wake(r) \/ Again(r)
          PROVE  OneExternalCall'
      BY <2>1, HoldersKept DEF PeekCached, ClaimBusy, Wake, Again, Holding
    <2>2. ASSUME NEW r \in Calls, PeekNothing(r) PROVE OneExternalCall'
      BY <2>2, HoldersKept DEF PeekNothing, Holding, Calls
    <2>3. ASSUME NEW r \in Calls, Claim(r) PROVE OneExternalCall'
      <3>1. /\ r \in ContentCalls /\ KeyOf(r) \notin busy
            /\ busy' = busy \cup {KeyOf(r)}
            /\ wants' = wants
        BY <2>3, BreakerAssumption DEF Claim, Free, ValidationTypeOK, Calls
      <3>2. \A s \in ContentCalls : s # r => vat'[s] = vat[s]
        BY <2>3 DEF Claim, ValidationTypeOK, Calls
      <3>3. QED
        BY <3>1, <3>2 DEF OneExternalCall, KeyOf
    <2>4. ASSUME NEW r \in Calls, Collect(r) PROVE OneExternalCall'
      BY <2>4, HoldersKept DEF Collect, Holding
    <2>5. ASSUME NEW r \in Calls, Save(r) PROVE OneExternalCall'
      BY <2>5, HoldersKept DEF Save, Holding, Calls
    <2>6. ASSUME NEW r \in Calls, Release(r) PROVE OneExternalCall'
      <3>1. r \in ContentCalls
        BY <2>6 DEF Release, ValidationTypeOK, Calls
      <3>2. /\ busy' = busy \ {KeyOf(r)} /\ wants' = wants
            /\ \A s \in ContentCalls : vat'[s] = IF s = r THEN "end" ELSE vat[s]
        BY <2>6 DEF Release, Removed, ValidationTypeOK, Calls
      <3>3. QED
        BY <2>6, <3>1, <3>2 DEF OneExternalCall, KeyOf, Release
    <2>7. ASSUME NEW r \in Calls, Disconnect(r) PROVE OneExternalCall'
      BY <2>7, HoldersKept DEF Disconnect, Holding
    <2>8. ASSUME UNCHANGED validationVars PROVE OneExternalCall'
      BY <2>8 DEF OneExternalCall, KeyOf, validationVars
    <2>9. QED
      BY <2>1, <2>2, <2>3, <2>4, <2>5, <2>6, <2>7, <2>8
      DEF ValidationNext, ValidationStep, Own, InBreaker, Ask, ValidationTick, allVars
  <1>3. QED
    BY <1>1, <1>2, ValidationTypeCorrect, PTL DEF ValidationSpec

-----------------------------------------------------------------------------
(***************************************************************************)
(* Registered keys have an owner                                           *)
(***************************************************************************)

\* A step of one request that registers nothing keeps the owners, if the
\* request still holds what it held or was dropped.
LEMMA OwnersKept ==
  ASSUME ValidationTypeOK, BusyHasOwner, NEW r \in Calls, NEW label,
         vat' = [vat EXCEPT ![r] = label],
         UNCHANGED <<busy, wants>>,
         dropped \subseteq dropped',
         r \in ContentCalls /\ vat[r] \in Holding => label \in Holding \/ r \in dropped'
  PROVE  BusyHasOwner'
  <1> SUFFICES ASSUME NEW k \in busy
               PROVE  \E s \in ContentCalls :
                        KeyOf(s)' = k /\ (vat'[s] \in Holding \/ s \in dropped')
    BY DEF BusyHasOwner, Holding
  <1>1. PICK s \in ContentCalls : KeyOf(s) = k /\ (vat[s] \in Holding \/ s \in dropped)
    BY DEF BusyHasOwner, Holding
  <1>2. KeyOf(s)' = k
    BY <1>1 DEF KeyOf
  <1>3. vat'[s] = IF s = r THEN label ELSE vat[s]
    BY DEF ValidationTypeOK, Calls
  <1>4. QED
    BY <1>1, <1>2, <1>3

\* A registered key is removed by a request that is still on its way, or was
\* registered by one that was dropped.
THEOREM KeysHaveOwners == ValidationSpec => []BusyHasOwner
  <1>1. ValidationInit => BusyHasOwner
    BY DEF ValidationInit, BusyHasOwner
  <1>2. ValidationTypeOK /\ BusyHasOwner /\ [ValidationNext]_allVars => BusyHasOwner'
    <2> SUFFICES ASSUME ValidationTypeOK, BusyHasOwner, [ValidationNext]_allVars
                 PROVE  BusyHasOwner'
      OBVIOUS
    <2> USE DEF Goto
    <2>1. ASSUME NEW r \in Calls,
                 PeekCached(r) \/ ClaimBusy(r) \/ Wake(r) \/ Again(r) \/ PeekNothing(r)
          PROVE  BusyHasOwner'
      <3>1. r \in ContentCalls => vat[r] \notin Holding
        BY <2>1, BreakerAssumption
        DEF PeekCached, ClaimBusy, Wake, Again, PeekNothing, Holding
      <3>2. QED
        BY <2>1, <3>1, OwnersKept DEF PeekCached, ClaimBusy, Wake, Again, PeekNothing
    <2>2. ASSUME NEW r \in Calls, Claim(r) PROVE BusyHasOwner'
      <3>1. /\ r \in ContentCalls /\ vat[r] \notin Holding
            /\ busy' = busy \cup {KeyOf(r)}
            /\ UNCHANGED <<wants, dropped>>
            /\ vat'[r] \in Holding
            /\ \A s \in ContentCalls : s # r => vat'[s] = vat[s]
        BY <2>2 DEF Claim, ValidationTypeOK, Calls, Holding
      <3>2. \A s \in ContentCalls : KeyOf(s)' = KeyOf(s)
        BY <3>1 DEF KeyOf
      <3>3. QED
        BY <3>1, <3>2 DEF BusyHasOwner, Holding
    <2>3. ASSUME NEW r \in Calls, Collect(r) PROVE BusyHasOwner'
      BY <2>3, OwnersKept DEF Collect, Holding
    <2>4. ASSUME NEW r \in Calls, Save(r) PROVE BusyHasOwner'
      BY <2>4, OwnersKept DEF Save, Holding
    <2>5. ASSUME NEW r \in Calls, Release(r) PROVE BusyHasOwner'
      <3>1. /\ busy' = busy \ {KeyOf(r)} /\ UNCHANGED <<wants, dropped>>
            /\ \A s \in ContentCalls : s # r => vat'[s] = vat[s]
        BY <2>5 DEF Release, Removed, ValidationTypeOK, Calls
      <3>2. \A s \in ContentCalls : KeyOf(s)' = KeyOf(s)
        BY <3>1 DEF KeyOf
      <3>3. QED
        BY <3>1, <3>2 DEF BusyHasOwner
    <2>6. ASSUME NEW r \in Calls, Disconnect(r) PROVE BusyHasOwner'
      BY <2>6, OwnersKept DEF Disconnect
    <2>7. ASSUME UNCHANGED validationVars PROVE BusyHasOwner'
      BY <2>7 DEF BusyHasOwner, KeyOf, validationVars
    <2>8. QED
      BY <2>1, <2>2, <2>3, <2>4, <2>5, <2>6, <2>7
      DEF ValidationNext, ValidationStep, Own, InBreaker, Ask, ValidationTick, allVars
  <1>3. QED
    BY <1>1, <1>2, ValidationTypeCorrect, PTL DEF ValidationSpec

-----------------------------------------------------------------------------
(***************************************************************************)
(* What is cached and answered                                             *)
(***************************************************************************)

\* What a service replied, and what a request is about to cache, is so.
TruthInv ==
  /\ OnlyTruthCached
  /\ \A r \in Calls : /\ reply[r] = "ok" => KeyOf(r) \in known
                      /\ reply[r] = "notfound" => KeyOf(r) \notin known
                      /\ vat[r] = "cache" => answer[r] \in Usable(r)

\* The accesses to the breaker other than the call itself bring no replies.
LEMMA NoReplies ==
  ASSUME BreakerTypeOK, NEW c \in Calls,
         \/ Check(c) \/ Record(c)
         \/ Begin(c) /\ UNCHANGED reply
         \/ Take(c)
  PROVE  \A d \in Calls : reply'[d] \in {"ok", "notfound"} => reply'[d] = reply[d]
  BY DEF BreakerTypeOK, Check, Record, LoadState, LoadTime, Decide, Publish, Zero,
         CountFailure, Stamp, Take, Proceed

\* Nothing but what the services said is cached or answered.
THEOREM TruthCached == ValidationSpec => []OnlyTruthCached
  <1>1. ValidationInit => TruthInv
    BY DEF ValidationInit, BreakerInit, TruthInv, OnlyTruthCached
  <1>2. ValidationTypeOK /\ TruthInv /\ [ValidationNext]_allVars => TruthInv'
    <2> SUFFICES ASSUME ValidationTypeOK, TruthInv, [ValidationNext]_allVars
                 PROVE  TruthInv'
      OBVIOUS
    <2> USE DEF Goto, Answer
    <2>0. BreakerTypeOK /\ \A r \in Calls : KeyOf(r) \in Keys
      BY KeysTyped DEF ValidationTypeOK
    <2>1. ASSUME NEW r \in Calls, PeekCached(r) PROVE TruthInv'
      <3>1. /\ cache[KeyOf(r)] = "valid" => KeyOf(r) \in known
            /\ cache[KeyOf(r)] = "notfound" => KeyOf(r) \notin known
        BY <2>0 DEF TruthInv, OnlyTruthCached
      <3>2. QED
        BY <2>1, <3>1 DEF PeekCached, TruthInv, OnlyTruthCached, KeyOf, Usable,
                         ValidationTypeOK, breakerVars
    <2>2. ASSUME NEW r \in Calls,
                 PeekNothing(r) \/ ClaimBusy(r) \/ Wake(r) \/ Release(r) \/ Again(r)
          PROVE  TruthInv'
      BY <2>2 DEF PeekNothing, ClaimBusy, Wake, Release, Again, TruthInv,
                  OnlyTruthCached, KeyOf, Usable, ValidationTypeOK, breakerVars
    <2>3. ASSUME NEW r \in Calls, Claim(r) PROVE TruthInv'
      BY <2>3 DEF Claim, TruthInv, OnlyTruthCached, KeyOf, Usable, ValidationTypeOK
    <2>4. ASSUME NEW r \in Calls, Collect(r) PROVE TruthInv'
      <3>1. /\ Result(r) = "valid" => KeyOf(r) \in known
            /\ Result(r) = "notfound" => KeyOf(r) \notin known
        BY DEF Result, TruthInv
      <3>2. UNCHANGED <<cache, known, wants>>
        BY <2>4 DEF Collect
      <3>3. \A d \in Calls : /\ reply'[d] = "ok" => KeyOf(d)' \in known'
                             /\ reply'[d] = "notfound" => KeyOf(d)' \notin known'
        BY <2>0, <2>4, <3>2, NoReplies DEF Collect, TruthInv, KeyOf
      <3>4. OnlyTruthCached'
        BY <2>4, <3>1, <3>2 DEF Collect, TruthInv, OnlyTruthCached, KeyOf, ValidationTypeOK
      <3>5. \A d \in Calls : vat'[d] = "cache" => answer'[d] \in Usable(d)
        BY <2>4 DEF Collect, Cacheable, TruthInv, ValidationTypeOK
      <3>6. QED
        BY <3>3, <3>4, <3>5 DEF TruthInv, Usable
    <2>5. ASSUME NEW r \in Calls, Save(r) PROVE TruthInv'
      <3>1. /\ answer[r] \in Usable(r)
            /\ answer[r] = "valid" => KeyOf(r) \in known
            /\ answer[r] = "notfound" => KeyOf(r) \in Contents \ known
        BY <2>0, <2>5, KeysTyped
        DEF Save, TruthInv, OnlyTruthCached, Usable, Calls, ValidationTypeOK
      <3>2. QED
        BY <2>5, <3>1 DEF Save, TruthInv, OnlyTruthCached, KeyOf, Usable,
                         ValidationTypeOK, breakerVars
    <2>6. ASSUME NEW r \in Calls, Ask(r) PROVE TruthInv'
      BY <2>0, <2>6 DEF Ask, Send, TruthInv, OnlyTruthCached, KeyOf, Usable,
                        BreakerTypeOK, validationVars
    <2>7. ASSUME NEW r \in Calls, InBreaker(r) PROVE TruthInv'
      BY <2>0, <2>7, NoReplies
      DEF InBreaker, TruthInv, OnlyTruthCached, KeyOf, Usable, validationVars
    <2>8. ASSUME NEW r \in Calls, Disconnect(r) PROVE TruthInv'
      BY <2>8 DEF Disconnect, TruthInv, OnlyTruthCached, KeyOf, Usable, ValidationTypeOK
    <2>9. ASSUME UNCHANGED <<validationVars, reply>> PROVE TruthInv'
      BY <2>9 DEF TruthInv, OnlyTruthCached, KeyOf, Usable, validationVars
    <2>10. QED
      BY <2>1, <2>2, <2>3, <2>4, <2>5, <2>6, <2>7, <2>8, <2>9
      DEF ValidationNext, ValidationStep, Own, ValidationTick, Tick, Switch,
          allVars, breakerVars
  <1>3. TruthInv => OnlyTruthCached
    BY DEF TruthInv
  <1>4. QED
    BY <1>1, <1>2, <1>3, ValidationTypeCorrect, PTL DEF ValidationSpec

-----------------------------------------------------------------------------
(***************************************************************************)
(* The breaker opens for a reason                                          *)
(***************************************************************************)

\* The counter never runs ahead of the failures in a row.
StreakInv ==
  /\ failures <= streak
  /\ \A c \in Calls : at[c] = "count" => reply[c] = "unavailable"

Justified ==
  \A c \in Calls : verdict'[c] = "open" => verdict[c] = "open" \/ streak = Threshold

\* Every access of a call to the breaker keeps StreakInv and is justified.
LEMMA AccessJustified ==
  ASSUME BreakerTypeOK, StreakInv, NEW c \in Calls,
         Check(c) \/ Record(c) \/ \E outcome \in Outcomes(c) : Send(c, outcome)
  PROVE  StreakInv' /\ Justified
  <1>0. Threshold \in Nat \ {0} /\ failures \in Nat /\ streak \in 0..Threshold
    BY BreakerAssumption DEF BreakerTypeOK
  <1> USE DEF BreakerTypeOK, StreakInv, Justified, breaker, checks, To, Proceed
  <1>1. CASE LoadState(c) \/ LoadTime(c)
    BY <1>1 DEF LoadState, LoadTime
  <1>2. CASE Decide(c)
    <2>1. Verdict(c) = "open" => streak = Threshold
      BY <1>0 DEF Verdict
    <2>2. Justified
      BY <1>2, <2>1 DEF Decide
    <2>3. QED
      BY <1>2, <2>2 DEF Decide
  <1>3. CASE Publish(c)
    BY <1>3 DEF Publish
  <1>4. CASE Zero(c)
    BY <1>0, <1>4 DEF Zero
  <1>5. CASE CountFailure(c)
    BY <1>0, <1>5 DEF CountFailure, Capped
  <1>6. CASE Stamp(c)
    BY <1>6 DEF Stamp
  <1>7. CASE \E outcome \in Outcomes(c) : Send(c, outcome)
    BY <1>0, <1>7 DEF Send, IsFailure
  <1>8. QED
    BY <1>1, <1>2, <1>3, <1>4, <1>5, <1>6, <1>7 DEF Check, Record

\* A call is refused only after Threshold failures in a row.
THEOREM BreakerOpensForAReason == ValidationSpec => OpensForAReason
  <1>1. ValidationInit => StreakInv
    BY DEF ValidationInit, BreakerInit, StreakInv
  <1>2. ValidationTypeOK /\ StreakInv /\ [ValidationNext]_allVars
          => StreakInv' /\ (Justified \/ UNCHANGED breakerVars)
    <2> SUFFICES ASSUME ValidationTypeOK, StreakInv, [ValidationNext]_allVars
                 PROVE  StreakInv' /\ (Justified \/ UNCHANGED breakerVars)
      OBVIOUS
    <2>0. BreakerTypeOK
      BY DEF ValidationTypeOK
    <2>1. ASSUME NEW r \in Calls, InBreaker(r) \/ Ask(r) PROVE StreakInv' /\ Justified
      BY <2>0, <2>1, AccessJustified DEF InBreaker, Ask
    <2>2. ASSUME NEW r \in Calls, PeekNothing(r) \/ Claim(r) PROVE StreakInv' /\ Justified
      BY <2>0, <2>2 DEF PeekNothing, Claim, Begin, To, breaker, checks,
                        StreakInv, Justified, BreakerTypeOK
    <2>3. ASSUME NEW r \in Calls, Collect(r) PROVE StreakInv' /\ Justified
      BY <2>0, <2>3 DEF Collect, Take, To, breaker, StreakInv, Justified, BreakerTypeOK
    <2>4. ASSUME NEW r \in Calls, Disconnect(r) PROVE StreakInv' /\ Justified
      BY <2>0, <2>4 DEF Disconnect, To, breaker, StreakInv, Justified, BreakerTypeOK
    <2>5. ASSUME Tick \/ \E s \in Services : Switch(s) PROVE StreakInv' /\ Justified
      BY <2>5 DEF Tick, Switch, breaker, checks, StreakInv, Justified
    <2>6. ASSUME UNCHANGED breakerVars PROVE StreakInv'
      BY <2>6 DEF breakerVars, breaker, StreakInv
    <2>7. QED
      BY <2>1, <2>2, <2>3, <2>4, <2>5, <2>6
      DEF ValidationNext, ValidationStep, Own, ValidationTick, allVars,
          PeekCached, ClaimBusy, Wake, Save, Release, Again
  <1>3. Justified \/ UNCHANGED breakerVars
          => [\A c \in Calls : verdict'[c] = "open" =>
                 verdict[c] = "open" \/ streak = Threshold]_breakerVars
    BY DEF Justified
  <1>4. QED
    BY <1>1, <1>2, <1>3, ValidationTypeCorrect, PTL DEF ValidationSpec, OpensForAReason
=============================================================================
