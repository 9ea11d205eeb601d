-------------------------- MODULE UserPagesProofs --------------------------
(***************************************************************************)
(* Theorems about RateLimit and UserPages: how much a bucket admits, that  *)
(* its reset times are honoured, and that pages neither repeat nor skip a  *)
(* row.                                                                    *)
(***************************************************************************)
EXTENDS UserPages, TLAPS

-----------------------------------------------------------------------------
(***************************************************************************)
(* Arithmetic.                                                             *)
(***************************************************************************)

\* A full bucket has at least one token.
LEMMA FullBucket == Full \in Nat /\ Token \in Nat \ {0} /\ Token <= Full
BY RateAssumption DEF Full, Token

\* The rounding of reset_after is upwards.
LEMMA RoundedUp ==
    ASSUME NEW n \in Nat \ {0}, NEW x \in Nat
    PROVE  /\ (x + n - 1) \div n \in Nat
           /\ n * ((x + n - 1) \div n) >= x
<1> DEFINE q == (x + n - 1) \div n
           r == (x + n - 1) % n
<1>1. x + n - 1 \in Nat
  OBVIOUS
<1>2. q \in Int /\ r \in 0..(n - 1) /\ x + n - 1 = n * q + r
  BY <1>1
<1>3. q >= 0
  BY <1>1, <1>2
<1> QED
  BY <1>2, <1>3

\* How far the history moves when a clock goes forward or back.
LEMMA Moves ==
    ASSUME NEW now \in Nat, NEW before \in Nat, NEW s \in Nat, NEW t \in Nat,
           now > before => t = s, now <= before => t + now = before + s
    PROVE  (now + t) - (before + s) = IF now > before THEN now - before ELSE 0
OBVIOUS

\* One more request in a stretch of n, after a refill for b more seconds.
LEMMA OneMore ==
    ASSUME NEW k \in Nat, NEW lim \in Nat, NEW full \in Nat, NEW n \in Int,
           NEW a \in Int, NEW b \in Int, NEW had \in Int, NEW has \in Int,
           n * k + had <= full + lim * a, has <= had + lim * b
    PROVE  (n + 1) * k + (has - k) <= full + lim * (a + b)
<1>1. lim * (a + b) = lim * a + lim * b /\ lim * a \in Int /\ lim * b \in Int
  OBVIOUS
<1>2. (n + 1) * k = n * k + k /\ n * k \in Int
  OBVIOUS
<1> QED
  BY <1>1, <1>2

\* A refill adds to the bucket and never beyond its capacity.
LEMMA CurrentType ==
    ASSUME RateTypeOK, NEW now \in Nat
    PROVE  /\ Current(now) \in 0..Full
           /\ Elapsed(now) \in Nat
           /\ present => Current(now) <= tokens + Limit * Elapsed(now)
<1>1. Elapsed(now) \in Nat
  BY DEF Elapsed, RateTypeOK
<1>2. Limit * Elapsed(now) \in Nat
  BY <1>1, RateAssumption
<1> HIDE DEF Elapsed
<1> QED
  BY <1>1, <1>2, FullBucket DEF Current, RateTypeOK

\* A clock is a time that has passed, by no more than the drift.
LEMMA ClocksAreTimes ==
    ASSUME RateTypeOK, NEW now \in Clocks
    PROVE  now \in Nat /\ now <= time /\ now >= time - Drift
BY RateAssumption DEF Clocks, RateTypeOK

\* Until the reset time no less is refilled than was missing.
LEMMA ResetType ==
    ASSUME NEW rest \in 0..Full
    PROVE  ResetAfter(rest) \in Nat /\ Limit * ResetAfter(rest) >= Full - rest
<1>1. Full - rest \in Nat
  BY FullBucket
<1>2. Full - rest + Limit - 1 = (Full - rest) + Limit - 1
  OBVIOUS
<1> QED
  BY <1>1, <1>2, RoundedUp, RateAssumption DEF ResetAfter

-----------------------------------------------------------------------------
(***************************************************************************)
(* The bucket.                                                             *)
(***************************************************************************)

\* What is left in the bucket counts against each stretch that ends now; a
\* key that is gone was idle for its whole TTL.
Charged ==
    \A i \in 1..Len(log) :
        (Len(log) - i + 1) * Token + tokens
            <= Full + Limit * (last + setback - log[i])

Idle ==
    /\ last <= written /\ written <= time
    /\ ~present /\ log # <<>> => time - written >= Ttl

RateInv == RateTypeOK /\ Idle /\ Charged /\ RateBounded

\* The bucket starts full and nothing is promised.
LEMMA RateInvInit == RateInit => RateInv /\ ResetHonored
<1> SUFFICES ASSUME RateInit PROVE RateInv /\ ResetHonored
  OBVIOUS
<1>1. Len(log) = 0 /\ 1..Len(log) = {}
  BY DEF RateInit
<1>2. RateTypeOK /\ Idle
  <2>1. <<>> \in Seq(Nat) /\ 0 \in 0..Full
    BY FullBucket
  <2>2. RateTypeOK
    BY <2>1 DEF RateInit, RateTypeOK
  <2> QED
    BY <2>2 DEF RateInit, Idle
<1>3. Charged /\ RateBounded
  BY <1>1 DEF Charged, RateBounded
<1>4. Current(promise) = Full
  BY DEF RateInit, Current
<1> QED
  BY <1>2, <1>3, <1>4, FullBucket DEF RateInv, ResetHonored

\* An admission keeps the types, and counts a clock that goes back.
LEMMA AdmitType ==
    ASSUME RateTypeOK, NEW now \in Clocks, Admit(now)
    PROVE  /\ RateTypeOK'
           /\ now > last => setback' = setback
           /\ now <= last /\ log # <<>> => setback' + now = last + setback
<1>1. now \in Nat /\ now <= time
  BY ClocksAreTimes
<1>2. Current(now) \in 0..Full /\ Current(now) - Token \in 0..Full
  <2>1. Current(now) >= Token
    BY DEF Admit
  <2>2. Current(now) \in 0..Full
    BY <1>1, CurrentType
  <2> QED
    BY <2>1, <2>2, FullBucket
<1>3. ResetAfter(Current(now) - Token) \in Nat
  BY <1>2, ResetType
<1>4. Back(now) \in Nat
  BY <1>1 DEF Back, RateTypeOK
<1>5. setback' \in Nat /\ now + setback' \in Nat
  BY <1>1, <1>4 DEF Admit, RateTypeOK
<1>6. RateTypeOK'
  BY <1>1, <1>2, <1>3, <1>5 DEF Admit, RateTypeOK
<1> QED
  BY <1>1, <1>4, <1>6 DEF Admit, RateTypeOK, Back

\* An admitted request takes one token of what the bucket had, and the
\* history moves on by what was refilled.
LEMMA AdmitMoves ==
    ASSUME RateTypeOK, Idle, NEW now \in Clocks, Admit(now), log # <<>>
    PROVE  Current(now) <= tokens + Limit * ((now + setback') - (last + setback))
<1>1. now \in Nat /\ now <= time /\ now >= time - Drift
  BY ClocksAreTimes
<1>2. PICK t \in Nat : t = setback'
  <2>1. RateTypeOK'
    BY AdmitType
  <2> QED
    BY <2>1 DEF RateTypeOK
<1>3. PICK before \in Nat, s \in Nat : before = last /\ s = setback
  BY DEF RateTypeOK
<1>4. /\ now > before => t = s
      /\ now <= before => t + now = before + s
  BY <1>2, <1>3, AdmitType
<1> DEFINE moved == (now + t) - (before + s)
<1>5. moved = IF now > before THEN now - before ELSE 0
  BY <1>1, <1>4, Moves
<1>6. Current(now) <= tokens + Limit * moved
  <2>1. CASE present
    <3>1. moved = Elapsed(now)
      BY <1>3, <1>5 DEF Elapsed
    <3> QED
      BY <1>1, <2>1, <3>1, CurrentType
  <2>2. CASE ~present
    <3>1. now >= before + Window
      <4>1. PICK w \in Nat, u \in Nat : w = written /\ u = time
        BY DEF RateTypeOK
      <4>2. before <= w /\ u - w >= Ttl /\ now >= u - Drift
        BY <1>1, <1>3, <2>2, <4>1 DEF Idle
      <4> QED
        BY <1>1, <4>2, RateAssumption
    <3>2. moved \in Nat /\ moved - Window \in Nat
      BY <1>1, <1>5, <3>1, RateAssumption
    <3> HIDE DEF moved
    <3>3. Limit * (moved - Window) \in Nat
      BY <3>2, RateAssumption
    <3>4. Limit * (moved - Window) = Limit * moved - Limit * Window
      BY <3>2, RateAssumption
    <3>5. Limit * moved \in Nat /\ Limit * Window \in Nat
      BY <3>2, RateAssumption
    <3>6. Limit * moved >= Full
      BY <3>3, <3>4, <3>5 DEF Full
    <3>7. Current(now) = Full /\ tokens \in Nat
      BY <2>2, FullBucket DEF Current, RateTypeOK
    <3> QED
      BY <3>5, <3>6, <3>7, FullBucket
  <2> QED
    BY <2>1, <2>2
<1> QED
  BY <1>2, <1>3, <1>6

\* A stretch that ends with the request just admitted.
LEMMA AdmitCharges ==
    ASSUME RateInv, NEW now \in Clocks, Admit(now)
    PROVE  Charged'
<1>1. RateTypeOK /\ RateTypeOK'
  BY AdmitType DEF RateInv
<1>2. now \in Nat
  BY <1>1, ClocksAreTimes
<1>3. Current(now) \in 0..Full /\ Full \in Nat /\ Token \in Nat
  BY <1>1, <1>2, CurrentType, FullBucket
<1>4. PICK before \in Nat, s \in Nat, t \in Nat :
            before = last /\ s = setback /\ t = setback'
  BY <1>1 DEF RateTypeOK
<1>5. tokens' = Current(now) - Token /\ last' = now /\ log' = Append(log, now + t)
  BY <1>4 DEF Admit
<1>6. PICK n \in Nat : n = Len(log)
  BY <1>1 DEF RateTypeOK
<1>7. now + t \in Nat /\ log \in Seq(Nat)
  BY <1>1, <1>2 DEF RateTypeOK
<1>8. Len(log') = n + 1
  BY <1>5, <1>6, <1>7
<1> SUFFICES ASSUME NEW i \in 1..(n + 1)
             PROVE  (n + 1 - i + 1) * Token + (Current(now) - Token)
                      <= Full + Limit * (now + t - log'[i])
  BY <1>4, <1>5, <1>8 DEF Charged, Full, Token
<1>9. CASE i = n + 1
  <2>1. log'[i] = now + t
    BY <1>5, <1>6, <1>7, <1>9
  <2>2. now + t - log'[i] = 0 /\ Limit * 0 = 0
    BY <1>2, <2>1, RateAssumption
  <2>3. n + 1 - i + 1 = 1 /\ 1 * Token = Token
    BY <1>3, <1>9
  <2>4. Token + (Current(now) - Token) <= Full + 0
    BY <1>3
  <2> QED
    BY <2>2, <2>3, <2>4
<1>10. CASE i \in 1..n
  <2>1. PICK e \in Nat : e = log[i] /\ e = log'[i]
    BY <1>5, <1>6, <1>7, <1>10
  <2>2. PICK had \in Nat : had = tokens
    BY <1>1, FullBucket DEF RateTypeOK
  <2> DEFINE a == before + s - e
             b == (now + t) - (before + s)
             m == n - i + 1
  <2>3. a \in Int /\ b \in Int /\ m \in Int
    BY <1>2
  <2>4. m * Token + had <= Full + Limit * a
    BY <1>4, <1>6, <1>10, <2>1, <2>2 DEF RateInv, Charged
  <2>5. Current(now) <= had + Limit * b
    <3>1. log # <<>>
      BY <1>6, <1>10
    <3> QED
      BY <1>1, <1>4, <2>2, <3>1, AdmitMoves DEF RateInv
  <2>6. now + t - e = a + b
    BY <1>2
  <2>7. n + 1 - i + 1 = m + 1
    OBVIOUS
  <2> HIDE DEF a, b, m
  <2>8. (m + 1) * Token + (Current(now) - Token) <= Full + Limit * (a + b)
    BY <1>3, <2>2, <2>3, <2>4, <2>5, OneMore, RateAssumption
  <2> QED
    BY <2>1, <2>6, <2>7, <2>8
<1> QED
  BY <1>9, <1>10

\* An admission keeps every stretch within the rate.
LEMMA AdmitBounded ==
    ASSUME RateInv, NEW now \in Clocks, Admit(now)
    PROVE  RateBounded'
<1>1. RateTypeOK /\ RateTypeOK' /\ Charged'
  BY AdmitType, AdmitCharges DEF RateInv
<1>2. now \in Nat
  BY <1>1, ClocksAreTimes
<1>3. PICK t \in Nat : t = setback'
  BY <1>1 DEF RateTypeOK
<1>4. PICK n \in Nat : n = Len(log)
  BY <1>1 DEF RateTypeOK
<1>5. last' = now /\ log' = Append(log, now + t) /\ now + t \in Nat /\ log \in Seq(Nat)
  BY <1>1, <1>2, <1>3 DEF Admit, RateTypeOK
<1>6. Len(log') = n + 1 /\ log'[n + 1] = now + t
      /\ \A k \in 1..n : log'[k] = log[k]
  BY <1>4, <1>5
<1>7. PICK rest \in Nat : rest = tokens'
  BY <1>1, FullBucket DEF RateTypeOK, Full
<1> SUFFICES ASSUME NEW j \in 1..(n + 1), NEW i \in 1..j
             PROVE  (j - i + 1) * Token <= Full + Limit * (log'[j] - log'[i])
  BY <1>6 DEF RateBounded, Full, Token
<1>8. CASE j = n + 1
  <2>1. i \in 1..(n + 1)
    BY <1>8
  <2>2. (n + 1 - i + 1) * Token + rest <= Full + Limit * (now + t - log'[i])
    BY <1>1, <1>3, <1>5, <1>6, <1>7, <2>1 DEF Charged, Full, Token
  <2>3. PICK e \in Nat : e = log'[i]
    BY <1>1, <1>6, <2>1 DEF RateTypeOK
  <2>4. Limit * (now + t - e) \in Int /\ (n + 1 - i + 1) * Token \in Int
    BY <1>2, FullBucket, RateAssumption
  <2>5. (n + 1 - i + 1) * Token <= Full + Limit * (now + t - e)
    BY <2>2, <2>3, <2>4, FullBucket
  <2>6. PICK x \in Nat : x = now + t
    BY <1>5
  <2>7. log'[j] = x
    BY <1>6, <1>8, <2>6
  <2>8. j - i + 1 = n + 1 - i + 1
    BY <1>8
  <2>9. PICK y \in Int : y = now + t - e
    BY <1>2
  <2>10. x - e = y
    BY <1>2, <2>6, <2>9
  <2>11. (n + 1 - i + 1) * Token <= Full + Limit * y
    BY <2>5, <2>9
  <2>12. log'[j] - log'[i] = y
    BY <2>3, <2>7, <2>10
  <2> QED
    BY <2>8, <2>11, <2>12
<1>9. CASE j \in 1..n
  <2>1. i \in 1..n
    BY <1>9
  <2> QED
    BY <1>4, <1>6, <1>9, <2>1 DEF RateInv, RateBounded
<1> QED
  BY <1>8, <1>9

\* An admission is written at the present time.
LEMMA AdmitIdle ==
    ASSUME RateInv, NEW now \in Clocks, Admit(now)
    PROVE  Idle'
<1>1. now <= time
  BY ClocksAreTimes DEF RateInv
<1>2. time \in Nat
  BY DEF RateInv, RateTypeOK
<1> QED
  BY <1>1, <1>2 DEF Admit, Idle

\* The steps that leave what was admitted and what is left alone.
LEMMA RateInvNext == ASSUME RateInv, [RateNext]_rateVars PROVE RateInv'
<1> USE DEF RateInv
<1>1. CASE Passes
  <2>1. CASE Unmetered
    BY <2>1 DEF Unmetered, rateVars, bucket, RateTypeOK, Idle, Charged, RateBounded
  <2>2. ASSUME NEW now \in Clocks, Admit(now) PROVE RateInv'
    BY <2>2, AdmitType, AdmitIdle, AdmitCharges, AdmitBounded
  <2> QED
    BY <1>1, <2>1, <2>2 DEF Passes
<1>2. CASE Rejected
  <2>1. PICK now \in Clocks : Refuse(now)
    BY <1>2 DEF Rejected
  <2>2. now \in Nat
    BY ClocksAreTimes
  <2>3. Current(now) \in 0..Full
    BY <2>2, CurrentType
  <2>4. ResetAfter(Current(now)) \in Nat
    BY <2>3, ResetType
  <2>5. RateTypeOK'
    BY <2>1, <2>2, <2>4 DEF Refuse, bucket, RateTypeOK, Full
  <2> QED
    BY <2>1, <2>5 DEF Refuse, bucket, Idle, Charged, RateBounded
<1>3. CASE Expire
  <2>1. RateTypeOK'
    BY <1>3 DEF Expire, RateTypeOK
  <2> QED
    BY <1>3, <2>1 DEF Expire, Idle, Charged, RateBounded
<1>4. CASE Forget
  <2>1. <<>> \in Seq(Nat) /\ Len(<<>>) = 0 /\ 1..0 = {}
    OBVIOUS
  <2>2. RateTypeOK'
    BY <1>4, <2>1 DEF Forget, RateTypeOK
  <2>3. Charged' /\ RateBounded'
    BY <1>4, <2>1 DEF Forget, Charged, RateBounded
  <2> QED
    BY <1>4, <2>2, <2>3 DEF Forget, Idle
<1>5. CASE Tick
  <2>1. RateTypeOK' /\ time \in Nat /\ written \in Nat
    BY <1>5 DEF Tick, bucket, RateTypeOK
  <2>2. Idle'
    BY <1>5, <2>1, RateAssumption DEF Tick, bucket, Idle, RateTypeOK
  <2> QED
    BY <1>5, <2>1, <2>2 DEF Tick, bucket, Charged, RateBounded
<1>6. CASE UNCHANGED rateVars
  BY <1>6 DEF rateVars, bucket, RateTypeOK, Idle, Charged, RateBounded
<1> QED
  BY <1>1, <1>2, <1>3, <1>4, <1>5, <1>6 DEF RateNext

\* After an answer that left rest in the bucket, at the clock of its last
\* update plus since, the named time finds the bucket full.
LEMMA FullAgain ==
    ASSUME RateTypeOK', NEW since \in Nat, NEW rest \in 0..Full,
           rest = tokens' + Limit * since, promise' = last' + since + ResetAfter(rest)
    PROVE  ResetHonored'
<1> DEFINE r == ResetAfter(rest)
<1>1. r \in Nat /\ Limit * r >= Full - rest /\ Limit * r \in Nat
  BY ResetType, RateAssumption
<1>2. PICK before \in Nat, had \in Nat : before = last' /\ had = tokens'
  BY FullBucket DEF RateTypeOK, Full
<1>3. PICK p \in Nat : p = promise' /\ p = before + since + r
  BY <1>1, <1>2
<1> HIDE DEF r
<1>4. (IF p > before THEN p - before ELSE 0) = since + r
  BY <1>1, <1>3
<1>5. Limit * (since + r) = Limit * since + Limit * r /\ Limit * since \in Nat
  BY <1>1, RateAssumption
<1>6. rest = had + Limit * since
  BY <1>2
<1>7. had + Limit * (since + r) >= Full /\ had + Limit * (since + r) \in Nat
  BY <1>1, <1>5, <1>6, FullBucket
<1>8. Elapsed(promise)' = since + r
  BY <1>2, <1>3, <1>4 DEF Elapsed
<1>9. Current(promise)' >= Full
  <2>1. CASE ~present' \/ tokens' + Limit * (since + r) > Full
    BY <1>8, <2>1, FullBucket DEF Current, Full
  <2>2. CASE ~(~present' \/ tokens' + Limit * (since + r) > Full)
    BY <1>2, <1>7, <1>8, <2>2 DEF Current, Full
  <2> QED
    BY <2>1, <2>2
<1> QED
  BY <1>9 DEF ResetHonored, Full

\* Every step keeps the promise of the latest answer.
LEMMA ResetHonoredNext ==
    ASSUME RateInv, ResetHonored, [RateNext]_rateVars
    PROVE  ResetHonored'
<1>1. RateTypeOK /\ RateTypeOK'
  BY RateInvNext DEF RateInv
<1>2. ASSUME NEW now \in Clocks, Admit(now) PROVE ResetHonored'
  <2>1. now \in Nat
    BY <1>1, ClocksAreTimes
  <2>2. PICK rest \in 0..Full : rest = Current(now) - Token /\ rest = tokens'
    BY <1>1, <1>2 DEF Admit, RateTypeOK, Full
  <2>3. promise' = now + ResetAfter(rest) /\ last' = now
    BY <1>2, <2>2 DEF Admit
  <2>4. ResetAfter(rest) \in Nat /\ Limit * 0 = 0
    BY ResetType, RateAssumption
  <2>5. rest = tokens' + Limit * 0 /\ promise' = last' + 0 + ResetAfter(rest)
    BY <2>1, <2>2, <2>3, <2>4
  <2> QED
    BY <1>1, <2>2, <2>5, FullAgain
<1>3. ASSUME NEW now \in Clocks, Refuse(now) PROVE ResetHonored'
  <2>1. now \in Nat
    BY <1>1, ClocksAreTimes
  <2>2. CASE now < last
    BY <1>3, <2>2 DEF Refuse, bucket, ResetHonored, Current, Elapsed, Full
  <2>3. CASE ~(now < last)
    <3>1. present
      BY <1>3, FullBucket DEF Refuse, Current
    <3>2. PICK before \in Nat : before = last
      BY <1>1 DEF RateTypeOK
    <3>3. PICK since \in Nat : since = now - before
      BY <2>1, <2>3, <3>2
    <3>4. Elapsed(now) = since
      BY <2>1, <2>3, <3>2, <3>3 DEF Elapsed
    <3>5. PICK rest \in 0..Full : rest = Current(now)
      BY <1>1, <2>1, CurrentType
    <3>6. rest = tokens + Limit * since
      BY <1>3, <3>1, <3>4, <3>5, FullBucket DEF Refuse, Current
    <3>7. tokens' = tokens /\ last' = before
      BY <1>3, <3>2 DEF Refuse, bucket
    <3>8. promise' = now + ResetAfter(rest) /\ now = before + since
      BY <1>3, <2>1, <2>3, <3>2, <3>3, <3>5 DEF Refuse
    <3>9. promise' = last' + since + ResetAfter(rest)
      BY <3>7, <3>8
    <3> QED
      BY <1>1, <3>6, <3>7, <3>9, FullAgain
  <2> QED
    BY <2>2, <2>3
<1>4. CASE Expire \/ Forget
  BY <1>4, FullBucket DEF Expire, Forget, ResetHonored, Current, Full
<1>5. CASE Tick \/ UNCHANGED rateVars
  BY <1>5 DEF Tick, rateVars, bucket, ResetHonored, Current, Elapsed, Full
<1> QED
  BY <1>2, <1>3, <1>4, <1>5 DEF RateNext, Passes, Unmetered, Rejected

-----------------------------------------------------------------------------
(***************************************************************************)
(* The pages.                                                              *)
(***************************************************************************)

\* What was served lies at or above the cursor, and Below(cursor) below it.
Ahead ==
    walk = "on" =>
        \A i \in 1..Len(served) : \A r \in served[i] : cursor # NoCursor /\ r >= cursor

\* A walk that goes on has not been cut short.
Uncut == walk = "on" => ~cut

PagesInv == RateInv /\ PagesTypeOK /\ Ahead /\ Uncut /\ NoRowTwice /\ NothingSkipped

\* The invariant holds before the first walk.
LEMMA PagesInvInit == PagesInit => PagesInv
<1> SUFFICES ASSUME PagesInit PROVE PagesInv
  OBVIOUS
<1>1. RateInv
  BY RateInvInit DEF PagesInit
<1>2. <<>> \in Seq(SUBSET Places) /\ Len(served) = 0 /\ 1..Len(served) = {}
  BY DEF PagesInit
<1>3. PagesTypeOK
  BY <1>1, <1>2 DEF PagesInit, PagesTypeOK, RateInv
<1>4. Ahead /\ Uncut /\ NoRowTwice /\ NothingSkipped
  BY <1>2 DEF PagesInit, Ahead, Uncut, NoRowTwice, NothingSkipped
<1> QED
  BY <1>1, <1>3, <1>4 DEF PagesInv

\* A page is appended whose rows are below the cursor.
LEMMA PageAppended ==
    ASSUME PagesInv, walk = "on", NEW items \in SUBSET Below(cursor),
           served' = Append(served, items)
    PROVE  /\ served' \in Seq(SUBSET Places)
           /\ NoRowTwice'
           /\ Len(served') = Len(served) + 1 /\ served'[Len(served) + 1] = items
           /\ \A i \in 1..Len(served) : served'[i] = served[i]
<1>1. /\ served \in Seq(SUBSET Places) /\ items \in SUBSET Places
      /\ Len(served) \in Nat /\ cursor \in Places \cup {NoCursor}
  BY DEF PagesInv, PagesTypeOK, Below
<1>2. /\ served' \in Seq(SUBSET Places)
      /\ Len(served') = Len(served) + 1 /\ served'[Len(served) + 1] = items
      /\ \A i \in 1..Len(served) : served'[i] = served[i]
  BY <1>1
<1>3. NoRowTwice'
  <2> SUFFICES ASSUME NEW i \in 1..(Len(served) + 1), NEW j \in 1..(Len(served) + 1),
                      i < j, NEW r \in served'[i], NEW q \in served'[j]
               PROVE  q < r
    BY <1>2 DEF NoRowTwice
  <2>1. CASE j = Len(served) + 1
    <3>1. i \in 1..Len(served) /\ r \in served[i] /\ q \in items
      BY <1>1, <1>2, <2>1
    <3>2. cursor # NoCursor /\ r >= cursor
      BY <3>1 DEF PagesInv, Ahead
    <3>3. q < cursor
      BY <3>1, <3>2 DEF Below
    <3>4. q \in Nat /\ r \in Nat /\ cursor \in Nat
      <4>1. served[i] \in SUBSET Places
        BY <1>1, <3>1
      <4> QED
        BY <1>1, <3>1, <3>2, <4>1, PagesAssumption
    <3> QED
      BY <3>2, <3>3, <3>4
  <2>2. CASE j \in 1..Len(served)
    <3>1. i \in 1..Len(served) /\ r \in served[i] /\ q \in served[j]
      BY <1>1, <1>2, <2>2
    <3> QED
      BY <2>2, <3>1 DEF PagesInv, NoRowTwice
  <2> QED
    BY <1>1, <2>1, <2>2
<1> QED
  BY <1>2, <1>3

\* The walk and the table stay as they are while the limiter works.
LEMMA PagesStay ==
    ASSUME PagesInv, RateInv', UNCHANGED pageVars
    PROVE  PagesInv'
BY DEF PagesInv, PagesTypeOK, RateInv, pageVars, Ahead, Uncut, NoRowTwice, NothingSkipped,
   GivenOut, Below

\* The last page ends a walk with every row served, unless it was cut short.
LEMMA LastPageKeeps ==
    ASSUME PagesInv, RateInv', NEW n \in PageSizes, walk = "on",
           LastPage(n), UNCHANGED <<rows, kept>>
    PROVE  PagesInv'
<1> DEFINE items == IF SqlLimit(n) = 0 THEN {} ELSE Below(cursor)
<1>1. items \in SUBSET Below(cursor) /\ served' = Append(served, items)
  BY DEF LastPage
<1>2. /\ served' \in Seq(SUBSET Places)
      /\ NoRowTwice'
      /\ Len(served') = Len(served) + 1 /\ served'[Len(served) + 1] = items
      /\ \A i \in 1..Len(served) : served'[i] = served[i]
  BY <1>1, PageAppended
<1>3. PagesTypeOK'
  BY <1>2 DEF LastPage, PagesInv, PagesTypeOK, RateInv
<1>4. Ahead' /\ Uncut'
  BY DEF LastPage, Ahead, Uncut
<1>5. NothingSkipped'
  <2>1. Len(served) \in Nat
    BY DEF PagesInv, PagesTypeOK
  <2> SUFFICES ASSUME ~cut', NEW r \in kept
               PROVE  \E i \in 1..Len(served') : r \in served'[i]
    BY DEF NothingSkipped, GivenOut
  <2>2. CASE r \in Below(cursor)
    <3>1. items = Below(cursor)
      BY DEF LastPage
    <3> QED
      BY <1>2, <2>1, <2>2, <3>1
  <2>3. CASE \E i \in 1..Len(served) : r \in served[i]
    BY <1>2, <2>1, <2>3
  <2>4. r \in Below(cursor) \/ \E i \in 1..Len(served) : r \in served[i]
    BY DEF PagesInv, NothingSkipped, GivenOut, Uncut
  <2> QED
    BY <2>2, <2>3, <2>4
<1> QED
  BY <1>2, <1>3, <1>4, <1>5 DEF PagesInv

\* A page that is not the last leaves the rest below its cursor.
LEMMA FullPageKeeps ==
    ASSUME PagesInv, RateInv', NEW n \in PageSizes, walk = "on",
           FullPage(n), UNCHANGED <<rows, kept>>
    PROVE  PagesInv'
<1>1. PICK c \in Below(cursor) :
          /\ served' = Append(served, {q \in Below(cursor) : q >= c})
          /\ cursor' = c
  BY DEF FullPage, NextCursor
<1> DEFINE items == {q \in Below(cursor) : q >= c}
<1>2. /\ served' \in Seq(SUBSET Places)
      /\ NoRowTwice'
      /\ Len(served') = Len(served) + 1 /\ served'[Len(served) + 1] = items
      /\ \A i \in 1..Len(served) : served'[i] = served[i]
  BY <1>1, PageAppended
<1>3. /\ walk' = "on" /\ cut' = cut /\ cut = FALSE /\ rows' = rows /\ kept' = kept
      /\ rows \in SUBSET Nat /\ kept \in SUBSET rows /\ Len(served) \in Nat
      /\ c \in rows /\ c \in Places /\ c \in Nat /\ c # NoCursor
  BY <1>1, PagesAssumption DEF FullPage, PagesInv, PagesTypeOK, Uncut, Below, NoCursor
<1>4. PagesTypeOK'
  BY <1>1, <1>2, <1>3 DEF PagesInv, PagesTypeOK, RateInv
<1>5. Ahead'
  <2> SUFFICES ASSUME NEW i \in 1..(Len(served) + 1), NEW r \in served'[i]
               PROVE  r >= c
    BY <1>1, <1>2, <1>3 DEF Ahead, NoCursor
  <2>1. CASE i = Len(served) + 1
    BY <1>2, <2>1
  <2>2. CASE i \in 1..Len(served)
    <3>1. r \in served[i] /\ served[i] \in SUBSET Places
      BY <1>2, <2>2 DEF PagesInv, PagesTypeOK
    <3>2. cursor # NoCursor /\ r >= cursor /\ c < cursor
      BY <1>1, <2>2, <3>1 DEF PagesInv, Ahead, Below
    <3>3. r \in Nat /\ cursor \in Nat
      BY <3>1, <3>2, PagesAssumption DEF PagesInv, PagesTypeOK
    <3> QED
      BY <1>3, <3>2, <3>3
  <2> QED
    BY <1>3, <2>1, <2>2
<1>6. NothingSkipped'
  <2> SUFFICES ASSUME NEW r \in kept
               PROVE  (\E i \in 1..Len(served') : r \in served'[i]) \/ r \in Below(cursor)'
    BY <1>3 DEF NothingSkipped, GivenOut
  <2>1. CASE r \in items
    BY <1>2, <1>3, <2>1
  <2>2. CASE r \in Below(cursor) /\ r \notin items
    <3>1. r \in rows /\ r < c
      BY <1>3, <2>2
    <3> QED
      BY <1>1, <1>3, <3>1 DEF Below
  <2>3. CASE \E i \in 1..Len(served) : r \in served[i]
    BY <1>2, <1>3, <2>3
  <2> QED
    BY <1>3, <2>1, <2>2, <2>3 DEF PagesInv, NothingSkipped, GivenOut
<1> QED
  BY <1>2, <1>3, <1>4, <1>5, <1>6 DEF PagesInv, Uncut

\* Every step of the client, the user and the limiter keeps the invariant.
LEMMA PagesInvNext == ASSUME PagesInv, [PagesNext]_vars PROVE PagesInv'
<1>1. RateInv'
  <2>1. [RateNext]_rateVars
    BY DEF PagesNext, vars, Begin, TooMany, Limiter, Page, Like, Unlike, RateNext
  <2> QED
    BY <2>1, RateInvNext DEF PagesInv
<1>2. PagesTypeOK /\ RateTypeOK'
  BY <1>1 DEF PagesInv, RateInv
<1>3. CASE Begin
  <2>1. <<>> \in Seq(SUBSET Places) /\ Len(<<>>) = 0 /\ 1..0 = {}
    OBVIOUS
  <2>2. PagesTypeOK'
    BY <1>2, <1>3, <2>1 DEF Begin, PagesTypeOK
  <2>3. Ahead' /\ Uncut' /\ NoRowTwice'
    BY <1>3, <2>1 DEF Begin, Ahead, Uncut, NoRowTwice
  <2>4. NothingSkipped'
    BY <1>3 DEF Begin, NothingSkipped, Below
  <2> QED
    BY <1>1, <2>2, <2>3, <2>4 DEF PagesInv
<1>4. ASSUME NEW n \in PageSizes, Page(n) PROVE PagesInv'
  <2>1. walk = "on" /\ UNCHANGED <<rows, kept>>
    BY <1>4 DEF Page
  <2>2. CASE LastPage(n)
    BY <1>1, <2>1, <2>2, LastPageKeeps
  <2>3. CASE FullPage(n)
    BY <1>1, <2>1, <2>3, FullPageKeeps
  <2>4. CASE NoAnswer(n) \/ LimitRefused(n)
    BY <1>1, <2>1, <2>4, PagesStay DEF NoAnswer, LimitRefused, pageVars
  <2> QED
    BY <1>4, <2>2, <2>3, <2>4 DEF Page
<1>5. ASSUME NEW p \in Places, Like(p) PROVE PagesInv'
  <2>1. PagesTypeOK'
    BY <1>2, <1>5 DEF Like, PagesTypeOK
  <2>2. NothingSkipped'
    BY <1>5 DEF Like, PagesInv, NothingSkipped, GivenOut, Below
  <2> QED
    BY <1>1, <1>5, <2>1, <2>2 DEF Like, PagesInv, Ahead, Uncut, NoRowTwice
<1>6. ASSUME NEW p \in Places, Unlike(p) PROVE PagesInv'
  <2>1. PagesTypeOK'
    BY <1>2, <1>6 DEF Unlike, PagesTypeOK
  <2>2. NothingSkipped'
    BY <1>6 DEF Unlike, PagesInv, NothingSkipped, GivenOut, Below
  <2> QED
    BY <1>1, <1>6, <2>1, <2>2 DEF Unlike, PagesInv, Ahead, Uncut, NoRowTwice
<1>7. CASE TooMany \/ Limiter \/ UNCHANGED vars
  BY <1>1, <1>7, PagesStay DEF TooMany, Limiter, vars
<1> QED
  BY <1>3, <1>4, <1>5, <1>6, <1>7 DEF PagesNext

-----------------------------------------------------------------------------
(***************************************************************************)
(* The theorems.                                                           *)
(***************************************************************************)

\* What is known of the bucket and of the walk holds in every state.
THEOREM PagesInductive == PagesSpec => []PagesInv
<1>1. PagesInit => PagesInv
  BY PagesInvInit
<1>2. PagesInv /\ [PagesNext]_vars => PagesInv'
  BY PagesInvNext
<1> QED
  BY <1>1, <1>2, PTL DEF PagesSpec

\* The bucket and the walk of a client keep their types (rate_limit.lua,
\* get_user_liked_items).
THEOREM PagesTypeCorrect == PagesSpec => []PagesTypeOK
<1>1. PagesInv => PagesTypeOK
  BY DEF PagesInv
<1> QED
  BY <1>1, PagesInductive, PTL

\* No stretch of admitted requests exceeds a bucket and its refill, for any
\* limit, window and clocks, as long as the TTL of a key outlasts the window
\* and the drift of the clocks (rate_limit.lua).
THEOREM BucketBounds == PagesSpec => []RateBounded
<1>1. PagesInv => RateBounded
  BY DEF PagesInv, RateInv
<1> QED
  BY <1>1, PagesInductive, PTL

\* A client that waits as long as Retry-After says finds a full bucket
\* (rate_limit.lua, rate_limit_layer).
THEOREM ResetTimesHold == PagesSpec => []ResetHonored
<1>1. PagesInit => ResetHonored
  BY RateInvInit DEF PagesInit
<1>2. PagesInv /\ ResetHonored /\ [PagesNext]_vars => ResetHonored'
  <2> SUFFICES ASSUME PagesInv, ResetHonored, [PagesNext]_vars PROVE ResetHonored'
    OBVIOUS
  <2>1. [RateNext]_rateVars
    BY DEF PagesNext, vars, Begin, TooMany, Limiter, Page, Like, Unlike, RateNext
  <2> QED
    BY <2>1, ResetHonoredNext DEF PagesInv
<1> QED
  BY <1>1, <1>2, PagesInductive, PTL DEF PagesSpec

\* Pages neither overlap nor go back up, whatever is written between them
\* (get_user_likes).
THEOREM PagesDoNotRepeat == PagesSpec => []NoRowTwice
<1>1. PagesInv => NoRowTwice
  BY DEF PagesInv
<1> QED
  BY <1>1, PagesInductive, PTL

\* A walk serves every row that stays (get_user_liked_items), for any page
\* sizes, if it does not end with the size whose limit + 1 wraps to LIMIT 0.
THEOREM PagesDoNotSkip == PagesSpec => []NothingSkipped
<1>1. PagesInv => NothingSkipped
  BY DEF PagesInv
<1> QED
  BY <1>1, PagesInductive, PTL
=============================================================================
