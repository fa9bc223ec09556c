------------------------- MODULE ServiceCallsProofs -------------------------
(***************************************************************************)
(* The token bucket for every capacity, refill rate and number of callers: *)
(* BucketInv is inductive.  Calls through the resilient transport for      *)
(* every number of callers and every bucket, schedule and budget: CallInv  *)
(* is inductive.  Signed calls to a service for every operation, endpoint  *)
(* and answer: ServiceInv is.                                              *)
(***************************************************************************)
EXTENDS ServiceCalls, SequenceTheorems, FiniteSetTheorems, NaturalsInduction, TLAPS

-----------------------------------------------------------------------------
(* The token bucket *)

\* A refill never loses millitokens, never exceeds the capacity and gains at
\* most what the elapsed time is worth.
LEMMA RefillBounds ==
    ASSUME tokens \in 0..Full, last \in Nat, NEW t \in Nat
    PROVE  /\ RefilledTokens(t) \in 0..Full
           /\ RefilledLast(t) \in Nat
           /\ RefilledLast(t) >= last
           /\ RefilledTokens(t) - tokens <= Refill * (RefilledLast(t) - last)
  <1>1. Full \in Nat
    BY BucketAssumption DEF Full
  <1>2. CASE t > last
    <2> DEFINE gained == Refill * (t - last)
    <2>1. gained \in Nat
      BY <1>2, BucketAssumption
    <2>2. RefilledLast(t) = t
      BY <1>2 DEF RefilledLast
    <2>3. RefilledTokens(t) = AtMost(Full, tokens + gained)
      BY <1>2 DEF RefilledTokens
    <2>4. /\ AtMost(Full, tokens + gained) \in 0..Full
          /\ AtMost(Full, tokens + gained) - tokens <= gained
      <3> HIDE DEF gained
      <3> QED BY <1>1, <2>1 DEF AtMost
    <2> QED BY <1>2, <2>2, <2>3, <2>4
  <1>3. CASE ~(t > last)
    BY <1>3, BucketAssumption DEF RefilledTokens, RefilledLast
  <1> QED BY <1>2, <1>3

\* What a refill is worth adds up over adjacent spans of time.
LEMMA RefillAdds ==
    ASSUME NEW a \in Nat, NEW b \in Nat, NEW c \in Nat
    PROVE  Refill * (c - a) = Refill * (b - a) + Refill * (c - b)
  BY SMTT(30), BucketAssumption

LEMMA RefillFromZero ==
    ASSUME NEW b \in Nat, NEW c \in Nat
    PROVE  Refill * c = Refill * b + Refill * (c - b)
  BY SMTT(30), BucketAssumption

LEMMA DropTerm ==
    ASSUME NEW x \in Int, NEW y \in Int, NEW f \in Nat, NEW k \in Nat,
           x + k <= f + y
    PROVE  x <= f + y
  OBVIOUS

\* A refill worth at most z keeps a bound that z is added to.
LEMMA AddGain ==
    ASSUME NEW x \in Int, NEW k \in Int, NEW r \in Int, NEW f \in Int,
           NEW y \in Int, NEW z \in Int,
           x + k <= f + y, r - k <= z
    PROVE  x + r <= f + (y + z)
  OBVIOUS

\* Taking a cost that the left side gains leaves a bound as it is.
LEMMA TakeCost ==
    ASSUME NEW x \in Int, NEW c \in Int, NEW r \in Int, NEW b \in Int,
           x + r <= b
    PROVE  (x + c) + (r - c) <= b
  OBVIOUS

\* The part of a step that refills the bucket to t and takes cost millitokens.
LEMMA RefillKeepsBursts ==
    ASSUME BucketInv, NEW t \in Nat, NEW i \in 1..Len(grants)
    PROVE  Unit * (Len(grants) - i + 1) + RefilledTokens(t)
             <= Full + Refill * (RefilledLast(t) - grants[i].booked)
  <1> DEFINE booked == grants[i].booked
  <1>1. booked \in Nat /\ last \in Nat /\ tokens \in 0..Full
    <2>1. grants \in Seq(Grant) /\ last \in 0..MaxTime /\ tokens \in 0..Full
      BY DEF BucketInv, BucketTypeOK
    <2>2. grants[i] \in Grant
      BY <2>1, ElementOfSeq
    <2> QED BY <2>1, <2>2, BucketAssumption DEF Grant
  <1>2. /\ RefilledTokens(t) \in 0..Full
        /\ RefilledLast(t) \in Nat
        /\ RefilledTokens(t) - tokens <= Refill * (RefilledLast(t) - last)
    BY <1>1, RefillBounds
  <1>3. Refill * (RefilledLast(t) - booked)
          = Refill * (last - booked) + Refill * (RefilledLast(t) - last)
    BY <1>1, <1>2, RefillAdds
  <1>4. Burst(i)
    BY DEF BucketInv
  <1> DEFINE x == Unit * (Len(grants) - i + 1)
             y == Refill * (last - booked)
             z == Refill * (RefilledLast(t) - last)
  <1>5. x \in Int /\ y \in Int /\ z \in Int /\ Full \in Nat
    BY SMTT(60), <1>1, <1>2, BucketAssumption DEF BucketInv, BucketTypeOK, Full
  <1>6. x + tokens <= Full + y
    BY <1>4 DEF Burst
  <1>7. Refill * (RefilledLast(t) - booked) = y + z
    BY <1>3
  <1>8. RefilledTokens(t) - tokens <= z
    BY <1>2
  <1>9. tokens \in Int /\ RefilledTokens(t) \in Int
    BY <1>1, <1>2, <1>5
  <1> HIDE DEF x, y, z
  <1>10. x + RefilledTokens(t) <= Full + (y + z)
    BY <1>5, <1>6, <1>8, <1>9, AddGain
  <1> QED BY <1>7, <1>10 DEF x

-----------------------------------------------------------------------------
\* What the invariant says of the types, in the form the steps use.
LEMMA Types ==
    ASSUME BucketInv
    PROVE  /\ now \in Nat /\ last \in Nat /\ tokens \in 0..Full /\ Full \in Nat
           /\ Len(grants) \in Nat
           /\ \A i \in 1..Len(grants) : grants[i] \in Grant /\ grants[i].booked \in Nat
  <1>1. grants \in Seq(Grant) /\ last \in 0..MaxTime /\ tokens \in 0..Full
        /\ now \in 0..MaxTime
    BY DEF BucketInv, BucketTypeOK
  <1>2. \A i \in 1..Len(grants) : grants[i] \in Grant
    BY <1>1, ElementOfSeq
  <1> QED BY <1>1, <1>2, BucketAssumption DEF Grant, Full

\* A step that refills to a reading no newer than the clock and takes nothing.
LEMMA RefillStep ==
    ASSUME BucketInv,
           NEW t \in Nat, t <= now, t <= MaxTime,
           tokens' = RefilledTokens(t),
           last' = RefilledLast(t),
           reading' \in [Caller -> 0..MaxTime \cup {None}],
           \A c \in Caller : reading'[c] # None => reading'[c] <= now,
           UNCHANGED <<now, grants>>
    PROVE  BucketInv'
  <1> USE Types
  <1>1. /\ RefilledTokens(t) \in 0..Full
        /\ RefilledLast(t) \in Nat
        /\ RefilledLast(t) >= last
        /\ RefilledTokens(t) - tokens <= Refill * (RefilledLast(t) - last)
    BY RefillBounds
  <1>2. RefilledLast(t) <= now /\ RefilledLast(t) <= MaxTime
    BY DEF RefilledLast, BucketInv, BucketTypeOK
  <1>3. BucketTypeOK'
    BY <1>1, <1>2 DEF BucketInv, BucketTypeOK, Full
  <1>4. (Unit * Len(grants) + tokens <= Full + Refill * last)'
    <2>1. Refill * RefilledLast(t)
            = Refill * last + Refill * (RefilledLast(t) - last)
      <3>1. last \in Nat /\ RefilledLast(t) \in Nat
        BY <1>1
      <3> QED BY <3>1, RefillFromZero
    <2> DEFINE x == Unit * Len(grants)  y == Refill * last
               z == Refill * (RefilledLast(t) - last)
               w == Refill * RefilledLast(t)
    <2>2. x \in Int /\ y \in Int /\ z \in Int /\ w \in Int
      BY <1>1, BucketAssumption
    <2>3. w = y + z
      BY <1>1, <2>1
    <2>4. x + tokens <= Full + y
      BY DEF BucketInv
    <2>5. RefilledTokens(t) - tokens <= z
      BY <1>1
    <2>6. x + RefilledTokens(t) <= Full + w
      <3>1. tokens \in Int /\ RefilledTokens(t) \in Int /\ Full \in Int
        BY <1>1
      <3> HIDE DEF x, y, z, w
      <3>2. x + RefilledTokens(t) <= Full + (y + z)
        BY <2>2, <2>4, <2>5, <3>1, AddGain
      <3> QED BY <2>3, <3>2
    <2> QED BY <2>6 DEF Full
  <1>5. \A i \in 1..Len(grants) : grants[i].booked <= RefilledLast(t)
    BY SMTT(60), <1>1 DEF BucketInv
  <1>6. \A i \in 1..Len(grants) : Burst(i)'
    BY RefillKeepsBursts DEF Burst, Full
  <1>7. WindowBound'
    BY DEF BucketInv, WindowBound, Paced, Full
  <1> QED BY <1>2, <1>3, <1>4, <1>5, <1>6, <1>7 DEF BucketInv

\* A step that leaves the bucket alone.
LEMMA ClockStep ==
    ASSUME BucketInv, now' \in 0..MaxTime, now' >= now,
           reading' \in [Caller -> 0..MaxTime \cup {None}],
           \A c \in Caller : reading'[c] # None => reading'[c] <= now',
           UNCHANGED <<tokens, last, grants>>
    PROVE  BucketInv'
  <1>1. now \in Nat /\ now' \in Nat /\ last \in Nat /\ last <= now
    BY Types, BucketAssumption DEF BucketInv
  <1>2. (last <= now)'
    BY <1>1
  <1>3. BucketTypeOK'
    BY DEF BucketInv, BucketTypeOK
  <1>4. (Unit * Len(grants) + tokens <= Full + Refill * last)'
    BY DEF BucketInv, Full
  <1>5. (\A i \in 1..Len(grants) : grants[i].booked <= last)'
    BY DEF BucketInv
  <1>6. (\A i \in 1..Len(grants) : Burst(i))'
    BY DEF BucketInv, Burst, Full
  <1>7. WindowBound'
    BY DEF BucketInv, WindowBound, Paced, Full
  <1> QED BY <1>2, <1>3, <1>4, <1>5, <1>6, <1>7 DEF BucketInv

\* A step that takes a token after the refill.
LEMMA GrantStep ==
    ASSUME BucketInv, NEW caller \in Caller, Granted(caller)
    PROVE  BucketInv'
  <1> DEFINE t == reading[caller]
             booked == RefilledLast(t)
             n == Len(grants)
  <1>0. /\ now \in Nat /\ last \in Nat /\ tokens \in 0..Full /\ Full \in Nat
        /\ n \in Nat
        /\ \A i \in 1..n : grants[i] \in Grant /\ grants[i].booked \in Nat
    BY Types
  <1>1. t \in Nat /\ t <= now /\ t <= MaxTime
    BY <1>0, BucketAssumption DEF Granted, BucketInv, BucketTypeOK
  <1>2. /\ RefilledTokens(t) \in 0..Full
        /\ booked \in Nat
        /\ booked >= last
        /\ RefilledTokens(t) - tokens <= Refill * (booked - last)
    BY <1>0, <1>1, RefillBounds
  <1>3. /\ tokens' = RefilledTokens(t) - Unit
        /\ RefilledTokens(t) >= Unit
        /\ last' = booked
        /\ grants' = Append(grants, [at |-> now, booked |-> booked])
        /\ reading' = [reading EXCEPT ![caller] = None]
        /\ now' = now
    BY DEF Granted
  <1>4. booked <= now /\ booked <= MaxTime
    BY <1>0, <1>1 DEF RefilledLast, BucketInv, BucketTypeOK
  <1>5. /\ grants' \in Seq(Grant)
        /\ Len(grants') = n + 1
        /\ grants'[n + 1].booked = booked
        /\ \A i \in 1..n : grants'[i] = grants[i]
    <2>1. [at |-> now, booked |-> booked] \in Grant
      BY <1>0, <1>2 DEF Grant
    <2> QED BY <1>0, <1>3, <2>1, AppendProperties DEF BucketInv, BucketTypeOK
  <1>6. BucketTypeOK'
    BY SMTT(60), <1>0, <1>2, <1>3, <1>4, <1>5, BucketAssumption DEF BucketInv, BucketTypeOK, Full
  <1>7. ASSUME NEW i \in 1..n
        PROVE  Unit * (n - i + 1) + RefilledTokens(t)
                 <= Full + Refill * (booked - grants[i].booked)
    BY <1>0, <1>1, RefillKeepsBursts
  <1>8. \A i \in 1..(n + 1) : Burst(i)'
    <2> SUFFICES ASSUME NEW i \in 1..(n + 1) PROVE Burst(i)'
      OBVIOUS
    <2>1. CASE i \in 1..n
      <3> DEFINE y == Refill * (booked - grants[i].booked)
                 x == Unit * (n - i + 1)
      <3>1. y \in Int
        BY <1>0, <1>2, BucketAssumption, <2>1
      <3>2. Unit * (n - i + 1) + RefilledTokens(t) <= Full + y
        BY <1>0, <1>7, <2>1
      <3>3. Unit * (n + 1 - i + 1) = Unit * (n - i + 1) + Unit
        BY <1>0, BucketAssumption
      <3>4. Unit * (n - i + 1) \in Int /\ Unit \in Nat
        BY <1>0, BucketAssumption
      <3>5. Unit * (n + 1 - i + 1) + (RefilledTokens(t) - Unit) <= Full + y
        <4>1. RefilledTokens(t) \in Int /\ Full + y \in Int
          BY <1>0, <1>2, <3>1
        <4>2. x \in Int /\ Unit \in Int /\ x + RefilledTokens(t) <= Full + y
          BY <3>2, <3>4
        <4>3. Unit * (n + 1 - i + 1) = x + Unit
          BY <3>3
        <4> HIDE DEF y, x
        <4>4. (x + Unit) + (RefilledTokens(t) - Unit) <= Full + y
          BY <4>1, <4>2, TakeCost
        <4> QED BY <4>3, <4>4
      <3> QED BY <1>0, <1>3, <1>5, <2>1, <3>5 DEF Burst, Full
    <2>2. CASE i = n + 1
      <3>1. Unit * (n + 1 - i + 1) = Unit
        BY <2>2, BucketAssumption
      <3>2. Refill * (booked - booked) = 0
        BY <1>0, <1>2, BucketAssumption
      <3> QED BY <1>0, <1>2, <1>3, <1>5, <2>2, <3>1, <3>2, BucketAssumption DEF Burst, Full
    <2> QED BY <1>0, <2>1, <2>2
  <1>9. \A i \in 1..(n + 1) : grants'[i].booked <= booked
    <2>1. booked \in Nat /\ last \in Nat /\ last <= booked
      BY <1>0, <1>2
    <2> SUFFICES ASSUME NEW i \in 1..(n + 1) PROVE grants'[i].booked <= booked
      OBVIOUS
    <2>2. CASE i \in 1..n
      <3>1. grants[i].booked \in Nat /\ grants[i].booked <= last
        BY <1>0, <2>2 DEF BucketInv
      <3>2. grants'[i].booked = grants[i].booked
        BY <1>5, <2>2
      <3> QED BY <2>1, <3>1, <3>2
    <2>3. CASE i = n + 1
      BY <1>5, <2>1, <2>3
    <2> QED BY <1>0, <2>2, <2>3
  <1>10. WindowBound'
    <2> SUFFICES ASSUME NEW j \in 1..(n + 1), NEW i \in 1..j PROVE Paced(i, j)'
      BY <1>0, <1>5 DEF WindowBound
    <2>1. CASE j \in 1..n
      <3>1. i \in 1..n /\ Paced(i, j)
        BY <1>0, <2>1 DEF BucketInv, WindowBound
      <3> QED BY <1>0, <1>5, <2>1, <3>1 DEF Paced, Full
    <2>2. CASE j = n + 1
      <3>1. i \in 1..(n + 1) /\ grants'[j].booked = booked
        BY <1>0, <1>5, <2>2
      <3>2. Unit * (n + 1 - i + 1) + tokens'
              <= Full + Refill * (booked - grants'[i].booked)
        BY <1>0, <1>3, <1>5, <1>8, <3>1 DEF Burst, Full
      <3>3. tokens' >= 0 /\ Unit * (n + 1 - i + 1) \in Int
        BY <1>0, <1>2, <1>3, BucketAssumption
      <3>4. Refill * (booked - grants'[i].booked) \in Int
        <4>1. grants'[i].booked \in Nat
          BY SMTT(60), <1>0, <1>2, <1>5, <3>1
        <4> QED BY <1>0, <1>2, <4>1, BucketAssumption
      <3>5. tokens' \in Int
        BY <1>0, <1>2, <1>3, BucketAssumption
      <3>6. Full \in Nat /\ tokens' \in Nat
        BY <1>0, <3>3, <3>5
      <3>7. Unit * (n + 1 - i + 1) <= Full + Refill * (booked - grants'[i].booked)
        BY <3>2, <3>3, <3>4, <3>6, DropTerm
      <3> QED BY <2>2, <3>1, <3>7 DEF Paced, Full
    <2> QED BY <1>0, <2>1, <2>2
  <1>11. (Unit * Len(grants) + tokens <= Full + Refill * last)'
    <2> DEFINE x == Unit * n   y == Refill * last
               z == Refill * (booked - last)   w == Refill * booked
    <2>1. x \in Int /\ y \in Int /\ z \in Int /\ w \in Int /\ Unit \in Nat
      BY <1>0, <1>2, BucketAssumption
    <2>2. w = y + z
      <3>1. last \in Nat /\ booked \in Nat
        BY <1>0, <1>2
      <3> QED BY <3>1, RefillFromZero
    <2>3. x + tokens <= Full + y /\ RefilledTokens(t) - tokens <= z
      BY <1>0, <1>2 DEF BucketInv
    <2>4. Unit * (n + 1) = x + Unit
      BY <1>0, BucketAssumption
    <2>5. Unit * (n + 1) + (RefilledTokens(t) - Unit) <= Full + w
      <3>1. RefilledTokens(t) \in Int /\ Unit * (n + 1) \in Int
        BY <1>0, <1>2, BucketAssumption
      <3>2. tokens \in Int /\ Full \in Int
        BY <1>0
      <3> HIDE DEF x, y, z, w
      <3>3. x + RefilledTokens(t) <= Full + (y + z)
        BY <2>1, <2>3, <3>1, <3>2, AddGain
      <3>4. Full + (y + z) \in Int
        BY <2>1, <3>2
      <3>5. (x + Unit) + (RefilledTokens(t) - Unit) <= Full + (y + z)
        BY <2>1, <3>1, <3>3, <3>4, TakeCost
      <3> QED BY <2>2, <2>4, <3>5
    <2> QED BY <1>0, <1>3, <1>5, <2>5 DEF Full
  <1>12. (last <= now)' /\ (\A c \in Caller : reading[c] # None => reading[c] <= now)'
    BY <1>0, <1>3, <1>4 DEF BucketInv, BucketTypeOK
  <1> QED BY <1>0, <1>3, <1>5, <1>6, <1>8, <1>9, <1>10, <1>11, <1>12 DEF BucketInv

-----------------------------------------------------------------------------
\* A full bucket that granted nothing.
LEMMA BucketStarts ==
    ASSUME BucketInit
    PROVE  BucketInv
  <1>1. Full \in Nat
    BY BucketAssumption DEF Full
  <1>2. Len(grants) = 0 /\ grants \in Seq(Grant)
    BY DEF BucketInit
  <1> QED BY <1>1, <1>2, BucketAssumption
          DEF BucketInit, BucketInv, BucketTypeOK, WindowBound

\* Every step of the bucket and of its clock keeps the invariant.
LEMMA BucketKeeps ==
    ASSUME BucketInv, [BucketNext]_bucketVars
    PROVE  BucketInv'
  <1>1. CASE Tick
    <2>1. now \in Nat /\ last \in Nat
      BY Types
    <2>2. now' = now + 1 /\ now < MaxTime /\ UNCHANGED <<reading, tokens, last, grants>>
      BY <1>1 DEF Tick
    <2>3. reading \in [Caller -> 0..MaxTime \cup {None}]
          /\ \A d \in Caller : reading[d] # None => reading[d] <= now
      BY DEF BucketInv, BucketTypeOK
    <2>4. now' \in 0..MaxTime /\ now' >= now
      BY <2>1, <2>2, BucketAssumption
    <2>5. \A d \in Caller : reading'[d] # None => reading'[d] <= now'
      BY <2>1, <2>2, <2>3, BucketAssumption
    <2> QED BY <2>2, <2>3, <2>4, <2>5, ClockStep
  <1>2. ASSUME NEW c \in Caller, ReadClock(c) PROVE BucketInv'
    <2>1. now \in Nat /\ now \in 0..MaxTime
          /\ reading \in [Caller -> 0..MaxTime \cup {None}]
          /\ \A d \in Caller : reading[d] # None => reading[d] <= now
      BY BucketAssumption DEF BucketInv, BucketTypeOK
    <2>2. reading' = [reading EXCEPT ![c] = now] /\ UNCHANGED <<now, tokens, last, grants>>
      BY <1>2 DEF ReadClock
    <2>3. reading' \in [Caller -> 0..MaxTime \cup {None}]
      BY <2>1, <2>2
    <2>4. \A d \in Caller : reading'[d] # None => reading'[d] <= now
      BY <2>1, <2>2
    <2> QED BY <2>1, <2>2, <2>3, <2>4, ClockStep
  <1>3. ASSUME NEW c \in Caller, Granted(c) PROVE BucketInv'
    BY <1>3, GrantStep
  <1>4. ASSUME NEW c \in Caller, Withheld(c) \/ Available(c) PROVE BucketInv'
    <2>1. reading[c] \in Nat /\ reading[c] <= now /\ reading[c] <= MaxTime
      BY <1>4, BucketAssumption DEF Withheld, Available, BucketInv, BucketTypeOK
    <2>2. /\ reading' = [reading EXCEPT ![c] = None]
          /\ tokens' = RefilledTokens(reading[c])
          /\ last' = RefilledLast(reading[c])
          /\ UNCHANGED <<now, grants>>
      BY <1>4 DEF Withheld, Available
    <2>3. /\ reading' \in [Caller -> 0..MaxTime \cup {None}]
          /\ \A d \in Caller : reading'[d] # None => reading'[d] <= now
      BY <2>2 DEF BucketInv, BucketTypeOK
    <2> QED BY <2>1, <2>2, <2>3, RefillStep
  <1>5. CASE UNCHANGED bucketVars
    BY <1>5 DEF bucketVars, BucketInv, BucketTypeOK, WindowBound, Paced, Burst, Full
  <1> QED BY <1>1, <1>2, <1>3, <1>4, <1>5 DEF BucketNext

\* BucketInv holds in every reachable state, for every number of callers.
THEOREM BucketInvariance == BucketSpec => []BucketInv
  <1>1. BucketInit => BucketInv
    BY BucketStarts
  <1>2. BucketInv /\ [BucketNext]_bucketVars => BucketInv'
    BY BucketKeeps
  <1> QED BY <1>1, <1>2, PTL DEF BucketSpec

\* The accounting bounds what was given out between any two grants, and since the
\* bucket was made.
LEMMA BucketPaces ==
    ASSUME BucketInv
    PROVE  WindowBound /\ TotalBound
  <1> USE Types
  <1> DEFINE x == Unit * Len(grants)   y == Refill * last   w == Refill * now
  <1>1. x \in Int /\ y \in Int /\ w \in Int /\ x + tokens <= Full + y
    BY BucketAssumption DEF BucketInv
  <1>2. y <= w
    BY BucketAssumption DEF BucketInv
  <1>3. x <= Full + w
    <2> HIDE DEF x, y, w
    <2> QED BY <1>1, <1>2
  <1> QED BY <1>3 DEF TotalBound, BucketInv

\* Between any two grants the bucket gave out at most a burst and the refill of
\* the time between them, however stale the readings of the callers were.
THEOREM WindowsPaced == BucketSpec => []WindowBound
  <1>1. BucketInv => WindowBound
    BY BucketPaces
  <1> QED BY <1>1, BucketInvariance, PTL

\* Since its creation the bucket gave out at most a burst and the refill of the
\* time that really went by.
THEOREM TotalPaced == BucketSpec => []TotalBound
  <1>1. BucketInv => TotalBound
    BY BucketPaces
  <1> QED BY <1>1, BucketInvariance, PTL

-----------------------------------------------------------------------------
\* Division rounded up: the least multiple of b that reaches d.
LEMMA CeilingDivision ==
    ASSUME NEW d \in Nat \ {0}, NEW b \in Nat \ {0}
    PROVE  LET w == (d + b - 1) \div b
           IN  w \in Nat \ {0} /\ b * w >= d /\ b * (w - 1) < d
  <1> DEFINE a == d + b - 1
             w == a \div b
             r == a % b
  <1>1. a \in Nat /\ w \in Int
    BY SMT
  <1>2. r \in 0..(b - 1) /\ a = b * w + r
    BY <1>1, SMT
  <1>3. b * w = d + (b - 1) - r
    BY <1>2, SMT
  <1>4. b * w >= d /\ b * w < d + b
    BY <1>1, <1>2, <1>3, SMT
  <1>5. b * (w - 1) = b * w - b
    BY <1>1, SMT
  <1>6. w > 0
    BY <1>1, <1>4, SMT
  <1> QED BY <1>1, <1>4, <1>5, <1>6, SMT

\* The wait try_take reports is exactly the time until a token is there,
\* whatever the refill rate is and whatever fraction of a token is held.
LEMMA WaitsAreExact ==
    ASSUME BucketInv
    PROVE  WaitIsExact
  <1> SUFFICES ASSUME tokens < Unit, Capacity > 0, Refill > 0
               PROVE  /\ RefilledTokens(last + Wait(tokens)) >= Unit
                      /\ RefilledTokens(last + Wait(tokens) - 1) < Unit
    BY DEF WaitIsExact
  <1> DEFINE w == Wait(tokens)
             d == Unit - tokens
  <1>1. last \in Nat /\ tokens \in Nat /\ Full \in Nat
    BY Types
  <1>2. d \in Nat \ {0} /\ Refill \in Nat \ {0} /\ Unit \in Nat
    BY <1>1, BucketAssumption
  <1>3. w = (d + Refill - 1) \div Refill
    BY <1>2 DEF Wait
  <1>4. w \in Nat \ {0} /\ Refill * w >= d /\ Refill * (w - 1) < d
    <2> HIDE DEF d
    <2> QED BY <1>2, <1>3, CeilingDivision
  <1>5. Full >= Unit
    BY BucketAssumption DEF Full
  <1>6. RefilledTokens(last + w) >= Unit
    <2>1. last + w > last /\ (last + w) - last = w
      BY <1>1, <1>4
    <2>2. RefilledTokens(last + w) = AtMost(Full, tokens + Refill * w)
      BY <2>1 DEF RefilledTokens
    <2>3. tokens + Refill * w >= Unit /\ Refill * w \in Int
      BY <1>1, <1>2, <1>4
    <2> QED BY <1>1, <1>5, <2>2, <2>3 DEF AtMost
  <1>7. RefilledTokens(last + w - 1) < Unit
    <2>1. CASE w = 1
      <3>1. ~(last + w - 1 > last)
        BY <1>1, <2>1
      <3> QED BY <3>1 DEF RefilledTokens
    <2>2. CASE w > 1
      <3>1. last + w - 1 > last /\ (last + w - 1) - last = w - 1
        BY <1>1, <1>4, <2>2
      <3>2. RefilledTokens(last + w - 1) = AtMost(Full, tokens + Refill * (w - 1))
        BY <3>1 DEF RefilledTokens
      <3>3. tokens + Refill * (w - 1) < Unit /\ Refill * (w - 1) \in Int
        BY <1>1, <1>2, <1>4
      <3> QED BY <1>1, <1>2, <1>5, <3>2, <3>3 DEF AtMost
    <2> QED BY <1>4, <2>1, <2>2
  <1> QED BY <1>6, <1>7

\* So it is told in every reachable state of the bucket.
THEOREM WaitsExact == BucketSpec => []WaitIsExact
  <1>1. BucketInv => WaitIsExact
    BY WaitsAreExact
  <1> QED BY <1>1, BucketInvariance, PTL

-----------------------------------------------------------------------------
(* The resilient transport *)

\* Induction over the numbers in a set, by its least counterexample.
LEMMA Induction ==
    ASSUME NEW T, 0 \in T, \A n \in Nat : n \in T => n + 1 \in T
    PROVE  Nat \subseteq T
  <1> DEFINE Missing == {n \in Nat : n \notin T}
  <1> SUFFICES ASSUME Missing # {} PROVE FALSE
    OBVIOUS
  <1>1. IsWellFoundedOn(OpToRel(<, Nat), Nat)
    BY NatLessThanWellFounded
  <1>2. Missing \subseteq Nat
    OBVIOUS
  <1>3. PICK m \in Missing : \A n \in Missing : <<n, m>> \notin OpToRel(<, Nat)
    <2> HIDE DEF Missing
    <2> QED BY <1>1, <1>2, WFMin
  <1>4. m \in Nat \ {0} /\ m - 1 \in Nat /\ m - 1 < m
    OBVIOUS
  <1>5. m - 1 \notin Missing
    BY <1>3, <1>4 DEF OpToRel
  <1> QED BY <1>4, <1>5

\* The growth of the backoff is a number, for every factor and every attempt.
LEMMA GrowthType == \A n \in Nat : Growth[n] \in Nat
  <1> DEFINE Numbers == {n \in Nat : Growth[n] \in Nat}
  <1>1. NatInductiveDefHypothesis(Growth, 1, Grown)
    BY DEF NatInductiveDefHypothesis, Growth
  <1>2. NatInductiveDefConclusion(Growth, 1, Grown)
    BY <1>1, NatInductiveDef
  <1>3. \A n \in Nat : Growth[n] = IF n = 0 THEN 1 ELSE Grown(Growth[n - 1], n)
    BY <1>2 DEF NatInductiveDefConclusion
  <1>4. Growth[0] = 1 /\ \A n \in Nat : Growth[n + 1] = Growth[n] * Factor
    BY <1>3 DEF Grown
  <1>5. 0 \in Numbers
    BY <1>4
  <1>6. \A n \in Nat : n \in Numbers => n + 1 \in Numbers
    BY <1>4, PolicyAssumption
  <1>7. Nat \subseteq Numbers
    BY <1>5, <1>6, Induction
  <1> QED BY <1>7

\* So is what it is cut to, and everything a jitter makes of it.
LEMMA ScheduledType ==
    ASSUME NEW n \in Nat, NEW delay \in Jittered(Scheduled(n))
    PROVE  delay \in Nat
  <1>1. Growth[n] \in Nat
    BY GrowthType
  <1>2. Base * Growth[n] \in Nat /\ MaxDelay \in Nat
    BY <1>1, PolicyAssumption
  <1>3. Scheduled(n) \in Nat
    BY <1>2 DEF Scheduled, AtMost
  <1> HIDE DEF Scheduled
  <1>4. CASE Jitter = "none"
    BY <1>3, <1>4 DEF Jittered
  <1>5. CASE Jitter = "full"
    BY <1>3, <1>5 DEF Jittered
  <1>6. CASE Jitter = "equal"
    BY <1>3, <1>6 DEF Jittered
  <1> QED BY <1>4, <1>5, <1>6, PolicyAssumption

-----------------------------------------------------------------------------
(* The transport and the retry policy *)

\* What a call can do, whatever Retry-After its answers carry.
Step(c) ==
    \/ Begin(c)
    \/ Proceed(c)
    \/ \E result \in {"response", "error"} : Conclude(c, result)
    \/ \E hint \in Nat : Retry(c, hint)
    \/ \E result \in {"spent", "exhausted"} : GiveUp(c, result)

AnyStep == Pass \/ \E c \in Caller : Step(c)

\* The calls of module Resilience take such steps.
LEMMA NextIsAnyStep ==
    ASSUME [Next]_vars
    PROVE  [AnyStep]_vars
  <1>1. \A hint \in Hint \cup {0} : hint \in Nat
    BY PolicyAssumption
  <1> QED BY <1>1 DEF Next, AnyStep, Step, Answer

\* Every step of a call is a step of its bucket, or none.
LEMMA StepUsesBucket ==
    ASSUME [AnyStep]_vars
    PROVE  [BucketNext]_bucketVars
  <1>1. CASE Pass
    BY <1>1 DEF Pass, BucketNext
  <1>2. ASSUME NEW c \in Caller, Step(c)
        PROVE  [BucketNext]_bucketVars
    BY <1>2 DEF Step, Begin, Proceed, Read, Admit, Shed, Reacquire, Send, Resend,
                Conclude, Retry, GiveUp, BucketNext
  <1>3. CASE UNCHANGED vars
    BY <1>3 DEF vars
  <1> QED BY <1>1, <1>2, <1>3 DEF AnyStep

\* The values of a call's variables.
LEMMA CallTypes ==
    ASSUME CallInv, NEW c \in Caller
    PROVE  /\ now \in Nat /\ start[c] \in Nat /\ attempt[c] \in Nat /\ wake[c] \in Nat
           /\ heldUntil[c] \in Nat /\ sent[c] \in Seq(Nat) /\ Len(sent[c]) \in Nat
           /\ MaxTotal \in Nat /\ Deadline(c) \in Nat /\ CallOK(c)
           /\ MaxRetries # None => MaxRetries \in Nat
  <1>1. now \in Nat
    BY Types DEF CallInv
  <1>2. /\ start[c] \in Nat /\ attempt[c] \in Nat /\ wake[c] \in Nat
        /\ heldUntil[c] \in Nat /\ sent[c] \in Seq(Nat) /\ CallOK(c)
    BY DEF CallInv, TypeOK
  <1>3. MaxTotal \in Nat /\ (MaxRetries # None => MaxRetries \in Nat)
    BY PolicyAssumption
  <1> QED BY <1>1, <1>2, <1>3 DEF Deadline

\* A call keeps its part of the invariant while its variables stay as they are.
LEMMA CallAside ==
    ASSUME CallInv, NEW c \in Caller, now' \in Nat, now' >= now,
           pc'[c] = pc[c], start'[c] = start[c], attempt'[c] = attempt[c],
           wake'[c] = wake[c], sent'[c] = sent[c], heldUntil'[c] = heldUntil[c]
    PROVE  CallOK(c)'
  <1>0. /\ now \in Nat /\ start[c] \in Nat /\ sent[c] \in Seq(Nat) /\ Len(sent[c]) \in Nat
        /\ InLimiter(c) /\ SendsCounted(c) /\ SendsInTime(c)
    BY CallTypes DEF CallOK
  <1>1. InLimiter(c)'
    BY <1>0 DEF InLimiter
  <1>2. SendsCounted(c)'
    BY <1>0 DEF SendsCounted
  <1>3. SendsInTime(c)'
    <2>1. \A i \in 1..Len(sent[c]) : sent[c][i] \in Nat
      BY <1>0
    <2> QED BY <1>0, <2>1 DEF SendsInTime, Deadline
  <1> QED BY <1>1, <1>2, <1>3 DEF CallOK

\* A step of one call leaves the others alone.
LEMMA OthersAside ==
    ASSUME CallInv, NEW c \in Caller, Step(c), NEW d \in Caller, d # c
    PROVE  CallOK(d)'
  <1>1. /\ pc'[d] = pc[d] /\ start'[d] = start[d] /\ attempt'[d] = attempt[d]
        /\ wake'[d] = wake[d] /\ sent'[d] = sent[d] /\ heldUntil'[d] = heldUntil[d]
    BY DEF Step, Begin, Proceed, Read, Admit, Shed, Reacquire, Send, Resend,
           Conclude, Retry, GiveUp, Goto, callVars, CallInv, TypeOK
  <1>2. now' = now
    BY DEF Step, Begin, Proceed, Read, Admit, Shed, Reacquire, Send, Resend,
           Conclude, Retry, GiveUp, bucketVars, ReadClock, Granted, Withheld
  <1>3. now \in Nat
    BY CallTypes
  <1> QED BY <1>1, <1>2, <1>3, CallAside

\* The sleeps of next_delay are numbers, and none of them ends before the hint
\* and before the deadline as well.
LEMMA DelaysKeepHints ==
    ASSUME CallInv, NEW c \in Caller, NEW hint \in Nat, Remaining(c) > 0,
           NEW delay \in NextDelays(c, hint)
    PROVE  /\ delay \in Nat
           /\ delay >= hint \/ now + delay = Deadline(c)
           /\ now < Deadline(c)
  <1>0. /\ now \in Nat /\ start[c] \in Nat /\ attempt[c] \in Nat /\ MaxTotal \in Nat
        /\ start[c] <= now
    BY CallTypes DEF CallOK, SendsInTime
  <1>1. /\ Remaining(c) = MaxTotal - (now - start[c])
        /\ Remaining(c) \in Nat
        /\ now < Deadline(c)
        /\ now + Remaining(c) = Deadline(c)
    BY <1>0 DEF Remaining, Elapsed, Deadline
  <1> DEFINE Wanted(jittered) == IF hint > jittered THEN hint ELSE jittered
  <1>2. PICK jittered \in Jittered(Scheduled(attempt[c])) :
            delay = AtMost(Remaining(c), Wanted(jittered))
    BY DEF NextDelays
  <1>3. jittered \in Nat
    BY <1>0, ScheduledType
  <1>4. Wanted(jittered) \in Nat /\ Wanted(jittered) >= hint
    BY <1>3
  <1> HIDE DEF Wanted
  <1> QED BY <1>1, <1>2, <1>4 DEF AtMost

\* A wait is a number unless no refill is scheduled.
LEMMA WaitType ==
    ASSUME NEW held \in Nat, held < Unit
    PROVE  Wait(held) \in Nat \/ Refill = 0
  <1> SUFFICES ASSUME Refill # 0
               PROVE  Wait(held) \in Nat
    OBVIOUS
  <1>1. Unit - held + Refill - 1 \in Nat /\ Refill \in Nat \ {0}
    BY BucketAssumption
  <1>2. \A a \in Nat, b \in Nat \ {0} : a \div b \in Nat
    BY SMTT(30)
  <1> QED BY <1>1, <1>2 DEF Wait

\* What is left in a bucket that withheld a token is less than one.
LEMMA WithheldTokens ==
    ASSUME CallInv, NEW c \in Caller, Withheld(c)
    PROVE  tokens' \in Nat /\ tokens' < Unit
  <1>1. [BucketNext]_bucketVars
    BY DEF BucketNext
  <1>2. tokens' \in Nat
    BY <1>1, BucketKeeps, BucketAssumption DEF CallInv, BucketInv, BucketTypeOK, Full
  <1> QED BY <1>2 DEF Withheld

\* The values stay of their types.
LEMMA StepTypes ==
    ASSUME CallInv, NEW c \in Caller, Step(c), BucketTypeOK'
    PROVE  TypeOK'
  <1>1. TypeOK /\ now \in Nat /\ attempt[c] \in Nat /\ sent[c] \in Seq(Nat)
    BY CallTypes DEF CallInv
  <1>2. CASE Begin(c)
    BY <1>1, <1>2 DEF Begin, Goto, TypeOK
  <1>3. CASE Read(c) \/ Admit(c)
    BY <1>1, <1>3 DEF Read, Admit, Goto, callVars, TypeOK
  <1>4. CASE Shed(c)
    <2>1. Wait(tokens') # None => Wait(tokens') \in Nat
      <3>1. tokens' \in Nat /\ tokens' < Unit
        BY <1>4, WithheldTokens DEF Shed
      <3>2. Refill = 0 => Wait(tokens') = None
        BY DEF Wait
      <3> QED BY <3>1, <3>2, WaitType
    <2>2. CASE Wait(tokens') = None
      BY <1>1, <1>4, <2>2 DEF Shed, Goto, TypeOK, Returned
    <2>3. CASE Wait(tokens') # None
      <3>1. now + Wait(tokens') \in Nat
        BY <1>1, <2>1, <2>3
      <3>2. wake' \in [Caller -> Nat]
        BY <1>1, <1>4, <2>3, <3>1 DEF Shed, TypeOK
      <3> QED BY <1>1, <1>4, <2>3, <3>2 DEF Shed, Goto, TypeOK, Sleeping
    <2> QED BY <2>2, <2>3
  <1>5. CASE Reacquire(c)
    BY <1>1, <1>5 DEF Reacquire, Goto, TypeOK
  <1>6. CASE Send(c)
    BY <1>1, <1>6 DEF Send, Goto, TypeOK
  <1>7. CASE Resend(c)
    BY <1>1, <1>7 DEF Resend, Goto, TypeOK
  <1>8. ASSUME NEW result, Conclude(c, result) \/ GiveUp(c, result)
        PROVE  TypeOK'
    BY <1>1, <1>8 DEF Conclude, GiveUp, Goto, TypeOK, Returned
  <1>9. ASSUME NEW hint \in Nat, Retry(c, hint)
        PROVE  TypeOK'
    <2>1. PICK delay \in NextDelays(c, hint) : wake' = [wake EXCEPT ![c] = now + delay]
      BY <1>9 DEF Retry
    <2>2. delay \in Nat
      BY <1>9, DelaysKeepHints DEF Retry, MayRetry
    <2>3. now + delay \in Nat /\ now + hint \in Nat
      BY <1>1, <2>2
    <2> QED BY <1>1, <1>9, <2>1, <2>3 DEF Retry, Goto, TypeOK, Sleeping
  <1> QED BY <1>2, <1>3, <1>4, <1>5, <1>6, <1>7, <1>8, <1>9 DEF Step, Proceed

\* Whatever a call does before it sends or about an answer keeps its part.
LEMMA LimiterKeeps ==
    ASSUME CallInv, NEW c \in Caller,
           Begin(c) \/ Read(c) \/ Admit(c) \/ Shed(c) \/ Reacquire(c)
    PROVE  CallOK(c)'
  <1>0. /\ TypeOK /\ now \in Nat /\ start[c] \in Nat
        /\ InLimiter(c) /\ SendsCounted(c) /\ SendsInTime(c)
    BY CallTypes DEF CallOK, CallInv
  <1>1. /\ start' = start /\ attempt' = attempt /\ sent' = sent /\ heldUntil' = heldUntil
        /\ now' = now
    BY DEF Begin, Read, Admit, Shed, Reacquire, bucketVars, callVars, ReadClock, Granted,
           Withheld
  <1>2. /\ pc[c] \in {"idle", "acquiring", "waiting"}
        /\ pc'[c] \in {"acquiring", "waiting", "admitted", "limited"}
        /\ pc[c] # "idle" => c \in Limited
        /\ pc[c] = "idle" => pc'[c] = IF c \in Limited THEN "acquiring" ELSE "admitted"
        /\ pc'[c] = "limited" => Shed(c) /\ Wait(tokens') = None
    BY <1>0 DEF Begin, Read, Admit, Shed, Reacquire, Goto, callVars, TypeOK, InLimiter
  <1>3. InLimiter(c)'
    <2>1. Shed(c) /\ Wait(tokens') = None => Refill = 0
      <3> SUFFICES ASSUME Shed(c), Refill # 0
                   PROVE  Wait(tokens') # None
        OBVIOUS
      <3>1. tokens' \in Nat /\ tokens' < Unit
        BY WithheldTokens DEF Shed
      <3> QED BY <3>1, WaitType, BucketAssumption
    <2> QED BY <1>2, <2>1 DEF InLimiter
  <1>4. SendsCounted(c)'
    BY <1>0, <1>1, <1>2 DEF SendsCounted, Unstarted
  <1>5. SendsInTime(c)'
    BY <1>0, <1>1, <1>2 DEF SendsInTime, Deadline
  <1> QED BY <1>3, <1>4, <1>5 DEF CallOK

\* The first request of a call starts its budget.
LEMMA SendKeeps ==
    ASSUME CallInv, NEW c \in Caller, Send(c)
    PROVE  CallOK(c)'
  <1>0. /\ TypeOK /\ now \in Nat /\ MaxTotal \in Nat
        /\ InLimiter(c) /\ SendsCounted(c) /\ SendsInTime(c)
    BY CallTypes DEF CallOK, CallInv
  <1>1. /\ pc[c] = "admitted" /\ pc'[c] = "calling"
        /\ sent'[c] = <<now>> /\ start'[c] = now
        /\ attempt' = attempt /\ now' = now
    BY <1>0 DEF Send, Goto, bucketVars, TypeOK
  <1>2. attempt[c] = 0 /\ sent'[c] # <<>> /\ Len(sent'[c]) = 1 /\ sent'[c][1] = now
    BY <1>0, <1>1 DEF SendsCounted, Unstarted
  <1>3. InLimiter(c)'
    BY <1>1 DEF InLimiter
  <1>4. SendsCounted(c)'
    BY <1>1, <1>2, PolicyAssumption DEF SendsCounted, Unstarted
  <1>5. SendsInTime(c)'
    BY <1>0, <1>1, <1>2 DEF SendsInTime
  <1> QED BY <1>3, <1>4, <1>5 DEF CallOK

\* A request that is sent again follows one that was sent before the deadline.
LEMMA ResendKeeps ==
    ASSUME CallInv, NEW c \in Caller, Resend(c)
    PROVE  CallOK(c)'
  <1> DEFINE n == Len(sent[c])
  <1>0. /\ TypeOK /\ now \in Nat /\ attempt[c] \in Nat /\ sent[c] \in Seq(Nat) /\ n \in Nat
        /\ start[c] \in Nat /\ Deadline(c) \in Nat
        /\ MaxRetries # None => MaxRetries \in Nat
        /\ InLimiter(c) /\ SendsCounted(c) /\ SendsInTime(c)
    BY CallTypes DEF CallOK, CallInv
  <1>1. /\ pc[c] = "backoff" /\ pc'[c] = "calling"
        /\ sent'[c] = Append(sent[c], now) /\ attempt'[c] = attempt[c] + 1
        /\ start' = start /\ now' = now
    BY <1>0 DEF Resend, SleepOver, Goto, bucketVars, TypeOK
  <1>2. /\ Len(sent'[c]) = n + 1 /\ sent'[c] # <<>>
        /\ \A i \in 1..n : sent'[c][i] = sent[c][i] /\ sent[c][i] \in Nat
        /\ sent'[c][n + 1] = now
    <2> DEFINE s == sent[c]
    <2>1. s \in Seq(Nat) /\ now \in Nat /\ n = Len(s)
      BY <1>0
    <2> HIDE DEF s, n
    <2>2. /\ Len(Append(s, now)) = n + 1 /\ Append(s, now)[n + 1] = now
          /\ \A i \in 1..n : Append(s, now)[i] = s[i] /\ s[i] \in Nat
      BY <2>1
    <2>3. Append(s, now) # <<>>
      BY <2>1, <2>2
    <2> QED BY <1>1, <2>2, <2>3 DEF s
  <1>3. InLimiter(c)'
    BY <1>1 DEF InLimiter
  <1>4. SendsCounted(c)'
    BY <1>0, <1>1, <1>2 DEF SendsCounted, Unstarted
  <1>5. SendsInTime(c)'
    <2>1. \A i \in 1..n : sent[c][i] <= now /\ sent[c][i] < Deadline(c)
      BY <1>0, <1>1 DEF SendsInTime
    <2>2. Deadline(c)' = Deadline(c)
      BY <1>1 DEF Deadline
    <2>3. ASSUME NEW i \in 1..(n + 1)
          PROVE  sent'[c][i] <= now /\ (i < n + 1 => sent'[c][i] < Deadline(c))
      <3> HIDE DEF n
      <3>1. CASE i = n + 1
        BY <1>0, <1>2, <3>1
      <3>2. CASE i # n + 1
        <4>1. i \in 1..n
          BY <1>0, <3>2
        <4> QED BY <1>2, <2>1, <3>2, <4>1
      <3> QED BY <3>1, <3>2
    <2> QED BY <1>0, <1>1, <1>2, <2>2, <2>3 DEF SendsInTime
  <1> QED BY <1>3, <1>4, <1>5 DEF CallOK

\* A call that ends keeps what it sent.
LEMMA AnswerKeeps ==
    ASSUME CallInv, NEW c \in Caller, NEW result, Conclude(c, result) \/ GiveUp(c, result)
    PROVE  CallOK(c)'
  <1>0. /\ TypeOK /\ now \in Nat /\ start[c] \in Nat
        /\ InLimiter(c) /\ SendsCounted(c) /\ SendsInTime(c)
    BY CallTypes DEF CallOK, CallInv
  <1>1. /\ pc[c] = "calling" /\ pc'[c] \in {"response", "error", "spent", "exhausted"}
        /\ start' = start /\ attempt' = attempt /\ sent' = sent
        /\ now' = now
    BY <1>0 DEF Conclude, GiveUp, Goto, bucketVars, TypeOK
  <1>2. InLimiter(c)'
    BY <1>1 DEF InLimiter
  <1>3. SendsCounted(c)'
    BY <1>0, <1>1 DEF SendsCounted, Unstarted
  <1>4. SendsInTime(c)'
    BY <1>0, <1>1 DEF SendsInTime, Deadline
  <1> QED BY <1>2, <1>3, <1>4 DEF CallOK

\* A call sleeps only before its deadline.
LEMMA RetryKeeps ==
    ASSUME CallInv, NEW c \in Caller, NEW hint \in Nat, Retry(c, hint)
    PROVE  CallOK(c)'
  <1> DEFINE n == Len(sent[c])
  <1>0. /\ TypeOK /\ now \in Nat /\ attempt[c] \in Nat /\ sent[c] \in Seq(Nat) /\ n \in Nat
        /\ start[c] \in Nat /\ Deadline(c) \in Nat
        /\ InLimiter(c) /\ SendsCounted(c) /\ SendsInTime(c)
    BY CallTypes DEF CallOK, CallInv
  <1>1. /\ pc[c] = "calling" /\ pc'[c] = "backoff" /\ heldUntil'[c] = now + hint
        /\ start' = start /\ attempt' = attempt /\ sent' = sent /\ now' = now
        /\ Remaining(c) > 0 /\ RetriesLeft(attempt[c])
    BY <1>0 DEF Retry, MayRetry, Goto, bucketVars, TypeOK
  <1>2. PICK delay \in NextDelays(c, hint) : wake'[c] = now + delay
    BY <1>0 DEF Retry, TypeOK
  <1>3. /\ delay \in Nat /\ now < Deadline(c)
        /\ delay >= hint \/ now + delay = Deadline(c)
    BY <1>1, DelaysKeepHints
  <1>4. InLimiter(c)'
    BY <1>1 DEF InLimiter
  <1>5. SendsCounted(c)'
    BY <1>0, <1>1 DEF SendsCounted, Unstarted, RetriesLeft
  <1>6. SendsInTime(c)'
    <2>1. \A i \in 1..n : sent[c][i] \in Nat /\ sent[c][i] <= now
      BY <1>0 DEF SendsInTime
    <2>2. Deadline(c)' = Deadline(c)
      BY <1>1 DEF Deadline
    <2>3. \A i \in 1..n : sent[c][i] < Deadline(c)
      BY <1>0, <1>3, <2>1
    <2>4. wake'[c] >= heldUntil'[c] \/ wake'[c] >= Deadline(c)
      BY <1>0, <1>1, <1>2, <1>3
    <2> QED BY <1>0, <1>1, <2>1, <2>2, <2>3, <2>4 DEF SendsInTime
  <1> QED BY <1>4, <1>5, <1>6 DEF CallOK

\* Only a grant admits a call, and it admits one that was not admitted.
LEMMA TokensKept ==
    ASSUME CallInv, NEW c \in Caller, Step(c)
    PROVE  TokensPaid'
  <1>0. /\ TypeOK /\ TokensPaid /\ InLimiter(c) /\ SendsCounted(c) /\ sent[c] \in Seq(Nat)
        /\ grants \in Seq(Grant)
    BY CallTypes DEF CallInv, CallOK, TypeOK, BucketTypeOK
  <1>1. CASE Admit(c)
    <2>1. c \in Limited /\ c \notin Admitted
      BY <1>0, <1>1 DEF Admit, InLimiter, SendsCounted, Unstarted, Admitted
    <2>2. Admitted' = Admitted \cup {c}
      BY <1>0, <1>1, <2>1, PolicyAssumption DEF Admit, Goto, Admitted, TypeOK
    <2>3. Len(grants') = Len(grants) + 1
      BY <1>0, <1>1 DEF Admit, Granted
    <2>4. IsFiniteSet(Admitted \cup {c})
          /\ Cardinality(Admitted \cup {c}) = Cardinality(Admitted) + 1
      BY <1>0, <2>1, FS_AddElement DEF TokensPaid
    <2> QED BY <1>0, <2>2, <2>3, <2>4 DEF TokensPaid
  <1>2. CASE ~Admit(c)
    <2>1. grants' = grants
      BY <1>2 DEF Step, Begin, Proceed, Read, Shed, Reacquire, Send, Resend, Conclude, Retry,
                  GiveUp, bucketVars, ReadClock, Withheld
    <2>2. \A d \in Caller : d # c => pc'[d] = pc[d] /\ sent'[d] = sent[d]
      BY <1>0, <1>2 DEF Step, Begin, Proceed, Read, Shed, Reacquire, Send, Resend, Conclude,
                        Retry, GiveUp, Goto, callVars, TypeOK
    <2>3. c \in Limited => (pc'[c] = "admitted" \/ sent'[c] # <<>>
                               <=> pc[c] = "admitted" \/ sent[c] # <<>>)
      <3>1. CASE Begin(c) \/ Read(c) \/ Shed(c) \/ Reacquire(c)
        BY <1>0, <3>1 DEF Begin, Read, Shed, Reacquire, Goto, callVars, TypeOK
      <3>2. CASE Send(c)
        BY <1>0, <3>2 DEF Send, TypeOK
      <3>3. CASE Resend(c)
        <4>1. sent'[c] = Append(sent[c], now) /\ pc[c] = "backoff"
          BY <1>0, <3>3 DEF Resend, SleepOver, TypeOK
        <4>2. sent[c] # <<>> /\ sent'[c] # <<>>
          BY <1>0, <4>1 DEF SendsCounted, Unstarted
        <4> QED BY <4>2
      <3>4. ASSUME NEW x, Conclude(c, x) \/ GiveUp(c, x) \/ Retry(c, x)
            PROVE  sent' = sent /\ sent[c] # <<>>
        BY <1>0, <3>4 DEF Conclude, GiveUp, Retry, SendsCounted, Unstarted
      <3> QED BY <1>2, <3>1, <3>2, <3>3, <3>4 DEF Step, Proceed
    <2>4. Admitted' = Admitted
      BY <2>2, <2>3, PolicyAssumption DEF Admitted
    <2> QED BY <1>0, <2>1, <2>4 DEF TokensPaid
  <1> QED BY <1>1, <1>2

\* CallInv is inductive, for every hint an answer may carry.
LEMMA CallKeeps ==
    ASSUME CallInv, [AnyStep]_vars
    PROVE  CallInv'
  <1>1. BucketInv' /\ BucketTypeOK'
    BY StepUsesBucket, BucketKeeps DEF CallInv, BucketInv
  <1>2. ASSUME NEW c \in Caller, Step(c)
        PROVE  CallInv'
    <2>1. TypeOK'
      BY <1>1, <1>2, StepTypes
    <2>2. CallOK(c)'
      BY <1>2, LimiterKeeps, SendKeeps, ResendKeeps, AnswerKeeps, RetryKeeps
         DEF Step, Proceed
    <2>3. \A d \in Caller : d # c => CallOK(d)'
      BY <1>2, OthersAside
    <2>4. TokensPaid'
      BY <1>2, TokensKept
    <2> QED BY <1>1, <2>1, <2>2, <2>3, <2>4 DEF CallInv
  <1>3. CASE Pass \/ UNCHANGED vars
    <2>1. UNCHANGED callVars /\ grants' = grants /\ now' \in Nat /\ now' >= now
      <3>1. now \in Nat
        BY Types DEF CallInv
      <3> QED BY <1>3, <3>1 DEF Pass, Tick, vars, bucketVars
    <2>2. \A c \in Caller : CallOK(c)'
      BY <2>1, CallAside DEF callVars
    <2>3. TypeOK'
      BY <1>1, <2>1 DEF CallInv, TypeOK, callVars
    <2>4. TokensPaid'
      BY <2>1 DEF CallInv, TokensPaid, Admitted, callVars
    <2> QED BY <1>1, <2>2, <2>3, <2>4 DEF CallInv
  <1> QED BY <1>2, <1>3 DEF AnyStep

\* A bucket that is full and calls that did not begin.
LEMMA CallStarts ==
    ASSUME Init
    PROVE  CallInv
  <1>1. BucketInv
    BY BucketStarts DEF Init
  <1>2. TypeOK
    BY <1>1 DEF Init, TypeOK, BucketInv
  <1>3. ASSUME NEW c \in Caller
        PROVE  CallOK(c)
    <2>1. /\ pc[c] = "idle" /\ start[c] = 0 /\ attempt[c] = 0 /\ sent[c] = <<>> /\ now = 0
          /\ Len(sent[c]) = 0
      BY DEF Init, BucketInit
    <2>2. SendsInTime(c)
      BY <2>1 DEF SendsInTime
    <2>3. InLimiter(c) /\ SendsCounted(c)
      BY <2>1, PolicyAssumption DEF InLimiter, SendsCounted, Unstarted
    <2> QED BY <2>2, <2>3 DEF CallOK
  <1>4. Admitted = {} /\ grants = <<>>
    BY PolicyAssumption DEF Init, BucketInit, Admitted
  <1>5. TokensPaid
    BY <1>4, FS_EmptySet DEF TokensPaid
  <1> QED BY <1>1, <1>2, <1>3, <1>5 DEF CallInv

\* CallInv holds in every reachable state of the transport, whatever the
\* bucket, the schedule, the jitter and the budget are.
THEOREM CallInvariance == Spec => []CallInv
  <1>1. Init => CallInv
    BY CallStarts
  <1>2. CallInv /\ [Next]_vars => CallInv'
    BY NextIsAnyStep, CallKeeps
  <1> QED BY <1>1, <1>2, PTL DEF Spec

\* The bounds hold for the calls that share a bucket: between any two grants to
\* them, and since it was made, it gives out a burst and the refill at most.
THEOREM CallsPaced == Spec => [](WindowBound /\ TotalBound)
  <1>1. CallInv => WindowBound /\ TotalBound
    BY BucketPaces DEF CallInv
  <1> QED BY <1>1, CallInvariance, PTL

\* Only the last request of a call can be as late as its deadline.
LEMMA LastIsLate ==
    ASSUME CallInv
    PROVE  OneLateSend
  <1> SUFFICES ASSUME NEW c \in Caller
               PROVE  Cardinality(LateSends(c)) <= 1
    BY DEF OneLateSend
  <1> DEFINE n == Len(sent[c])
  <1>1. n \in Nat /\ sent[c] \in Seq(Nat) /\ Deadline(c) \in Nat /\ SendsInTime(c)
    BY CallTypes DEF CallOK
  <1>2. \A i \in 1..n : sent[c][i] \in Nat
    BY <1>1
  <1>3. LateSends(c) \subseteq {n}
    BY <1>1, <1>2 DEF LateSends, SendsInTime
  <1>4. IsFiniteSet({n}) /\ Cardinality({n}) = 1
    BY FS_Singleton
  <1>5. IsFiniteSet(LateSends(c)) /\ Cardinality(LateSends(c)) <= 1
    BY <1>3, <1>4, FS_Subset
  <1> QED BY <1>5

\* However slow the answers are and however late the sleeps end, at most one
\* request of a call leaves after its time budget.
THEOREM SendsOnceLate == Spec => []OneLateSend
  <1>1. CallInv => OneLateSend
    BY LastIsLate
  <1> QED BY <1>1, CallInvariance, PTL

\* Each call that is through the limiter took one token, and only a bucket
\* without refill sheds one.
LEMMA OneTokenEach ==
    ASSUME CallInv
    PROVE  TokenPerCall
  <1>1. \A c \in Caller : pc[c] = "limited" => Refill = 0 /\ sent[c] = <<>>
    BY DEF CallInv, CallOK, InLimiter, SendsCounted, Unstarted
  <1> QED BY <1>1 DEF CallInv, TokensPaid, TokenPerCall

\* The calls that were let through are as many as the tokens given out.
THEOREM PaysPerCall == Spec => []TokenPerCall
  <1>1. CallInv => TokenPerCall
    BY OneTokenEach
  <1> QED BY <1>1, CallInvariance, PTL

\* A request is sent again only when the hint or the budget has run out.
LEMMA HintKept ==
    ASSUME CallInv, [AnyStep]_vars, NEW c \in Caller
    PROVE  KeepsHint(c)
  <1>0. /\ TypeOK /\ now \in Nat /\ wake[c] \in Nat /\ heldUntil[c] \in Nat
        /\ Deadline(c) \in Nat /\ Len(sent[c]) \in Nat /\ SendsCounted(c) /\ SendsInTime(c)
    BY CallTypes DEF CallOK, CallInv
  <1>1. CASE sent'[c] = sent[c]
    BY <1>0, <1>1 DEF KeepsHint
  <1>2. ASSUME NEW d \in Caller, Step(d), sent'[c] # sent[c]
        PROVE  KeepsHint(c)
    <2>1. d = c /\ (Send(c) \/ Resend(c))
      BY <1>0, <1>2 DEF Step, Begin, Proceed, Read, Admit, Shed, Reacquire, Send, Resend,
                        Conclude, Retry, GiveUp, callVars, TypeOK
    <2>2. CASE Send(c)
      BY <1>0, <2>2 DEF Send, SendsCounted, Unstarted, KeepsHint
    <2>3. CASE Resend(c)
      <3>1. pc[c] = "backoff" /\ now >= wake[c]
        BY <2>3 DEF Resend, SleepOver
      <3> QED BY <1>0, <3>1 DEF SendsInTime, KeepsHint
    <2> QED BY <2>1, <2>2, <2>3
  <1>3. CASE Pass \/ UNCHANGED vars
    BY <1>0, <1>3 DEF Pass, vars, callVars, KeepsHint
  <1> QED BY <1>1, <1>2, <1>3 DEF AnyStep

\* A server that asked to be left alone is left alone that long, unless the
\* whole budget ends first.
THEOREM HintsHonoured == Spec => HintOrDeadline
  <1>1. CallInv /\ [Next]_vars => [\A c \in Caller : KeepsHint(c)]_vars
    BY NextIsAnyStep, HintKept
  <1> QED BY <1>1, CallInvariance, PTL DEF Spec, HintOrDeadline

\* A call that hands a transient failure on has used up its budget or retries.
LEMMA BudgetUsed ==
    ASSUME CallInv, [AnyStep]_vars, NEW c \in Caller
    PROVE  UsesUp(c)
  <1> SUFFICES ASSUME pc[c] = "calling", pc'[c] \in {"spent", "exhausted"}
               PROVE  now >= Deadline(c) \/ Len(sent[c]) = MaxRetries + 1
    BY DEF UsesUp
  <1>0. /\ TypeOK /\ now \in Nat /\ start[c] \in Nat /\ attempt[c] \in Nat /\ MaxTotal \in Nat
        /\ MaxRetries # None => MaxRetries \in Nat
        /\ start[c] <= now /\ SendsCounted(c)
    BY CallTypes DEF CallOK, CallInv, SendsInTime
  <1>1. PICK result : GiveUp(c, result)
    BY <1>0 DEF AnyStep, Step, Begin, Proceed, Read, Admit, Shed, Reacquire, Send, Resend,
                Conclude, Retry, Pass, Goto, vars, callVars, TypeOK, GiveUp
  <1>2. CASE Remaining(c) > 0
    <2>1. MaxRetries # None /\ ~(attempt[c] < MaxRetries)
      BY <1>1, <1>2 DEF GiveUp, MayRetry, RetriesLeft
    <2>2. attempt[c] = MaxRetries
      BY <1>0, <2>1 DEF SendsCounted
    <2> QED BY <1>0, <2>2 DEF SendsCounted, Unstarted
  <1>3. CASE ~(Remaining(c) > 0)
    BY <1>0, <1>3 DEF Remaining, Elapsed, Deadline
  <1> QED BY <1>2, <1>3

\* A transient failure reaches the caller only when time or retries are spent.
THEOREM GivesUpLast == Spec => GivesUpWhenSpent
  <1>1. CallInv /\ [Next]_vars => [\A c \in Caller : UsesUp(c)]_vars
    BY NextIsAnyStep, BudgetUsed
  <1> QED BY <1>1, CallInvariance, PTL DEF Spec, GivesUpWhenSpent

-----------------------------------------------------------------------------
(* Signed requests and the service *)

\* A parameter has the value of its last place in the query.
LEMMA LastParam ==
    ASSUME NEW query, NEW key, NEW i \in DOMAIN query, DOMAIN query \subseteq Nat,
           query[i][1] = key, \A j \in DOMAIN query : query[j][1] = key => j <= i
    PROVE  Param(query, key) = query[i][2] /\ Carries(query, {key})
  <1> DEFINE Last(k) ==
          query[k][1] = key /\ \A j \in DOMAIN query : query[j][1] = key => j <= k
  <1>1. i = CHOOSE k \in DOMAIN query : Last(k)
    <2>1. Last(i)
      OBVIOUS
    <2>2. \A k \in DOMAIN query : Last(k) => k = i
      OBVIOUS
    <2> HIDE DEF Last
    <2> QED BY <2>1, <2>2
  <1> QED BY <1>1 DEF Param, Carries

\* Four elements make a sequence.
LEMMA FourElements ==
    ASSUME NEW T, NEW a \in T, NEW b \in T, NEW c \in T, NEW d \in T
    PROVE  <<a, b, c, d>> \in Seq(T)
  OBVIOUS

\* Four elements behind a sequence.
LEMMA FourAppended ==
    ASSUME NEW T, NEW front \in Seq(T), NEW back \in Seq(T), Len(back) = 4
    PROVE  LET n == Len(front)
               both == front \o back
           IN  /\ DOMAIN both = 1..(n + 4) /\ DOMAIN front = 1..n
               /\ \A j \in 1..n : both[j] = front[j]
               /\ both[n + 1] = back[1] /\ both[n + 2] = back[2]
               /\ both[n + 3] = back[3] /\ both[n + 4] = back[4]
  <1> DEFINE n == Len(front)
             both == front \o back
  <1>1. /\ both \in Seq(T) /\ Len(both) = n + 4 /\ n \in Nat
        /\ \A j \in 1..(n + 4) : both[j] = IF j <= n THEN front[j] ELSE back[j - n]
    <2>1. /\ both \in Seq(T) /\ Len(both) = Len(front) + Len(back)
          /\ \A j \in 1..(Len(front) + Len(back)) :
                both[j] = IF j <= Len(front) THEN front[j] ELSE back[j - Len(front)]
      BY ConcatProperties, Zenon
    <2> HIDE DEF both
    <2> QED BY <2>1
  <1> HIDE DEF both
  <1>2. DOMAIN both = 1..(n + 4) /\ DOMAIN front = 1..n
    BY <1>1
  <1>3. \A j \in 1..n : both[j] = front[j]
    BY <1>1
  <1>4. \A k \in 1..4 : both[n + k] = back[k]
    <2> SUFFICES ASSUME NEW k \in 1..4
                 PROVE  both[n + k] = back[k]
      OBVIOUS
    <2>1. n + k \in 1..(n + 4) /\ ~(n + k <= n) /\ n + k - n = k
      BY <1>1
    <2> QED BY <1>1, <2>1
  <1> QED BY <1>2, <1>3, <1>4 DEF both

\* What add_signature_to_url puts into a URL is what parse_signature_from_url
\* reads from it, whatever parameters the template has that are not signed.
LEMMA SignatureRead ==
    ASSUME NEW S, NEW template \in Seq(S), ~Carries(template, SignedParams),
           NEW account, NEW signed, NEW query, query = AddSignature(template, account, signed)
    PROVE  /\ ParseSignature(query).account = account
           /\ ParseSignature(query).signed =
                [nonce |-> signed.nonce, timestamp |-> signed.timestamp,
                 signature |-> signed.signature]
           /\ \A key \in SignedParams \cup {"account"} : Carries(query, {key})
  <1> DEFINE n == Len(template)
             nonce == <<"signed.nonce", signed.nonce>>
             timestamp == <<"signed.timestamp", signed.timestamp>>
             signature == <<"signed.signature", signed.signature>>
             claimed == <<"account", account>>
             added == <<nonce, timestamp, signature, claimed>>
             T == S \cup {nonce, timestamp, signature, claimed}
  <1>1. n \in Nat /\ Len(added) = 4
    OBVIOUS
  <1>2. /\ nonce[1] = "signed.nonce" /\ nonce[2] = signed.nonce
        /\ timestamp[1] = "signed.timestamp" /\ timestamp[2] = signed.timestamp
        /\ signature[1] = "signed.signature" /\ signature[2] = signed.signature
        /\ claimed[1] = "account" /\ claimed[2] = account
    OBVIOUS
  <1>3. query = template \o added
    BY DEF AddSignature
  <1>4. nonce \in T /\ timestamp \in T /\ signature \in T /\ claimed \in T /\ S \subseteq T
    OBVIOUS
  <1> HIDE DEF nonce, timestamp, signature, claimed, T
  <1>5. /\ DOMAIN query = 1..(n + 4) /\ DOMAIN template = 1..n
        /\ \A j \in 1..n : query[j] = template[j]
        /\ query[n + 1] = nonce /\ query[n + 2] = timestamp
        /\ query[n + 3] = signature /\ query[n + 4] = claimed
    <2>1. added \in Seq(T)
      BY <1>4, FourElements
    <2>2. template \in Seq(T)
      BY <1>4, SeqMonotonic
    <2>3. /\ added[1] = nonce /\ added[2] = timestamp
          /\ added[3] = signature /\ added[4] = claimed
      OBVIOUS
    <2> HIDE DEF added
    <2>4. /\ DOMAIN query = 1..(n + 4) /\ DOMAIN template = 1..n
          /\ \A j \in 1..n : query[j] = template[j]
          /\ query[n + 1] = added[1] /\ query[n + 2] = added[2]
          /\ query[n + 3] = added[3] /\ query[n + 4] = added[4]
      BY <1>1, <1>3, <2>1, <2>2, FourAppended
    <2> QED BY <2>3, <2>4
  <1> HIDE DEF added
  <1>6. \A j \in 1..n : query[j][1] \notin SignedParams
    BY <1>5 DEF Carries
  <1>7. \A j \in 1..(n + 4) : j \in 1..n \/ j = n + 1 \/ j = n + 2 \/ j = n + 3 \/ j = n + 4
    BY <1>1
  <1>8. /\ query[n + 1][1] = "signed.nonce" /\ query[n + 2][1] = "signed.timestamp"
        /\ query[n + 3][1] = "signed.signature" /\ query[n + 4][1] = "account"
    BY <1>2, <1>5
  <1>9. DOMAIN query \subseteq Nat
        /\ n + 1 \in DOMAIN query /\ n + 2 \in DOMAIN query
        /\ n + 3 \in DOMAIN query /\ n + 4 \in DOMAIN query
    BY <1>1, <1>5
  <1>10. Param(query, "signed.nonce") = signed.nonce /\ Carries(query, {"signed.nonce"})
    <2>1. \A j \in DOMAIN query : query[j][1] = "signed.nonce" => j <= n + 1
      BY <1>1, <1>5, <1>6, <1>7, <1>8 DEF SignedParams
    <2>2. query[n + 1][2] = signed.nonce
      BY <1>2, <1>5
    <2> QED BY <1>8, <1>9, <2>1, <2>2, LastParam
  <1>11. Param(query, "signed.timestamp") = signed.timestamp
         /\ Carries(query, {"signed.timestamp"})
    <2>1. \A j \in DOMAIN query : query[j][1] = "signed.timestamp" => j <= n + 2
      BY <1>1, <1>5, <1>6, <1>7, <1>8 DEF SignedParams
    <2>2. query[n + 2][2] = signed.timestamp
      BY <1>2, <1>5
    <2> QED BY <1>8, <1>9, <2>1, <2>2, LastParam
  <1>12. Param(query, "signed.signature") = signed.signature
         /\ Carries(query, {"signed.signature"})
    <2>1. \A j \in DOMAIN query : query[j][1] = "signed.signature" => j <= n + 3
      BY <1>1, <1>5, <1>6, <1>7, <1>8 DEF SignedParams
    <2>2. query[n + 3][2] = signed.signature
      BY <1>2, <1>5
    <2> QED BY <1>8, <1>9, <2>1, <2>2, LastParam
  <1>13. Param(query, "account") = account /\ Carries(query, {"account"})
    <2>1. \A j \in DOMAIN query : query[j][1] = "account" => j <= n + 4
      BY <1>1, <1>5
    <2>2. query[n + 4][2] = account
      BY <1>2, <1>5
    <2> QED BY <1>8, <1>9, <2>1, <2>2, LastParam
  <1> QED BY <1>10, <1>11, <1>12, <1>13 DEF ParseSignature, SignedParams

\* The steps of a call to a service, as steps of the transport.
LEMMA ServiceStepIsAnyStep ==
    ASSUME [CallNext]_allVars
    PROVE  [AnyStep]_vars
  <1>1. \A r : PolicyHint(r) \in Nat
    BY ServiceAssumption DEF PolicyHint
  <1>2. ASSUME NEW c \in Caller, Receive(c) \/ Disconnect(c)
        PROVE  AnyStep
    BY <1>1, <1>2 DEF Receive, Disconnect, AnyStep, Step
  <1>3. ASSUME NEW c \in Caller, Advance(c)
        PROVE  AnyStep
    BY <1>3 DEF Advance, Throttle, Transmit, AnyStep, Step, Proceed
  <1>4. ASSUME NEW c \in Caller, NEW op, NEW template, Invoke(c, op, template)
        PROVE  AnyStep
    BY <1>4 DEF Invoke, AnyStep, Step
  <1>5. ASSUME NEW c, NEW op, NEW template, FailLocally(c, op, template)
        PROVE  UNCHANGED vars
    BY <1>5 DEF FailLocally
  <1>6. ASSUME NEW c, NEW copy, NEW r, Refuse(c, copy) \/ Serve(c, copy, r)
        PROVE  UNCHANGED vars
    BY <1>6 DEF Refuse, Serve
  <1>7. CASE Elapse \/ UNCHANGED allVars
    BY <1>7 DEF Elapse, AnyStep, allVars
  <1> QED BY <1>2, <1>3, <1>4, <1>5, <1>6, <1>7 DEF CallNext

\* A request that is made carries the signature of its client, made now.
LEMMA MadeHonest ==
    ASSUME ServiceInv, NEW c \in Caller, NEW asked \in Asked[c],
           Invoke(c, asked[1], asked[2])
    PROVE  Honest(c)'
  <1> DEFINE op == asked[1]
             template == asked[2]
             signed == Sign(Signer[c], signatures + 1)
             r == Shaped(c, op, template)
  <1>1. /\ request'[c] = r /\ now' = now /\ now \in Nat
        /\ ~Unmade(op, template) /\ template # None
    <2>1. now \in Nat
      BY CallTypes DEF ServiceInv
    <2> QED BY <2>1 DEF Invoke, Begin, bucketVars, ServiceInv, Unmade
  <1>2. /\ signed.timestamp = now
        /\ signed.signature =
             [by |-> Signer[c],
              over |-> FormatData(Signer[c], signed.nonce, signed.timestamp, <<>>)]
    BY DEF Sign
  <1>3. /\ r.op = op
        /\ r.query = IF op.auth = "SignedUrl"
                     THEN AddSignature(template.query, Signer[c], signed)
                     ELSE template.query
        /\ r.body = IF op.auth = "SignedBody" THEN [account |-> Signer[c], signed |-> signed]
                    ELSE None
    BY DEF Shaped
  <1> HIDE DEF signed, r
  <1> SUFFICES HonestRequest(r, Signer[c], now)
    BY <1>1 DEF Honest
  <1>4. CASE op.auth = "SignedUrl"
    <2>1. ~Carries(template.query, SignedParams)
      BY <1>1, <1>4 DEF Unmade
    <2>2. template.query \in Seq({template.query[i] : i \in DOMAIN template.query})
      BY <1>1, ServiceAssumption
    <2>3. r.query = AddSignature(template.query, Signer[c], signed)
      BY <1>3, <1>4
    <2>4. /\ ParseSignature(r.query).account = Signer[c]
          /\ ParseSignature(r.query).signed =
               [nonce |-> signed.nonce, timestamp |-> signed.timestamp,
                signature |-> signed.signature]
          /\ \A key \in SignedParams \cup {"account"} : Carries(r.query, {key})
      BY <2>1, <2>2, <2>3, SignatureRead
    <2>5. /\ ActsAs(r) = Signer[c]
          /\ Signature(r) = [nonce |-> signed.nonce, timestamp |-> signed.timestamp,
                             signature |-> signed.signature]
      BY <1>3, <1>4, <2>4 DEF ActsAs, Signature
    <2>6. /\ Signature(r).nonce = signed.nonce /\ Signature(r).timestamp = now
          /\ Signature(r).signature = signed.signature
      BY <1>2, <2>5
    <2>7. SignedBy(Signer[c], Signature(r), now)
      BY <1>1, <1>2, <2>6 DEF SignedBy
    <2> QED BY <1>3, <1>4, <2>4, <2>5, <2>7 DEF HonestRequest
  <1>5. CASE op.auth = "SignedBody"
    <2>1. ActsAs(r) = Signer[c] /\ Signature(r) = signed
      BY <1>3, <1>5 DEF ActsAs, Signature
    <2>2. SignedBy(Signer[c], Signature(r), now)
      BY <1>1, <1>2, <2>1 DEF SignedBy
    <2> QED BY <1>3, <1>5, <2>1, <2>2 DEF HonestRequest
  <1>6. CASE op.auth \notin {"SignedUrl", "SignedBody"}
    BY <1>3, <1>6 DEF HonestRequest, Signature
  <1> QED BY <1>4, <1>5, <1>6

\* It stays as honest as it was.
LEMMA HonestStays ==
    ASSUME NEW r, NEW account, NEW t \in Nat, NEW later \in Nat, t <= later,
           HonestRequest(r, account, t)
    PROVE  HonestRequest(r, account, later)
  <1>1. 0..t \subseteq 0..later
    OBVIOUS
  <1>2. SignedBy(account, Signature(r), t) => SignedBy(account, Signature(r), later)
    BY <1>1 DEF SignedBy
  <1> QED BY <1>2 DEF HonestRequest

\* An honest request is carried out in time and refused when it is late.
LEMMA AuthenticMeansFresh ==
    ASSUME now \in Nat, NEW r, NEW account, HonestRequest(r, account, now),
           r.op.auth \in {"SignedUrl", "SignedBody"}
    PROVE  /\ Signature(r).timestamp \in Nat
           /\ Authentic(r) <=> now <= Signature(r).timestamp + MaxSkew
  <1> DEFINE s == Signature(r)
  <1>1. /\ s.timestamp \in 0..now /\ ActsAs(r) = account
        /\ s.signature = [by |-> account,
              over |-> FormatData(account, s.nonce, s.timestamp, <<>>)]
    BY DEF HonestRequest, SignedBy
  <1> HIDE DEF s
  <1>2. Verify(account, s) <=> now <= s.timestamp + MaxSkew
    BY <1>1, ServiceAssumption DEF Verify, Skew
  <1>3. Authentic(r) <=> Verify(account, s)
    <2>1. CASE r.op.auth = "SignedUrl"
      <3>1. \A key \in SignedParams \cup {"account"} : Carries(r.query, {key})
        BY <2>1 DEF HonestRequest
      <3>2. ParseSignature(r.query).account = account /\ ParseSignature(r.query).signed = s
        BY <1>1, <2>1 DEF ActsAs, Signature, s
      <3>3. VerifyUrl(r.query) <=> Verify(account, s)
        BY <3>1, <3>2 DEF VerifyUrl
      <3> QED BY <2>1, <3>3 DEF Authentic
    <2>2. CASE r.op.auth = "SignedBody"
      BY <1>1, <2>2 DEF Authentic, VerifyBody, ActsAs, Signature, s
    <2> QED BY <2>1, <2>2
  <1> QED BY <1>1, <1>2, <1>3 DEF s

\* A call that began does not begin again, and time does not go back.
LEMMA BegunStaysBegun ==
    ASSUME CallInv, [AnyStep]_vars
    PROVE  /\ \A c \in Caller : pc[c] # "idle" => pc'[c] # "idle"
           /\ \A c \in Caller : pc[c] \notin Unstarted => pc'[c] \notin Unstarted
           /\ now \in Nat /\ now' \in Nat /\ now <= now'
  <1>0. pc \in [Caller -> {"idle", "acquiring", "admitted", "calling"}
                         \cup Sleeping \cup Returned] /\ now \in Nat
    BY Types DEF CallInv, TypeOK
  <1> DEFINE Moves(c) ==
          /\ now' = now
          /\ \E place : /\ pc' = [pc EXCEPT ![c] = place]
                        /\ place # "idle"
                        /\ pc[c] \notin Unstarted => place \notin Unstarted
  <1>1. ASSUME NEW c \in Caller, Step(c)
        PROVE  Moves(c)
    <2>1. Begin(c) \/ Admit(c) \/ Shed(c) \/ Reacquire(c) \/ Send(c) \/ Resend(c) => Moves(c)
      BY DEF Begin, Admit, Shed, Reacquire, Send, Resend, Goto, bucketVars, Granted, Withheld,
             Unstarted
    <2>2. Read(c) => Moves(c)
      <3>1. Read(c) => pc' = [pc EXCEPT ![c] = "acquiring"] /\ now' = now
                       /\ pc[c] = "acquiring"
        BY <1>0 DEF Read, ReadClock, callVars
      <3> QED BY <3>1 DEF Unstarted
    <2>3. \A x \in {"response", "error"} : Conclude(c, x) => Moves(c)
      BY DEF Conclude, Goto, bucketVars, Unstarted
    <2>4. \A x \in {"spent", "exhausted"} : GiveUp(c, x) => Moves(c)
      BY DEF GiveUp, Goto, bucketVars, Unstarted
    <2>5. \A x \in Nat : Retry(c, x) => Moves(c)
      BY DEF Retry, Goto, bucketVars, Unstarted
    <2> HIDE DEF Moves
    <2> QED BY <1>1, <2>1, <2>2, <2>3, <2>4, <2>5 DEF Step, Proceed
  <1>2. CASE Pass \/ UNCHANGED vars
    BY <1>0, <1>2 DEF Pass, Tick, vars, callVars, bucketVars
  <1> QED BY <1>0, <1>1, <1>2 DEF AnyStep

\* Only an invocation makes a request, and it begins the call.
LEMMA RequestsStay ==
    ASSUME ServiceInv, [CallNext]_allVars, NEW c \in Caller, pc'[c] # "idle"
    PROVE  \/ pc[c] # "idle" /\ request'[c] = request[c]
           \/ pc[c] = "idle" /\ \E asked \in Asked[c] : Invoke(c, asked[1], asked[2])
  <1>0. pc \in [Caller -> {"idle", "acquiring", "admitted", "calling"}
                         \cup Sleeping \cup Returned] /\ DOMAIN request = Caller
    BY DEF ServiceInv, CallInv, TypeOK
  <1>1. ASSUME NEW d \in Caller, NEW asked \in Asked[d], Invoke(d, asked[1], asked[2])
        PROVE  IF d = c
               THEN pc[c] = "idle" /\ Invoke(c, asked[1], asked[2]) /\ asked \in Asked[c]
               ELSE pc'[c] = pc[c] /\ request'[c] = request[c]
    BY <1>0, <1>1 DEF Invoke, Begin, Goto
  <1>2. ASSUME ~ \E d \in Caller : \E asked \in Asked[d] : Invoke(d, asked[1], asked[2])
        PROVE  request' = request /\ (pc[c] = "idle" => pc'[c] = "idle")
    <2>1. CASE Elapse \/ UNCHANGED allVars
      BY <2>1 DEF Elapse, Pass, callVars, serviceVars, allVars, vars
    <2>2. ASSUME NEW d \in Caller, NEW op, NEW template, NEW copy, NEW r,
                 FailLocally(d, op, template) \/ Refuse(d, copy) \/ Serve(d, copy, r)
          PROVE  request' = request /\ pc' = pc
      BY <2>2 DEF FailLocally, Refuse, Serve, vars, callVars
    <2>3. ASSUME NEW d \in Caller, Advance(d) \/ Receive(d) \/ Disconnect(d)
          PROVE  /\ request' = request /\ pc[d] # "idle"
                 /\ pc' = pc \/ \E place : pc' = [pc EXCEPT ![d] = place]
      BY <2>3 DEF Advance, Throttle, Transmit, Receive, Disconnect, Read, Admit, Shed,
                  Reacquire, Send, Resend, SleepOver, Retry, GiveUp, Conclude, Goto, callVars
    <2>4. request' = request
      BY <1>2, <2>1, <2>2, <2>3 DEF CallNext
    <2>5. pc[c] = "idle" => pc'[c] = "idle"
      BY <1>0, <1>2, <2>1, <2>2, <2>3 DEF CallNext
    <2> QED BY <2>4, <2>5
  <1> QED BY <1>1, <1>2

\* What the service did stays true of the call it did it for.
LEMMA ActedStays ==
    ASSUME ServiceInv, [CallNext]_allVars, NEW p \in performed
    PROVE  ActedUpon(p)'
  <1>1. ActedUpon(p) /\ CallInv
    BY DEF ServiceInv
  <1>2. p.call \in Caller /\ pc[p.call] # "idle" /\ pc'[p.call] # "idle"
    BY <1>1, ServiceStepIsAnyStep, BegunStaysBegun DEF ActedUpon
  <1>3. request'[p.call] = request[p.call]
    BY <1>2, RequestsStay
  <1> QED BY <1>1, <1>2, <1>3 DEF ActedUpon

\* What it does now it does for the client that signed, and in time.
LEMMA ActsFresh ==
    ASSUME ServiceInv, [CallNext]_allVars,
           NEW c \in Caller, NEW copy, NEW r, Serve(c, copy, r), NEW p \in performed',
           p \notin performed
    PROVE  ActedUpon(p)'
  <1>1. CallInv /\ now \in Nat /\ wire \in [Caller -> SUBSET Nat]
    BY CallTypes DEF ServiceInv
  <1>2. /\ p.call = c /\ p.at = now /\ p.actsAs = ActsAs(request[c])
        /\ p.signed = Signature(request[c])
        /\ request' = request /\ pc' = pc /\ Authentic(request[c]) /\ wire[c] # {}
    BY DEF Serve, vars, callVars
  <1>3. pc[c] # "idle" /\ HonestRequest(request[c], Signer[c], now)
    BY <1>2 DEF ServiceInv, Honest, Unstarted
  <1>4. request[c].op.auth \in {"SignedUrl", "SignedBody"} =>
          p.actsAs = Signer[c] /\ now <= p.signed.timestamp + MaxSkew
    BY <1>1, <1>2, <1>3, AuthenticMeansFresh DEF HonestRequest
  <1> QED BY <1>2, <1>3, <1>4 DEF ActedUpon

\* A response that is no failure tells of something the service did.
LEMMA ServiceAnswers ==
    ASSUME ServiceInv, [CallNext]_allVars, NEW c \in Caller
    PROVE  Answered(c)'
  <1>0. DOMAIN reply = Caller /\ Answered(c)
    BY DEF ServiceInv
  <1>1. performed \subseteq performed'
    BY DEF CallNext, Elapse, FailLocally, Invoke, Advance, Throttle, Transmit, Receive,
           Disconnect, Serve, Refuse, serviceVars, allVars
  <1>2. CASE reply'[c] = reply[c] \/ reply'[c] = None
    BY <1>0, <1>1, <1>2 DEF Answered
  <1>3. ASSUME reply'[c] # reply[c], reply'[c] # None
        PROVE  \/ \E copy : Refuse(c, copy) /\ reply'[c] = Refusal
               \/ \E copy : \E r \in Response : Serve(c, copy, r) /\ reply'[c] = r
    BY <1>0, <1>3 DEF CallNext, Elapse, FailLocally, Invoke, Advance, Throttle, Transmit,
       Receive, Disconnect, Serve, Refuse, Answering, serviceVars, allVars
  <1>4. ASSUME NEW copy, Refuse(c, copy), reply'[c] = Refusal
        PROVE  Answered(c)'
    BY <1>4, MeaningAssumption DEF Answered
  <1>5. ASSUME NEW copy, NEW r \in Response, Serve(c, copy, r), reply'[c] = r
        PROVE  Answered(c)'
    <2>1. r.means # "failed" =>
            [call |-> c, at |-> now, actsAs |-> ActsAs(request[c]),
             signed |-> Signature(request[c])] \in performed'
      BY <1>5 DEF Serve
    <2>2. r.means # "failed" => \E p \in performed' : p.call = c
      BY <2>1
    <2> QED BY <1>5, <2>2 DEF Answered
  <1> QED BY <1>2, <1>3, <1>4, <1>5

\* ServiceInv is inductive.
LEMMA ServiceKeeps ==
    ASSUME ServiceInv, [CallNext]_allVars
    PROVE  ServiceInv'
  <1>0. [AnyStep]_vars /\ CallInv
    BY ServiceStepIsAnyStep DEF ServiceInv
  <1>1. CallInv'
    BY <1>0, CallKeeps
  <1>2. /\ \A c \in Caller : pc[c] # "idle" => pc'[c] # "idle"
        /\ \A c \in Caller : pc[c] \notin Unstarted => pc'[c] \notin Unstarted
        /\ now \in Nat /\ now' \in Nat /\ now <= now'
    BY <1>0, BegunStaysBegun
  <1>3. ASSUME NEW c \in Caller, pc'[c] # "idle"
        PROVE  Honest(c)'
    <2>1. CASE pc[c] # "idle" /\ request'[c] = request[c]
      <3>1. HonestRequest(request[c], Signer[c], now)
        BY <2>1 DEF ServiceInv, Honest
      <3>2. HonestRequest(request[c], Signer[c], now')
        BY <1>2, <3>1, HonestStays
      <3> QED BY <2>1, <3>2 DEF Honest
    <2>2. CASE \E asked \in Asked[c] : Invoke(c, asked[1], asked[2])
      BY <2>2, MadeHonest
    <2> QED BY <1>3, <2>1, <2>2, RequestsStay
  <1>4. \A p \in performed' : ActedUpon(p)'
    <2> SUFFICES ASSUME NEW p \in performed'
                 PROVE  ActedUpon(p)'
      OBVIOUS
    <2>1. CASE p \in performed
      BY <2>1, ActedStays
    <2>2. CASE p \notin performed
      <3>1. PICK c \in Caller, copy \in 1..MaxSends, r \in Response : Serve(c, copy, r)
        BY <2>2 DEF CallNext, Elapse, FailLocally, Invoke, Advance, Throttle, Transmit, Receive,
                    Disconnect, Refuse, serviceVars, allVars
      <3> QED BY <2>2, <3>1, ActsFresh
    <2> QED BY <2>1, <2>2
  <1>5. /\ DOMAIN request' = Caller /\ DOMAIN reply' = Caller /\ DOMAIN outcome' = Caller
    BY DEF ServiceInv, CallNext, Elapse, FailLocally, Invoke, Advance, Throttle, Transmit,
           Receive, Disconnect, Refuse, Serve, Answering, serviceVars, allVars
  <1>6. /\ wire' \in [Caller -> SUBSET Nat]
        /\ \A c \in Caller : wire'[c] # {} => pc'[c] \notin Unstarted
    <2> DEFINE Sent == /\ wire' \in [Caller -> SUBSET Nat]
                       /\ \A c \in Caller : wire'[c] # {} => pc'[c] \notin Unstarted
    <2>0. /\ wire \in [Caller -> SUBSET Nat]
          /\ \A c \in Caller : wire[c] # {} => pc[c] \notin Unstarted
      BY DEF ServiceInv
    <2>1. CASE wire' = wire
      BY <1>2, <2>0, <2>1
    <2>2. \A c \in Caller : \A copy : wire' = [wire EXCEPT ![c] = @ \ {copy}] => Sent
      BY <1>2, <2>0
    <2>3. ASSUME NEW c \in Caller, Transmit(c)
          PROVE  Sent
      <3>1. Len(sent'[c]) \in Nat
        BY <1>1 DEF CallInv, TypeOK
      <3>2. pc'[c] \notin Unstarted
        <4>1. pc' = [pc EXCEPT ![c] = "calling"] /\ c \in DOMAIN pc
          BY <1>0, <2>3 DEF Transmit, Send, Resend, Goto, CallInv, TypeOK
        <4> QED BY <4>1 DEF Unstarted
      <3>3. wire' = [wire EXCEPT ![c] = @ \cup {Len(sent'[c])}]
        BY <2>3 DEF Transmit
      <3> QED BY <1>2, <2>0, <3>1, <3>2, <3>3
    <2>4. \/ wire' = wire
          \/ \E c \in Caller : \E copy : wire' = [wire EXCEPT ![c] = @ \ {copy}]
          \/ \E c \in Caller : Transmit(c)
      BY DEF CallNext, Elapse, FailLocally, Invoke, Advance, Throttle, Receive, Disconnect,
             Refuse, Serve, serviceVars, allVars
    <2> HIDE DEF Sent
    <2>5. Sent
      BY <2>1, <2>2, <2>3, <2>4 DEF Sent
    <2> QED BY <2>5 DEF Sent
  <1>7. \A c \in Caller : Answered(c)'
    BY ServiceAnswers
  <1> QED BY <1>1, <1>3, <1>4, <1>5, <1>6, <1>7 DEF ServiceInv

\* No call began and nothing was done.
LEMMA ServiceStarts ==
    ASSUME CallInit
    PROVE  ServiceInv
  <1>1. CallInv
    BY CallStarts DEF CallInit
  <1> QED BY <1>1 DEF CallInit, Init, ServiceInv, Answered

\* ServiceInv holds in every reachable state, whatever the operations, the
\* endpoints and the answers of the service are.
THEOREM ServiceInvariance == CallSpec => []ServiceInv
  <1>1. CallInit => ServiceInv
    BY ServiceStarts
  <1>2. ServiceInv /\ [CallNext]_allVars => ServiceInv'
    BY ServiceKeeps
  <1> QED BY <1>1, <1>2, PTL DEF CallSpec

\* The service carries a signed request out only for the account whose client
\* signed it, and only while the signature is fresh.
THEOREM ServedFreshAsSigner == CallSpec => []FreshAndAsSigner
  <1>1. ServiceInv => FreshAndAsSigner
    <2> SUFFICES ASSUME ServiceInv, NEW p \in performed, p.signed # None
                 PROVE  /\ p.actsAs = Signer[p.call]
                        /\ p.at <= p.signed.timestamp + MaxSkew
      BY DEF FreshAndAsSigner
    <2>1. ActedUpon(p) /\ Honest(p.call)
      BY DEF ServiceInv, ActedUpon
    <2> QED BY <2>1 DEF ActedUpon, Honest, HonestRequest
  <1> QED BY <1>1, ServiceInvariance, PTL

\* However often a call is carried out, it is under one signature.
THEOREM CopiesAreAlike == CallSpec => []CopiesShareNonce
  <1>1. ServiceInv => CopiesShareNonce
    BY DEF ServiceInv, ActedUpon, CopiesShareNonce
  <1> QED BY <1>1, ServiceInvariance, PTL

\* An honest request that is refused came too late.
LEMMA RefusalsAreStale ==
    ASSUME ServiceInv, [CallNext]_allVars, NEW c \in Caller
    PROVE  RefusedStale(c)
  <1> SUFFICES ASSUME reply[c] # Refusal, reply'[c] = Refusal
               PROVE  now > Signature(request[c]).timestamp + MaxSkew
    BY DEF RefusedStale
  <1>1. PICK d \in Caller, copy \in 1..MaxSends : Refuse(d, copy) /\ d = c
    BY ServiceAssumption
       DEF ServiceInv, CallNext, Elapse, FailLocally, Invoke, Advance, Throttle, Transmit,
           Receive, Disconnect, Serve, Refuse, Answering, serviceVars, allVars
  <1>2. /\ now \in Nat /\ HonestRequest(request[c], Signer[c], now)
        /\ ~Authentic(request[c])
    <2>1. now \in Nat
      BY CallTypes DEF ServiceInv
    <2>2. wire[c] # {} /\ ~Authentic(request[c])
      BY <1>1 DEF Refuse
    <2> QED BY <2>1, <2>2 DEF ServiceInv, Honest, Unstarted
  <1>3. request[c].op.auth \in {"SignedUrl", "SignedBody"}
    BY <1>2 DEF Authentic
  <1> QED BY <1>2, <1>3, AuthenticMeansFresh, ServiceAssumption

\* A template's own parameters never spoil the signature put beside them.
THEOREM RefusedWhenStale == CallSpec => RefusedOnlyWhenStale
  <1>1. ServiceInv /\ [CallNext]_allVars => [\A c \in Caller : RefusedStale(c)]_allVars
    BY RefusalsAreStale
  <1> QED BY <1>1, ServiceInvariance, PTL DEF CallSpec, RefusedOnlyWhenStale

\* The budget, the tokens and the hints are kept just as well when the answers
\* come from a service.
THEOREM ServiceCallsKeepPolicy ==
    CallSpec => /\ [](WindowBound /\ WaitIsExact /\ OneLateSend /\ TokenPerCall)
                /\ HintOrDeadline /\ GivesUpWhenSpent
  <1>1. ServiceInv => WindowBound /\ WaitIsExact /\ OneLateSend /\ TokenPerCall
    BY WaitsAreExact, LastIsLate, OneTokenEach DEF ServiceInv, CallInv, BucketInv
  <1>2. ServiceInv /\ [CallNext]_allVars => [\A c \in Caller : KeepsHint(c)]_vars
    BY ServiceStepIsAnyStep, HintKept DEF ServiceInv
  <1>3. ServiceInv /\ [CallNext]_allVars => [\A c \in Caller : UsesUp(c)]_vars
    BY ServiceStepIsAnyStep, BudgetUsed DEF ServiceInv
  <1> QED BY <1>1, <1>2, <1>3, ServiceInvariance, PTL
          DEF CallSpec, HintOrDeadline, GivesUpWhenSpent

\* What classify makes of a response is what the service meant by it.
LEMMA ClassifiedAsMeant ==
    ASSUME NEW r \in Response \cup {Refusal}
    PROVE  /\ Classify(r) = "ready" => r.means = "done"
           /\ Classify(r) = "retry" => r.means = "pending"
           /\ Classify(r) \notin {"unmade", "limited"}
  <1>1. RetryDelay(r) # None <=> Postpones(r)
    BY BucketAssumption DEF RetryDelay, BodyHint, Postpones
  <1>2. ~Postpones(r) /\ Classify(r) = "ready" => ~Fails(r)
    BY <1>1 DEF Classify, Ok, Fails
  <1>3. Postpones(r) <=> Classify(r) = "retry"
    BY <1>1 DEF Classify
  <1>4. Classify(r) \notin {"unmade", "limited"}
    BY DEF Classify
  <1> QED BY <1>2, <1>3, <1>4, MeaningAssumption

\* The outcome of a step is what the last answer meant.
LEMMA OutcomesAreMeant ==
    ASSUME ServiceInv, [CallNext]_allVars, NEW c \in Caller
    PROVE  Meant(c)
  <1> SUFFICES ASSUME outcome'[c] # outcome[c]
               PROVE  /\ outcome'[c] = "ready" =>
                            reply[c].means = "done" /\ \E p \in performed : p.call = c
                      /\ outcome'[c] = "retry" => reply[c].means = "pending"
                      /\ outcome'[c] \in {"unmade", "limited"} => wire[c] = {}
    BY DEF Meant
  <1>0. /\ DOMAIN outcome = Caller
        /\ Answered(c)
        /\ wire[c] # {} => pc[c] \notin Unstarted
        /\ c \in DOMAIN pc
    BY DEF ServiceInv, CallInv, TypeOK
  <1>1. \/ \E op, template : FailLocally(c, op, template)
        \/ Throttle(c) /\ outcome'[c] = "limited"
        \/ Receive(c) /\ outcome'[c] = Classify(reply[c])
        \/ outcome'[c] = "transport"
    BY <1>0 DEF CallNext, Elapse, FailLocally, Invoke, Advance, Throttle, Transmit, Receive,
                Disconnect, Serve, Refuse, serviceVars, allVars
  <1>2. ASSUME NEW op, NEW template, FailLocally(c, op, template)
        PROVE  outcome'[c] = "unmade" /\ wire[c] = {}
    BY <1>0, <1>2 DEF FailLocally, Unstarted
  <1>3. ASSUME Throttle(c)
        PROVE  wire[c] = {}
    BY <1>0, <1>3 DEF Throttle, Read, Admit, Shed, Reacquire, Unstarted
  <1>4. ASSUME Receive(c), outcome'[c] = Classify(reply[c])
        PROVE  /\ outcome'[c] = "ready" =>
                     reply[c].means = "done" /\ \E p \in performed : p.call = c
               /\ outcome'[c] = "retry" => reply[c].means = "pending"
               /\ outcome'[c] \notin {"unmade", "limited"}
    <2>1. reply[c] # None /\ Answered(c)
      BY <1>0, <1>4 DEF Receive
    <2> QED BY <1>4, <2>1, ClassifiedAsMeant DEF Answered
  <1> QED BY <1>1, <1>2, <1>3, <1>4

\* A result handed to the caller is one the service meant, of a call it carried
\* out, and a call that failed before it was sent has no copy under way.
THEOREM OutcomesMeant == CallSpec => OutcomeIsMeant
  <1>1. ServiceInv /\ [CallNext]_allVars => [\A c \in Caller : Meant(c)]_allVars
    BY OutcomesAreMeant
  <1> QED BY <1>1, ServiceInvariance, PTL DEF CallSpec, OutcomeIsMeant
=============================================================================
