---------------------------- MODULE TokenBucket ----------------------------
(***************************************************************************)
(* The rate limiter of resilience/rate_limit.rs, shared by the callers of  *)
(* one ResilientTransport.  A caller reads the clock first and locks the   *)
(* bucket afterwards (acquire in resilience/transport.rs), so the time it  *)
(* brings may be older than the one the bucket was last refilled to.       *)
(*                                                                         *)
(* A token is Unit millitokens and a tick of the clock is a millisecond,   *)
(* with Refill millitokens gained in each.  The saturating u64 arithmetic  *)
(* of the code is exact for every clock value a run of it can reach.       *)
(***************************************************************************)
EXTENDS Naturals, Sequences

CONSTANTS
    Caller,     \* the tasks sharing the transport
    Capacity,   \* whole tokens of a full bucket
    Refill,     \* refill_per_sec: millitokens gained per millisecond
    Unit,       \* MILLITOKENS_PER_TOKEN
    MaxTime,    \* bound on the clock
    None        \* no reading; also the wait u64::MAX

ASSUME BucketAssumption ==
    /\ Capacity \in Nat
    /\ Refill \in Nat
    /\ Unit \in Nat \ {0}
    /\ MaxTime \in Nat
    /\ None \notin Nat

VARIABLES
    now,        \* the runtime's clock
    reading,    \* the clock reading a caller brings to the lock
    tokens,     \* tokens_millitokens
    last,       \* last_ms
    grants      \* history: when each token was taken, by the clock and by last_ms

bucketVars == <<now, reading, tokens, last, grants>>

Full == Unit * Capacity
Grant == [at : Nat, booked : Nat]

BucketTypeOK ==
    /\ now \in 0..MaxTime
    /\ reading \in [Caller -> 0..MaxTime \cup {None}]
    /\ tokens \in 0..Full
    /\ last \in 0..MaxTime
    /\ grants \in Seq(Grant)

-----------------------------------------------------------------------------
\* Mutant: an idle bucket fills beyond its capacity.
Unbounded(bound, n) == n

AtMost(bound, n) == IF n > bound THEN bound ELSE n

\* Refilled to t; a reading that is not newer than last_ms changes nothing.
RefilledTokens(t) ==
    IF t > last THEN AtMost(Full, tokens + Refill * (t - last)) ELSE tokens

RefilledLast(t) == IF t > last THEN t ELSE last

\* Mutant: the wait is rounded down.
WaitRoundedDown(held) == IF Refill = 0 THEN None ELSE (Unit - held) \div Refill

\* The milliseconds until the bucket yields a token, rounded up.
Wait(held) ==
    IF Refill = 0 THEN None ELSE (Unit - held + Refill - 1) \div Refill

-----------------------------------------------------------------------------
Tick ==
    /\ now < MaxTime
    /\ now' = now + 1
    /\ UNCHANGED <<reading, tokens, last, grants>>

\* runtime.now_millis(), before the lock.
ReadClock(c) ==
    /\ reading[c] = None
    /\ reading' = [reading EXCEPT ![c] = now]
    /\ UNCHANGED <<now, tokens, last, grants>>

\* try_take under the lock, when a token is there.
Granted(c) ==
    /\ reading[c] # None
    /\ RefilledTokens(reading[c]) >= Unit
    /\ tokens' = RefilledTokens(reading[c]) - Unit
    /\ last' = RefilledLast(reading[c])
    /\ grants' = Append(grants, [at |-> now, booked |-> RefilledLast(reading[c])])
    /\ reading' = [reading EXCEPT ![c] = None]
    /\ UNCHANGED now

\* try_take under the lock, when none is: the caller is told how long to wait.
Withheld(c) ==
    /\ reading[c] # None
    /\ RefilledTokens(reading[c]) < Unit
    /\ tokens' = RefilledTokens(reading[c])
    /\ last' = RefilledLast(reading[c])
    /\ reading' = [reading EXCEPT ![c] = None]
    /\ UNCHANGED <<now, grants>>

\* available: a refill that takes nothing.
Available(c) ==
    /\ reading[c] # None
    /\ tokens' = RefilledTokens(reading[c])
    /\ last' = RefilledLast(reading[c])
    /\ reading' = [reading EXCEPT ![c] = None]
    /\ UNCHANGED <<now, grants>>

BucketInit ==
    /\ now = 0
    /\ reading = [c \in Caller |-> None]
    /\ tokens = Full
    /\ last = 0
    /\ grants = <<>>

BucketNext ==
    \/ Tick
    \/ \E c \in Caller :
          ReadClock(c) \/ Granted(c) \/ Withheld(c) \/ Available(c)

BucketSpec == BucketInit /\ [][BucketNext]_bucketVars

-----------------------------------------------------------------------------
(* Properties *)

\* The bound a rate limiter is for, on the bucket's own clock: between any two
\* grants the bucket gave out at most a full burst and what was refilled in
\* between, in whatever order stale and fresh readings reached the lock.
Paced(i, j) ==
    Unit * (j - i + 1) <= Full + Refill * (grants[j].booked - grants[i].booked)

WindowBound == \A j \in 1..Len(grants) : \A i \in 1..j : Paced(i, j)

\* The same bound by the real clock, from the bucket's creation on.
TotalBound == Unit * Len(grants) <= Full + Refill * now

\* The inductive invariant behind WindowBound: the tokens still in the bucket
\* count against the burst of every earlier grant, and the bucket never runs
\* ahead of the clock.
Burst(i) ==
    Unit * (Len(grants) - i + 1) + tokens <= Full + Refill * (last - grants[i].booked)

BucketInv ==
    /\ BucketTypeOK
    /\ last <= now
    /\ \A c \in Caller : reading[c] # None => reading[c] <= now
    /\ Unit * Len(grants) + tokens <= Full + Refill * last
    /\ \A i \in 1..Len(grants) : grants[i].booked <= last /\ Burst(i)
    /\ WindowBound

\* A caller that is told to wait is told exactly how long: with nobody else
\* taking, a token is there after the wait and not a millisecond sooner.
WaitIsExact ==
    tokens < Unit /\ Capacity > 0 /\ Refill > 0 =>
        LET w == Wait(tokens)
        IN  /\ RefilledTokens(last + w) >= Unit
            /\ RefilledTokens(last + w - 1) < Unit
=============================================================================
