----------------------------- MODULE Resilience -----------------------------
(***************************************************************************)
(* Calls through a ResilientTransport: a token of the shared bucket is     *)
(* acquired (resilience/transport.rs), then RetryPolicy::run                *)
(* (resilience/retry.rs) sends the request and sends it again while the    *)
(* answers are transient, sleeping in between, until the retries of the    *)
(* backoff schedule (resilience/backoff.rs) or the time budget are spent.  *)
(*                                                                         *)
(* One call per caller.  The wrapped transport answers after any delay;    *)
(* a sleep ends at its time or any time later.                             *)
(***************************************************************************)
EXTENDS TokenBucket, FiniteSets

CONSTANTS
    Limited,    \* callers whose transport has a rate limit
    MaxTotal,   \* RetryPolicy.max_total_ms
    Base,       \* Backoff.base_ms
    Factor,     \* Backoff.factor
    MaxDelay,   \* Backoff.max_ms
    MaxRetries, \* Backoff.max_retries, or None
    Jitter,     \* RetryPolicy.jitter: "none", "full" or "equal"
    Hint,       \* Retry-After values of answers, in milliseconds
    StartBy,    \* bound: no call begins later than this
    MaxSends    \* bound: from this many requests on, time passes between two

ASSUME PolicyAssumption ==
    /\ Limited \subseteq Caller
    /\ {MaxTotal, Base, Factor, MaxDelay, StartBy, MaxSends} \subseteq Nat
    /\ MaxRetries \in Nat \cup {None}
    /\ Jitter \in {"none", "full", "equal"}
    /\ Hint \subseteq Nat

VARIABLES
    pc,         \* where a call is
    start,      \* run's start
    attempt,    \* run's attempt
    wake,       \* when the sleep of a call ends
    sent,       \* history: when each request of a call was sent
    heldUntil   \* history: the end of the last Retry-After

callVars == <<pc, start, attempt, wake, sent, heldUntil>>
vars == <<bucketVars, callVars>>

\* How a call can end: a final response or error, a retryable response handed
\* back, RetryExhausted, RateLimited.
Returned == {"response", "error", "spent", "exhausted", "limited"}
Sleeping == {"waiting", "backoff"}

TypeOK ==
    /\ BucketTypeOK
    /\ pc \in [Caller -> {"idle", "acquiring", "admitted", "calling"}
                          \cup Sleeping \cup Returned]
    /\ start \in [Caller -> Nat]
    /\ attempt \in [Caller -> Nat]
    /\ wake \in [Caller -> Nat]
    /\ sent \in [Caller -> Seq(Nat)]
    /\ heldUntil \in [Caller -> Nat]

-----------------------------------------------------------------------------
(* Backoff and budget *)

Elapsed(c) == now - start[c]
Deadline(c) == start[c] + MaxTotal

\* Mutant: a spent budget still leaves a millisecond to sleep.
RemainingUnchecked(c) == IF Elapsed(c) >= MaxTotal THEN 1 ELSE MaxTotal - Elapsed(c)

\* remaining_budget
Remaining(c) == IF Elapsed(c) >= MaxTotal THEN 0 ELSE MaxTotal - Elapsed(c)

\* Mutant: one retry too few.
RetriesLeftTooFew(n) == MaxRetries # None => n + 1 < MaxRetries

RetriesLeft(n) == MaxRetries # None => n < MaxRetries

\* The growth of Backoff::delay: the factor to the power of the attempt.
Grown(growth, n) == growth * Factor
Growth[n \in Nat] == IF n = 0 THEN 1 ELSE Grown(Growth[n - 1], n)

\* Backoff::delay while retries are left.
Scheduled(n) == AtMost(MaxDelay, Base * Growth[n])

\* Jitter::apply: what the delay may become, whatever is drawn.
Jittered(delay) ==
    CASE Jitter = "none" -> {delay}
      [] Jitter = "full" -> 0..delay
      [] Jitter = "equal" -> (delay \div 2)..delay

MayRetry(c) == Remaining(c) > 0 /\ RetriesLeft(attempt[c])

\* Mutant: the Retry-After hint is not looked at.
NextDelaysIgnoringHint(c, hint) ==
    {AtMost(Remaining(c), jittered) : jittered \in Jittered(Scheduled(attempt[c]))}

\* next_delay: the sleeps it can return when it returns one.  The longer of the
\* jittered delay and the hint is taken, and cut to what is left of the budget.
NextDelays(c, hint) ==
    {AtMost(Remaining(c), IF hint > jittered THEN hint ELSE jittered) :
        jittered \in Jittered(Scheduled(attempt[c]))}

-----------------------------------------------------------------------------
Goto(c, place) == pc' = [pc EXCEPT ![c] = place]

\* get or post is called: acquire runs first when there is a limiter.
Begin(c) ==
    /\ pc[c] = "idle"
    /\ now <= StartBy
    /\ Goto(c, IF c \in Limited THEN "acquiring" ELSE "admitted")
    /\ UNCHANGED <<bucketVars, start, attempt, wake, sent, heldUntil>>

\* Mutant: the clock is read once, before the loop of acquire.
ReadOnce(c) ==
    /\ pc[c] = "acquiring"
    /\ reading[c] = None
    /\ reading' = [reading EXCEPT ![c] = AtMost(StartBy, now)]
    /\ UNCHANGED <<now, tokens, last, grants, callVars>>

\* acquire: the clock is read before the lock is taken.
Read(c) ==
    /\ pc[c] = "acquiring"
    /\ ReadClock(c)
    /\ UNCHANGED callVars

\* Mutant: the answer of the bucket is not looked at.
AdmitUnpaid(c) ==
    /\ pc[c] = "acquiring"
    /\ reading[c] # None
    /\ Goto(c, "admitted")
    /\ reading' = [reading EXCEPT ![c] = None]
    /\ UNCHANGED <<now, tokens, last, grants, start, attempt, wake, sent, heldUntil>>

Admit(c) ==
    /\ pc[c] = "acquiring"
    /\ Granted(c)
    /\ Goto(c, "admitted")
    /\ UNCHANGED <<start, attempt, wake, sent, heldUntil>>

\* Mutant: the call sleeps although no refill is scheduled.
ShedNever(c) ==
    /\ pc[c] = "acquiring"
    /\ Withheld(c)
    /\ Goto(c, "waiting")
    /\ wake' = [wake EXCEPT ![c] = now + 1]
    /\ UNCHANGED <<start, attempt, sent, heldUntil>>

\* No token: the call sleeps, or is shed when no refill is scheduled.
Shed(c) ==
    /\ pc[c] = "acquiring"
    /\ Withheld(c)
    /\ IF Wait(tokens') = None
       THEN Goto(c, "limited") /\ UNCHANGED wake
       ELSE Goto(c, "waiting") /\ wake' = [wake EXCEPT ![c] = now + Wait(tokens')]
    /\ UNCHANGED <<start, attempt, sent, heldUntil>>

Reacquire(c) ==
    /\ pc[c] = "waiting"
    /\ now >= wake[c]
    /\ wake' = [wake EXCEPT ![c] = 0]
    /\ Goto(c, "acquiring")
    /\ UNCHANGED <<bucketVars, start, attempt, sent, heldUntil>>

\* run: the budget starts, and the request is sent for the first time.
Send(c) ==
    /\ pc[c] = "admitted"
    /\ start' = [start EXCEPT ![c] = now]
    /\ sent' = [sent EXCEPT ![c] = <<now>>]
    /\ Goto(c, "calling")
    /\ UNCHANGED <<bucketVars, attempt, wake, heldUntil>>

\* A final answer: neither a retryable status nor a transient error.
Conclude(c, outcome) ==
    /\ pc[c] = "calling"
    /\ outcome \in {"response", "error"}
    /\ Goto(c, outcome)
    /\ UNCHANGED <<bucketVars, start, attempt, wake, sent, heldUntil>>

\* A transient answer while a retry is allowed: sleep.
Retry(c, hint) ==
    /\ pc[c] = "calling"
    /\ MayRetry(c)
    /\ \E delay \in NextDelays(c, hint) : wake' = [wake EXCEPT ![c] = now + delay]
    /\ heldUntil' = [heldUntil EXCEPT ![c] = now + hint]
    /\ Goto(c, "backoff")
    /\ UNCHANGED <<bucketVars, start, attempt, sent>>

\* A transient answer and nothing left: a retryable response is handed back, a
\* transport error becomes RetryExhausted.
GiveUp(c, outcome) ==
    /\ pc[c] = "calling"
    /\ ~MayRetry(c)
    /\ outcome \in {"spent", "exhausted"}
    /\ Goto(c, outcome)
    /\ UNCHANGED <<bucketVars, start, attempt, wake, sent, heldUntil>>

SleepOver(c) ==
    /\ pc[c] = "backoff"
    /\ now >= wake[c]
    /\ Len(sent[c]) < MaxSends \/ now > sent[c][Len(sent[c])]

\* The sleep is over: the attempt is counted and the request is sent again.
Resend(c) ==
    /\ SleepOver(c)
    /\ wake' = [wake EXCEPT ![c] = 0]
    /\ attempt' = [attempt EXCEPT ![c] = @ + 1]
    /\ sent' = [sent EXCEPT ![c] = Append(@, now)]
    /\ heldUntil' = [heldUntil EXCEPT ![c] = 0]
    /\ Goto(c, "calling")
    /\ UNCHANGED <<bucketVars, start>>

\* Bound: from StartBy on the clock lets the calls go first that are not sent
\* yet and wait for nothing but the executor.
Unsent(c) ==
    \/ pc[c] \in {"acquiring", "admitted"}
    \/ pc[c] = "waiting" /\ now >= wake[c]

Pass ==
    /\ Tick
    /\ (\E c \in Caller : Unsent(c)) => now < StartBy
    /\ UNCHANGED callVars

Init ==
    /\ BucketInit
    /\ pc = [c \in Caller |-> "idle"]
    /\ start = [c \in Caller |-> 0]
    /\ attempt = [c \in Caller |-> 0]
    /\ wake = [c \in Caller |-> 0]
    /\ sent = [c \in Caller |-> <<>>]
    /\ heldUntil = [c \in Caller |-> 0]

\* The steps the executor owes a call once it is begun.
Proceed(c) ==
    \/ Read(c)
    \/ Admit(c)
    \/ Shed(c)
    \/ Reacquire(c)
    \/ Send(c)
    \/ Resend(c)

\* Retryable statuses may carry a Retry-After, transient errors carry none (0).
Answer(c) ==
    \/ \E outcome \in {"response", "error"} : Conclude(c, outcome)
    \/ \E hint \in Hint \cup {0} : Retry(c, hint)
    \/ \E outcome \in {"spent", "exhausted"} : GiveUp(c, outcome)

Next ==
    \/ Pass
    \/ \E c \in Caller : Begin(c) \/ Proceed(c) \/ Answer(c)

Spec == Init /\ [][Next]_vars

\* Time passes, the executor polls what is ready, and every request is answered
\* or fails (the wrapped transport has its own timeouts).
FairSpec ==
    /\ Spec
    /\ WF_vars(Pass)
    /\ \A c \in Caller : WF_vars(Proceed(c)) /\ WF_vars(Answer(c))
-----------------------------------------------------------------------------
(* Properties *)

\* However slow the answers and however late the sleeps end, a call sends at
\* most one request at or after the end of its time budget.
LateSends(c) == {i \in 1..Len(sent[c]) : sent[c][i] >= Deadline(c)}

OneLateSend == \A c \in Caller : Cardinality(LateSends(c)) <= 1

\* A server that asked to be left alone is left alone that long, unless the
\* whole budget ends first.
KeepsHint(c) ==
    Len(sent'[c]) > Len(sent[c]) /\ sent[c] # <<>> =>
        now >= heldUntil[c] \/ now >= Deadline(c)

HintOrDeadline == [][\A c \in Caller : KeepsHint(c)]_vars

\* A transient failure is passed on to the caller only when the budget or the
\* retries are really used up, as counted by the requests that went out.
UsesUp(c) ==
    pc[c] = "calling" /\ pc'[c] \in {"spent", "exhausted"} =>
        now >= Deadline(c) \/ Len(sent[c]) = MaxRetries + 1

GivesUpWhenSpent == [][\A c \in Caller : UsesUp(c)]_vars

\* The limiter: every first request was paid for with exactly one token, and a
\* call is shed only where no refill is scheduled, before anything was sent.
Admitted == {c \in Limited : pc[c] = "admitted" \/ sent[c] # <<>>}

TokenPerCall ==
    /\ Len(grants) = Cardinality(Admitted)
    /\ \A c \in Caller : pc[c] = "limited" => Refill = 0 /\ sent[c] = <<>>

\* The inductive invariant behind them.  A call has sent nothing until it is
\* through the limiter; from then on its attempts count its requests, which all
\* went out before its deadline but for the last one it did not sleep after.
Unstarted == {"idle", "acquiring", "waiting", "admitted", "limited"}

InLimiter(c) ==
    /\ pc[c] \in {"acquiring", "waiting", "limited"} => c \in Limited
    /\ pc[c] = "limited" => Refill = 0

SendsCounted(c) ==
    /\ pc[c] \in Unstarted <=> sent[c] = <<>>
    /\ sent[c] = <<>> => attempt[c] = 0
    /\ sent[c] # <<>> => Len(sent[c]) = attempt[c] + 1
    /\ MaxRetries # None => attempt[c] <= MaxRetries
    /\ MaxRetries # None /\ pc[c] = "backoff" => attempt[c] < MaxRetries

SendsInTime(c) ==
    /\ start[c] <= now
    /\ \A i \in 1..Len(sent[c]) :
          /\ sent[c][i] <= now
          /\ i < Len(sent[c]) \/ pc[c] = "backoff" => sent[c][i] < Deadline(c)
    /\ pc[c] = "backoff" => wake[c] >= heldUntil[c] \/ wake[c] >= Deadline(c)

CallOK(c) == InLimiter(c) /\ SendsCounted(c) /\ SendsInTime(c)

TokensPaid == IsFiniteSet(Admitted) /\ Len(grants) = Cardinality(Admitted)

CallInv ==
    /\ TypeOK
    /\ BucketInv
    /\ \A c \in Caller : CallOK(c)
    /\ TokensPaid

\* Every call that began comes back, whatever the answers are.
EveryCallReturns ==
    \A c \in Caller : pc[c] # "idle" ~> pc[c] \in Returned
=============================================================================
