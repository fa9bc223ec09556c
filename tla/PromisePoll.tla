---------------------------- MODULE PromisePoll ----------------------------
(***************************************************************************)
(* AssetMovementProvider::share_kyc_attributes_and_wait (client.rs of      *)
(* services/asset_movement) over the classification of responses in        *)
(* service/envelope.rs: a share is requested, and while the provider       *)
(* works on it the client polls the promise URL, pausing between polls.    *)
(*                                                                         *)
(* Client and provider run concurrently: the provider settles or fails at  *)
(* any time, a gateway in between may answer in its place, and an answer   *)
(* may take any time.  Times are u32 milliseconds.                         *)
(***************************************************************************)
EXTENDS Integers, Sequences

CONSTANTS
    MaxMs,      \* u32::MAX
    MaxTime,    \* bound: time passes only in pauses afterwards
    MaxPolls,   \* bound on the polls of a call; PollsBounded keeps below it
    Hint,       \* the delays an answer may ask for
    DefaultMs,  \* DEFAULT_RETRY_MS
    None        \* the absent Option

ASSUME PollAssumption ==
    /\ MaxMs \in Nat /\ MaxTime \in Nat /\ MaxPolls \in Nat
    /\ Hint \subseteq 0..MaxMs
    /\ DefaultMs \in 0..MaxMs
    /\ None \notin Nat

\* AwaitOptions.  With timeout_ms at u32::MAX the saturated sum never exceeds
\* it and the poll has no end; that value is left out.
Options == [interval : 0..MaxMs, timeout : 0..(MaxMs - 1)]

\* An HTTP response as the client looks at it: a retryAfter in the body, a
\* Retry-After header that fits, an envelope with ok false, a blocker code, and
\* what its body decodes to.
Response ==
    [status : {"success", "accepted", "not_found", "error"},
     bodyHint : Hint \cup {None}, headerHint : Hint \cup {None},
     okFalse : BOOLEAN, blocker : BOOLEAN,
     body : {"done", "pending", "pending_url", "opaque"}]

VARIABLES
    options,    \* the AwaitOptions of the call
    share,      \* the provider: "processing", "settled" or "failed"
    pc,         \* the client: "sharing", "polling", "pausing" or "done"
    outcome,    \* what the call returned
    now,        \* the wall clock
    elapsed,    \* elapsed_ms
    pause,      \* the wait being slept
    wake,       \* when the pause ends at the earliest
    polls,      \* for each answered poll: when, its hint, the provider's state
    slept       \* the pauses made so far, summed without a width

vars == <<options, share, pc, outcome, now, elapsed, pause, wake, polls, slept>>
client == <<pc, outcome, elapsed, pause, wake, polls, slept>>

Outcome == {"shared", "pending", "timeout", "service", "blocker", "body", "transport"}
State == {"processing", "settled", "failed"}

ASSUME NoneAssumption == None \notin Outcome

TypeOK ==
    /\ options \in Options
    /\ share \in State
    /\ pc \in {"sharing", "polling", "pausing", "done"}
    /\ outcome \in Outcome \cup {None}
    /\ now \in Nat /\ wake \in Nat /\ slept \in Nat
    /\ elapsed \in 0..MaxMs /\ pause \in 0..MaxMs
    /\ polls \in Seq([at : Nat, hint : Hint \cup {None, DefaultMs}, share : State])

-----------------------------------------------------------------------------
(* service/envelope.rs *)

Succeeds(r) == r.status \in {"success", "accepted"}

\* Mutant: only a 404 means that the resource is not ready.
RetryDelayNotFound(r) ==
    IF r.bodyHint # None THEN r.bodyHint
    ELSE IF r.headerHint # None THEN r.headerHint
    ELSE IF r.status = "not_found" THEN DefaultMs ELSE None

\* retry_delay
RetryDelay(r) ==
    IF r.bodyHint # None THEN r.bodyHint
    ELSE IF r.headerHint # None THEN r.headerHint
    ELSE IF r.status \in {"not_found", "accepted"} THEN DefaultMs ELSE None

\* classify, then expect_ready: what invoke gives for an operation that is not
\* polled.
Classify(r) ==
    IF RetryDelay(r) # None THEN "body"
    ELSE IF ~Succeeds(r) \/ r.okFalse
         THEN IF r.blocker THEN "blocker" ELSE "service"
    ELSE IF r.body = "opaque" THEN "body" ELSE "ready"

-----------------------------------------------------------------------------
(* The provider, and what may answer for it *)

Settle ==
    /\ share = "processing"
    /\ share' \in {"settled", "failed"}
    /\ UNCHANGED <<options, now, client>>

\* A provider that is processing answers 202 or 404, with or without a hint; a
\* settled one 200 without one; a failed one an error without one.
ProviderSends(r) ==
    \/ share = "processing" /\ r.status \in {"accepted", "not_found"}
    \/ share = "settled" /\ r.status = "success" /\ r.bodyHint = None
       /\ r.headerHint = None
    \/ share = "failed" /\ r.status = "error" /\ r.bodyHint = None
       /\ r.headerHint = None

\* A gateway fails with or without a Retry-After header.
GatewaySends(r) == r.status = "error" /\ r.bodyHint = None

\* The answer to the share itself tells whether it is still pending.
ShareSends(r) ==
    /\ r.body = "done" => share = "settled"
    /\ r.status = "success" \/ GatewaySends(r) \/ ProviderSends(r)

-----------------------------------------------------------------------------
(* The client *)

Return(o) == pc' = "done" /\ outcome' = o

\* Mutant: what a ready answer says is not looked at.
ShareAnsweredUnread(r) ==
    /\ pc = "sharing"
    /\ ShareSends(r)
    /\ Return(Classify(r))
    /\ UNCHANGED <<options, share, now, elapsed, pause, wake, polls, slept>>

\* share_kyc_attributes: a pending share with a URL is polled.
ShareAnswered(r) ==
    /\ pc = "sharing"
    /\ ShareSends(r)
    /\ IF Classify(r) # "ready" THEN Return(Classify(r))
       ELSE IF r.body = "done" THEN Return("shared")
       ELSE IF r.body = "pending" THEN Return("pending")
       ELSE pc' = "polling" /\ UNCHANGED outcome
    /\ UNCHANGED <<options, share, now, elapsed, pause, wake, polls, slept>>

\* The promise URL does not join, or a request is not answered.
RequestFails ==
    /\ pc \in {"sharing", "polling"}
    /\ Return("transport")
    /\ UNCHANGED <<options, share, now, elapsed, pause, wake, polls, slept>>

AtLeast(m, n) == IF m > n THEN m ELSE n

\* Mutant: the hint of the provider replaces the interval of the caller.
PauseHintOnly(r) == AtLeast(RetryDelay(r), 1)

Pause(r) == AtLeast(AtLeast(RetryDelay(r), options.interval), 1)

\* Mutant: a sum that wraps around.
SumWrapping(m, n) == (m + n) % (MaxMs + 1)

\* saturating_add
Sum(m, n) == IF m + n > MaxMs THEN MaxMs ELSE m + n

Asked(r) == Append(polls, [at |-> now, hint |-> RetryDelay(r), share |-> share])

PollPending(r) ==
    /\ pc = "polling"
    /\ ProviderSends(r) \/ GatewaySends(r)
    /\ RetryDelay(r) # None
    /\ polls' = Asked(r)
    /\ IF Sum(elapsed, Pause(r)) > options.timeout
       THEN Return("timeout") /\ UNCHANGED <<pause, wake>>
       ELSE /\ pc' = "pausing"
            /\ pause' = Pause(r)
            /\ wake' = now + Pause(r)
            /\ UNCHANGED outcome
    /\ UNCHANGED <<options, share, now, elapsed, slept>>

\* The promise contract is status-only: the body is not looked at.
PollSettled(r) ==
    /\ pc = "polling"
    /\ ProviderSends(r) \/ GatewaySends(r)
    /\ RetryDelay(r) = None
    /\ polls' = Asked(r)
    /\ Return(IF Succeeds(r) THEN "shared" ELSE "service")
    /\ UNCHANGED <<options, share, now, elapsed, pause, wake, slept>>

PauseOver ==
    /\ pc = "pausing"
    /\ now >= wake /\ Len(polls) < MaxPolls
    /\ pc' = "polling"
    /\ elapsed' = Sum(elapsed, pause)
    /\ slept' = slept + pause
    /\ UNCHANGED <<options, share, outcome, now, pause, wake, polls>>

Pass ==
    /\ pc # "done"
    /\ now < MaxTime \/ (pc = "pausing" /\ now < wake)
    /\ now' = now + 1
    /\ UNCHANGED <<options, share, client>>

Init ==
    /\ options \in Options
    /\ share = "processing"
    /\ pc = "sharing"
    /\ outcome = None
    /\ now = 0
    /\ elapsed = 0
    /\ pause = 0
    /\ wake = 0
    /\ polls = <<>>
    /\ slept = 0

\* The poll looks at the status and the hints only: one body stands for all.
Bare == {r \in Response : ~r.okFalse /\ ~r.blocker /\ r.body = "opaque"}

Answered ==
    \/ \E r \in Response : ShareAnswered(r)
    \/ \E r \in Bare : PollPending(r) \/ PollSettled(r)

Next == Settle \/ Answered \/ RequestFails \/ PauseOver \/ Pass

Spec == Init /\ [][Next]_vars

\* Every request is answered or fails, time passes, and pauses end.  The
\* provider need not ever settle.
FairSpec ==
    /\ Spec
    /\ WF_vars(Answered \/ RequestFails)
    /\ WF_vars(PauseOver)
    /\ WF_vars(Pass)
-----------------------------------------------------------------------------
(* Properties *)

Last == polls[Len(polls)]

\* What the client reports is what the provider did: a share is reported done
\* only when it is settled, and a timeout only when the last answer asked for
\* another poll.
OutcomeIsHonest ==
    /\ outcome = "shared" => share = "settled"
    /\ outcome = "timeout" => Last.hint # None

\* The poll gives up exactly when one more pause does not fit in the timeout:
\* never while it does, also where the sum of the pauses exceeds a u32.
Due(p) == AtLeast(AtLeast(p.hint, options.interval), 1)

GivesUpWhenSpent ==
    /\ slept <= options.timeout
    /\ outcome = "timeout" => slept + Due(Last) > options.timeout

\* Consecutive polls are apart by what the answer before asked for and by the
\* caller's interval.
PollsApart ==
    \A i \in 1..(Len(polls) - 1) : polls[i + 1].at - polls[i].at >= Due(polls[i])

\* The provider is not asked more often than the options allow.
PollsBounded == (Len(polls) - 1) * AtLeast(options.interval, 1) <= options.timeout

\* The invariant the proofs rest on.  The width of elapsed_ms never shows; a
\* pause in progress is the one the last answer asked for and fits what is left;
\* the pauses made pay for the polls after the first.
Interval == AtLeast(options.interval, 1)

CountOK ==
    /\ elapsed = slept
    /\ slept <= options.timeout

PausingOK ==
    pc = "pausing" =>
        /\ polls # <<>> /\ Last.hint # None
        /\ pause = Due(Last) /\ wake = Last.at + pause
        /\ slept + pause <= options.timeout

PollingOK ==
    /\ pc = "sharing" => polls = <<>>
    /\ pc = "polling" /\ polls # <<>> =>
          Last.hint # None /\ now - Last.at >= Due(Last)

PollsPaid ==
    /\ pc \in {"sharing", "polling"} => Len(polls) * Interval <= slept
    /\ (Len(polls) - 1) * Interval <= slept

IInv ==
    /\ TypeOK
    /\ CountOK
    /\ PausingOK
    /\ PollingOK
    /\ PollsPaid
    /\ PollsApart
    /\ OutcomeIsHonest
    /\ outcome \in {"shared", "timeout"} => pc = "done"
    /\ outcome = "timeout" =>
          polls # <<>> /\ slept + Due(Last) > options.timeout

\* Every call returns, also when the provider never settles.
EveryShareReturns == <>(pc = "done")
=============================================================================
