------------------------- MODULE PromisePollProofs -------------------------
(***************************************************************************)
(* Theorems about PromisePoll, for every width of the counter, every pair  *)
(* of interval and timeout and every delay an answer may ask for.          *)
(***************************************************************************)
EXTENDS PromisePoll, SequenceTheorems, TLAPS

(* The arithmetic of the pauses *)

LEMMA AtLeastBounds ==
    ASSUME NEW m \in Int, NEW n \in Int
    PROVE  AtLeast(m, n) \in {m, n} /\ AtLeast(m, n) >= m /\ AtLeast(m, n) >= n
BY DEF AtLeast

\* One more pause pays for one more poll.
LEMMA OneMore ==
    ASSUME NEW n \in Int, NEW i \in Int, NEW s \in Int, NEW p \in Int,
           n * i <= s, i <= p
    PROVE  (n + 1) * i <= s + p
<1>1. (n + 1) * i = n * i + i
    OBVIOUS
<1>2. n * i \in Int
    OBVIOUS
<1> HIDE <1>1
<1> QED
    BY <1>1, <1>2

LEMMA HintTypes ==
    ASSUME NEW r \in Response
    PROVE  RetryDelay(r) \in Hint \cup {None, DefaultMs}
BY DEF Response, RetryDelay

LEMMA LastElement ==
    ASSUME NEW S, NEW s \in Seq(S), s # <<>>
    PROVE  Len(s) \in Nat \ {0} /\ s[Len(s)] \in S
OBVIOUS

\* The types behind an answer that asked for another poll.
LEMMA LastTypes ==
    ASSUME TypeOK, polls # <<>>, Last.hint # None
    PROVE  /\ Len(polls) \in Nat \ {0}
           /\ Last.at \in Nat
           /\ Due(Last) \in Nat /\ Interval \in Nat /\ Interval <= Due(Last)
<1>1. /\ Len(polls) \in Nat \ {0}
      /\ Last \in [at : Nat, hint : Hint \cup {None, DefaultMs}, share : State]
    BY LastElement DEF TypeOK, Last
<1>2. Last.at \in Nat /\ Last.hint \in Nat
    <2>1. Last.at \in Nat /\ Last.hint \in Hint \cup {None, DefaultMs}
        BY <1>1
    <2>2. Hint \subseteq Nat /\ DefaultMs \in Nat
        BY PollAssumption
    <2> QED
        BY <2>1, <2>2
<1>3. options.interval \in Nat
    BY PollAssumption DEF TypeOK, Options
<1> DEFINE h == Last.hint
           o == options.interval
<1> HIDE DEF h, o
<1>4. ASSUME h \in Nat, o \in Nat
      PROVE  /\ AtLeast(AtLeast(h, o), 1) \in Nat /\ AtLeast(o, 1) \in Nat
             /\ AtLeast(o, 1) <= AtLeast(AtLeast(h, o), 1)
    BY <1>4 DEF AtLeast
<1> QED
    BY <1>1, <1>2, <1>3, <1>4 DEF h, o, Due, Interval

\* A pause is a delay the counter can hold, never zero, and no shorter than
\* the interval.
LEMMA PauseTypes ==
    ASSUME NEW r \in Response, RetryDelay(r) # None, options \in Options
    PROVE  Pause(r) \in Nat /\ Pause(r) >= 1 /\ Pause(r) >= Interval
                            /\ (MaxMs >= 1 => Pause(r) <= MaxMs)
<1>1. RetryDelay(r) \in 0..MaxMs
    BY HintTypes, PollAssumption
<1>2. options.interval \in 0..MaxMs
    BY DEF Options
<1> QED
    BY <1>1, <1>2, PollAssumption DEF Pause, Interval, AtLeast

-----------------------------------------------------------------------------
LEMMA InitInvariant == Init => IInv
<1> SUFFICES ASSUME Init PROVE IInv
    OBVIOUS
<1>1. options \in Options /\ options.timeout \in 0..(MaxMs - 1) /\ options.interval \in 0..MaxMs
    BY DEF Init, Options
<1>2. Interval \in Nat
    BY <1>1, PollAssumption DEF Interval, AtLeast
<1>3. 0 * Interval = 0 /\ (0 - 1) * Interval <= 0
    BY <1>2
<1> QED
    BY <1>1, <1>3, PollAssumption, NoneAssumption
    DEF Init, IInv, TypeOK, State, Outcome, CountOK, PausingOK, PollingOK, PollsPaid,
        PollsApart, OutcomeIsHonest

\* Appending an answer that came late enough keeps the polls apart.
LEMMA AskedApart ==
    ASSUME IInv, pc = "polling", NEW r \in Response
    PROVE  /\ Asked(r) \in Seq([at : Nat, hint : Hint \cup {None, DefaultMs}, share : State])
           /\ Len(Asked(r)) = Len(polls) + 1
           /\ Asked(r)[Len(Asked(r))] = [at |-> now, hint |-> RetryDelay(r), share |-> share]
           /\ \A i \in 1..(Len(Asked(r)) - 1) :
                 Asked(r)[i + 1].at - Asked(r)[i].at >= Due(Asked(r)[i])
<1> DEFINE S == [at : Nat, hint : Hint \cup {None, DefaultMs}, share : State]
           a == [at |-> now, hint |-> RetryDelay(r), share |-> share]
<1>1. a \in S /\ polls \in Seq(S)
    BY HintTypes DEF IInv, TypeOK
<1>2. Asked(r) = Append(polls, a)
    BY DEF Asked
<1> HIDE DEF S, a
<1>3. /\ Asked(r) \in Seq(S)
      /\ Len(Asked(r)) = Len(polls) + 1
      /\ Asked(r)[Len(polls) + 1] = a
      /\ \A i \in 1..Len(polls) : Asked(r)[i] = polls[i]
      /\ Len(polls) \in Nat
    BY <1>1, <1>2
<1>4. ASSUME NEW i \in 1..Len(polls)
      PROVE  Asked(r)[i + 1].at - Asked(r)[i].at >= Due(Asked(r)[i])
    <2>1. CASE i = Len(polls)
        <3>1. polls # <<>>
            BY <1>1, <2>1
        <3>2. now - Last.at >= Due(Last)
            BY <3>1 DEF IInv, PollingOK
        <3>3. Asked(r)[i + 1].at = now /\ Asked(r)[i] = Last
            BY <1>3, <2>1 DEF a, Last
        <3> QED
            BY <3>2, <3>3
    <2>2. CASE i < Len(polls)
        BY <1>3, <2>2 DEF IInv, PollsApart
    <2> QED
        BY <1>3, <2>1, <2>2
<1> QED
    BY <1>3, <1>4 DEF S, a

-----------------------------------------------------------------------------
(* The step from one answer or pause to the next *)

\* What the width of the counter leaves of a sum that has to fit the timeout.
LEMMA SumIsExact ==
    ASSUME options \in Options, NEW e \in Nat, NEW w \in Nat
    PROVE  /\ Sum(e, w) > options.timeout <=> e + w > options.timeout
           /\ e + w <= options.timeout => Sum(e, w) = e + w
BY PollAssumption DEF Options, Sum

LEMMA PollPendingKeeps ==
    ASSUME IInv, NEW r \in Response, PollPending(r)
    PROVE  IInv'
<1> DEFINE a == [at |-> now, hint |-> RetryDelay(r), share |-> share]
<1> USE DEF PollPending
<1>1. /\ options \in Options /\ Pause(r) \in Nat /\ Pause(r) >= 1 /\ Interval \in Nat
      /\ MaxMs >= 1 /\ Pause(r) <= MaxMs /\ elapsed = slept /\ slept \in Nat
      /\ Len(polls) \in Nat /\ options.timeout \in Nat
    <2>1. options \in Options /\ elapsed = slept /\ slept \in Nat /\ Len(polls) \in Nat
        BY DEF IInv, TypeOK, CountOK
    <2>2. options.timeout \in 0..(MaxMs - 1) /\ options.interval \in Nat
        BY <2>1, PollAssumption DEF Options
    <2> QED
        BY <2>1, <2>2, PauseTypes, PollAssumption DEF Interval, AtLeast
<1>2. /\ polls' \in Seq([at : Nat, hint : Hint \cup {None, DefaultMs}, share : State])
      /\ Len(polls') = Len(polls) + 1 /\ Last' = a /\ polls' # <<>>
    <2>1. polls' = Asked(r)
        OBVIOUS
    <2>2. Last' = Asked(r)[Len(Asked(r))]
        BY <2>1 DEF Last
    <2>3. pc = "polling"
        OBVIOUS
    <2>4. /\ Asked(r) \in Seq([at : Nat, hint : Hint \cup {None, DefaultMs}, share : State])
          /\ Len(Asked(r)) = Len(polls) + 1
          /\ Asked(r)[Len(Asked(r))] = a
        BY <2>3, AskedApart
    <2>5. Len(polls') # 0
        BY <1>1, <2>1, <2>4
    <2> HIDE DEF PollPending, a
    <2> QED
        BY <2>1, <2>2, <2>4, <2>5
<1>3. PollsApart'
    BY AskedApart DEF PollsApart, Due
<1>4. Due(Last)' = Pause(r)
    BY <1>2 DEF Due, Pause
<1>5. PollsPaid'
    <2>1. Len(polls) * Interval <= slept
        BY DEF IInv, PollsPaid
    <2>2. Len(polls') - 1 = Len(polls) /\ Interval' = Interval /\ slept' = slept
        BY <1>1, <1>2 DEF Interval
    <2>3. pc' \notin {"sharing", "polling"}
        BY DEF Return
    <2> QED
        BY <2>1, <2>2, <2>3 DEF PollsPaid
<1>6. CASE Sum(elapsed, Pause(r)) > options.timeout
    <2>1. slept' + Due(Last)' > options'.timeout
        BY <1>1, <1>4, <1>6, SumIsExact
    <2> QED
        BY <1>1, <1>2, <1>3, <1>5, <1>6, <2>1
        DEF IInv, TypeOK, CountOK, PausingOK, PollingOK, OutcomeIsHonest, Return, Outcome
<1>7. CASE ~(Sum(elapsed, Pause(r)) > options.timeout)
    <2>1. slept + Pause(r) <= options.timeout
        <3>1. Sum(slept, Pause(r)) > options.timeout <=> slept + Pause(r) > options.timeout
            BY <1>1, SumIsExact
        <3> HIDE DEF PollPending
        <3> QED
            BY <1>1, <1>7, <3>1
    <2>2. wake' \in Nat /\ pause' \in 0..MaxMs
        BY <1>1, <1>7 DEF IInv, TypeOK
    <2>3. TypeOK'
        BY <1>2, <1>7, <2>2 DEF IInv, TypeOK
    <2>4. PausingOK'
        BY <1>2, <1>4, <1>7, <2>1 DEF PausingOK
    <2>5. CountOK' /\ PollingOK'
        BY <1>7 DEF IInv, CountOK, PollingOK
    <2>6. outcome' \notin {"shared", "timeout"}
        BY <1>7 DEF IInv
    <2> QED
        BY <1>3, <1>5, <2>3, <2>4, <2>5, <2>6 DEF IInv, OutcomeIsHonest
<1> QED
    BY <1>6, <1>7

\* An answered poll that asks for no other one reports what the provider did.
LEMMA PollSettledKeeps ==
    ASSUME IInv, NEW r \in Response, PollSettled(r)
    PROVE  IInv'
<1> USE DEF PollSettled
<1>1. /\ polls' \in Seq([at : Nat, hint : Hint \cup {None, DefaultMs}, share : State])
      /\ Len(polls') = Len(polls) + 1 /\ Len(polls) \in Nat
    <2>1. polls' = Asked(r) /\ pc = "polling"
        OBVIOUS
    <2>2. /\ Asked(r) \in Seq([at : Nat, hint : Hint \cup {None, DefaultMs}, share : State])
          /\ Len(Asked(r)) = Len(polls) + 1
        BY <2>1, AskedApart
    <2>3. Len(polls) \in Nat
        BY DEF IInv, TypeOK
    <2> QED
        BY <2>1, <2>2, <2>3
<1>2. PollsApart'
    BY AskedApart DEF PollsApart, Due
<1>3. PollsPaid'
    <2>1. Len(polls) * Interval <= slept
        BY DEF IInv, PollsPaid
    <2>2. Len(polls') - 1 = Len(polls) /\ Interval' = Interval /\ slept' = slept
        BY <1>1 DEF Interval
    <2>3. pc' \notin {"sharing", "polling"}
        BY DEF Return
    <2> QED
        BY <2>1, <2>2, <2>3 DEF PollsPaid
<1>4. outcome' = "shared" => share' = "settled"
    BY PollAssumption
    DEF Return, Succeeds, RetryDelay, ProviderSends, GatewaySends, Response
<1>5. outcome' \in {"shared", "service"} /\ pc' = "done"
    BY DEF Return
<1>6. TypeOK'
    BY <1>1, <1>5 DEF IInv, TypeOK, Outcome
<1>7. CountOK' /\ PausingOK' /\ PollingOK'
    BY <1>5 DEF IInv, CountOK, PausingOK, PollingOK
<1> QED
    BY <1>2, <1>3, <1>4, <1>5, <1>6, <1>7 DEF IInv, OutcomeIsHonest

\* The pause is over: its length pays for the poll that follows.
LEMMA PauseOverKeeps == ASSUME IInv, PauseOver PROVE IInv'
<1> USE DEF PauseOver
<1>1. /\ elapsed = slept /\ slept \in Nat /\ pause \in 0..MaxMs /\ now \in Nat
      /\ options \in Options /\ polls # <<>> /\ Last.hint # None
      /\ pause = Due(Last) /\ wake = Last.at + pause
      /\ slept + pause <= options.timeout
      /\ polls \in Seq([at : Nat, hint : Hint \cup {None, DefaultMs}, share : State])
    BY DEF IInv, TypeOK, CountOK, PausingOK
<1>2. options.timeout \in 0..(MaxMs - 1) /\ options.interval \in 0..MaxMs
    BY <1>1 DEF Options
<1>3. /\ Last.at \in Nat /\ Len(polls) \in Nat \ {0}
      /\ Interval \in Nat /\ Interval <= Due(Last)
    BY <1>1, LastTypes DEF IInv
<1>4. elapsed' = slept' /\ slept' <= options.timeout /\ slept' \in Nat
    BY SMTT(30), <1>1, <1>2, PollAssumption DEF Sum
<1>5. now - Last.at >= Due(Last)
    BY <1>1, <1>3
<1>6. Interval \in Nat /\ Interval <= pause
    BY <1>1, <1>3
<1>7. PollsPaid'
    <2>1. (Len(polls) - 1) * Interval <= slept
        BY DEF IInv, PollsPaid
    <2>2. ((Len(polls) - 1) + 1) * Interval <= slept + pause
        BY <1>1, <1>3, <1>6, <2>1, OneMore
    <2>3. (Len(polls) - 1) + 1 = Len(polls)
        BY <1>3
    <2>4. Interval' = Interval /\ polls' = polls /\ slept' = slept + pause
        BY DEF Interval
    <2> DEFINE paid == Len(polls) * Interval
               before == (Len(polls) - 1) * Interval
    <2>5. before <= slept' /\ before \in Int
        BY <1>1, <1>3, <1>6, <2>1, <2>4
    <2>6. paid <= slept'
        BY <2>2, <2>3, <2>4
    <2> QED
        BY <2>4, <2>5, <2>6 DEF PollsPaid
<1>8. TypeOK'
    <2>1. elapsed' \in 0..MaxMs
        BY <1>1, <1>2, <1>4, PollAssumption
    <2> QED
        BY <1>4, <2>1 DEF IInv, TypeOK
<1>9. PollingOK' /\ PausingOK' /\ CountOK'
    BY <1>1, <1>4, <1>5 DEF PollingOK, PausingOK, CountOK, Last, Due
<1>10. PollsApart' /\ OutcomeIsHonest'
    BY DEF IInv, PollsApart, OutcomeIsHonest, Due, Last
<1>11. outcome' \notin {"shared", "timeout"}
    BY DEF IInv
<1> QED
    BY <1>7, <1>8, <1>9, <1>10, <1>11 DEF IInv

LEMMA ShareAnsweredKeeps ==
    ASSUME IInv, NEW r \in Response, ShareAnswered(r)
    PROVE  IInv'
<1> USE DEF ShareAnswered
<1>1. /\ pc' \in {"polling", "done"} /\ polls' = <<>>
      /\ outcome' \in (Outcome \ {"timeout"}) \cup {None}
      /\ outcome' = "shared" => share' = "settled"
      /\ outcome' = "shared" => pc' = "done"
    BY DEF IInv, TypeOK, PollingOK, Return, Classify, ShareSends, Outcome
<1>2. PollsPaid'
    <2>1. Interval' = Interval /\ polls' = polls /\ slept' = slept
        BY DEF Interval
    <2>2. Len(polls) * Interval <= slept /\ (Len(polls) - 1) * Interval <= slept
        BY DEF IInv, PollsPaid
    <2> QED
        BY <2>1, <2>2 DEF PollsPaid
<1>3. TypeOK'
    BY <1>1 DEF IInv, TypeOK
<1>4. CountOK' /\ PausingOK' /\ PollingOK' /\ PollsApart'
    BY <1>1 DEF IInv, CountOK, PausingOK, PollingOK, PollsApart, Due
<1> QED
    BY <1>1, <1>2, <1>3, <1>4, NoneAssumption DEF IInv, OutcomeIsHonest, Outcome

\* Steps that leave the polls, the pauses and the clocks of the client alone.
LEMMA OthersKeep ==
    ASSUME IInv, UNCHANGED <<options, elapsed, pause, wake, polls, slept>>,
           \/ Settle \/ RequestFails \/ Pass \/ UNCHANGED vars
    PROVE  IInv'
<1>1. now' \in Nat /\ now' >= now /\ now \in Nat
    BY DEF IInv, TypeOK, Settle, RequestFails, Pass, vars
<1>2. /\ share' \in State /\ pc' \in {pc, "done"}
      /\ outcome' \in {outcome, "transport"}
      /\ outcome' = outcome \/ pc' = "done"
      /\ outcome' = "shared" => share' = "settled"
      /\ pc' = pc \/ outcome' = "transport"
    BY DEF IInv, TypeOK, OutcomeIsHonest, State, Settle, RequestFails, Pass, vars, client,
           Return
<1>3. Last' = Last /\ Due(Last)' = Due(Last) /\ Interval' = Interval
    BY DEF Last, Due, Interval
<1>4. TypeOK'
    BY <1>1, <1>2 DEF IInv, TypeOK, Outcome
<1>5. CountOK' /\ PausingOK'
    BY <1>2, <1>3 DEF IInv, CountOK, PausingOK
<1>6. PollingOK'
    <2>1. ASSUME pc = "polling", polls # <<>> PROVE now' - Last.at >= Due(Last)
        <3>1. now - Last.at >= Due(Last) /\ Last.hint # None
            BY <2>1 DEF IInv, PollingOK
        <3>2. Last.at \in Nat /\ Due(Last) \in Nat
            BY <2>1, <3>1, LastTypes DEF IInv
        <3> QED
            BY <1>1, <3>1, <3>2
    <2> QED
        BY <1>2, <1>3, <2>1 DEF IInv, PollingOK
<1>7. PollsPaid'
    BY <1>2, <1>3 DEF IInv, PollsPaid
<1>8. PollsApart' /\ OutcomeIsHonest'
    BY <1>2, <1>3 DEF IInv, PollsApart, OutcomeIsHonest, Due
<1>9. outcome' = "timeout" => polls' # <<>> /\ slept' + Due(Last)' > options'.timeout
    BY <1>2, <1>3 DEF IInv
<1>10. outcome' \in {"shared", "timeout"} => pc' = "done"
    BY <1>2 DEF IInv
<1> QED
    BY <1>4, <1>5, <1>6, <1>7, <1>8, <1>9, <1>10 DEF IInv

LEMMA StepInvariant == IInv /\ [Next]_vars => IInv'
<1> SUFFICES ASSUME IInv, [Next]_vars PROVE IInv'
    OBVIOUS
<1>1. CASE Settle
    BY <1>1, OthersKeep DEF Settle, client
<1>2. CASE Answered
    BY <1>2, ShareAnsweredKeeps, PollPendingKeeps, PollSettledKeeps DEF Answered, Bare
<1>3. CASE RequestFails
    BY <1>3, OthersKeep DEF RequestFails
<1>4. CASE PauseOver
    BY <1>4, PauseOverKeeps
<1>5. CASE Pass
    BY <1>5, OthersKeep DEF Pass, client
<1>6. CASE UNCHANGED vars
    BY <1>6, OthersKeep DEF vars
<1> QED
    BY <1>1, <1>2, <1>3, <1>4, <1>5, <1>6 DEF Next

\* In every reachable state the client's count is the exact time it slept, the
\* pause in progress is the one that was asked for, and the pauses made pay for
\* the polls: for every width, interval, timeout and hint.
THEOREM Invariance == Spec => []IInv
BY InitInvariant, StepInvariant, PTL DEF Spec

\* What share_kyc_attributes_and_wait returns is what the provider did, and a
\* timeout follows only on an answer that asked for another poll.
THEOREM OutcomesHonest == Spec => []OutcomeIsHonest
<1>1. IInv => OutcomeIsHonest
    BY DEF IInv
<1> QED
    BY <1>1, Invariance, PTL

\* The client never sleeps longer than its timeout, also where a sum of pauses
\* leaves the width of elapsed_ms, and never gives up while a pause still fits.
THEOREM DeadlineKept == Spec => []GivesUpWhenSpent
<1>1. IInv => GivesUpWhenSpent
    BY DEF IInv, CountOK, GivesUpWhenSpent
<1> QED
    BY <1>1, Invariance, PTL

\* Between two polls lies what the answer before asked for and the interval.
THEOREM PollsKeptApart == Spec => []PollsApart
<1>1. IInv => PollsApart
    BY DEF IInv
<1> QED
    BY <1>1, Invariance, PTL

\* A share that never settles is polled at most once per interval of its
\* timeout, and once more.
THEOREM PollsAreBounded == Spec => []PollsBounded
<1>1. IInv => PollsBounded
    <2> SUFFICES ASSUME IInv PROVE PollsBounded
        OBVIOUS
    <2> DEFINE cost == (Len(polls) - 1) * Interval
    <2>1. cost <= slept /\ slept <= options.timeout /\ slept \in Nat
        BY DEF IInv, TypeOK, CountOK, PollsPaid
    <2>2. options.timeout \in Int /\ Interval \in Int /\ Len(polls) \in Int
        BY PollAssumption DEF IInv, TypeOK, Options, Interval, AtLeast
    <2>3. cost \in Int
        BY <2>2
    <2> HIDE DEF cost
    <2>4. cost <= options.timeout
        BY <2>1, <2>2, <2>3
    <2> QED
        BY <2>4 DEF cost, PollsBounded, Interval
<1> QED
    BY <1>1, Invariance, PTL
=============================================================================
