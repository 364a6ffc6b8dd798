------------------------ MODULE OpenRouterClientProofs ------------------------
(***************************************************************************)
(* The safety properties of OpenRouterClient for every budget, retry limit,*)
(* lag and first attempt, from one inductive invariant.                    *)
(***************************************************************************)
EXTENDS OpenRouterClient, TLAPS

\* Requests of the current post, the one about to be sent not counted.
SentHere == IF pc = "check" THEN offset ELSE offset + 1

\* No timer of the call lies beyond its deadline, and its first request is
\* sent before any time has passed.
TimeInv ==
    /\ deadline = TotalBudget
    /\ requests = <<>> => now = 0 /\ pc = "check"
    /\ now <= deadline + Lag
    /\ pc \in {"inflight", "backoff"} => timer <= deadline

\* The position in the two retry loops accounts for every request sent.
CountInv ==
    /\ mode = "native" => start = first
    /\ mode = "fallback" => start > first /\ start <= first + MaxRetries + 1
    /\ pc = "backoff" => offset < MaxRetries
    /\ pc \in Running => start + SentHere = first + Len(requests)
    /\ pc \in Ended => start + offset <= first + Len(requests)
                    /\ first + Len(requests) <= start + offset + 1

\* The remembered error is the one of the latest request.
ErrorInv ==
    /\ pc = "backoff" => lastError.attempt = Attempt
    /\ pc \in {"check", "inflight"} /\ offset = 0 => lastError = NoError
    /\ pc \in {"check", "inflight"} /\ offset > 0 => lastError.attempt = Attempt - 1

ModeInv ==
    /\ mode = "native" => \A i \in 1..Len(requests) : requests[i].mode = "native"
    /\ mode = "fallback" => requests # <<>>

IInv ==
    /\ TypeOK
    /\ TimeInv
    /\ CountInv
    /\ ErrorInv
    /\ ModeInv
    /\ AttemptsConsecutive
    /\ NativeBeforeFallback
    /\ RejectionFallsBack
    /\ ErrorNamesAttempt

-------------------------------------------------------------------------------

\* An error of the latest request, or of an attempt the budget ruled out.
Current(err) ==
    \/ err.attempt = first + Len(requests) - 1
    \/ err.attempt = first + Len(requests) /\ ~err.rejection

\* Raising such an error, from the loop's head or from an attempt, keeps
\* the invariant, whether it ends the call or starts the fallback.
LEMMA RaiseKeepsIInv ==
    ASSUME IInv, pc \in {"check", "inflight"}, requests # <<>>,
           NEW err \in Errors, Current(err), Raise(err),
           UNCHANGED <<now, requests, recorded, first>>, timer' \in Nat
    PROVE  IInv'
<1> USE BudgetAssumption, RetryAssumption, FirstAssumption
        DEF TypeOK, Running, Ended, Modes, Errors, NoError, Attempt
<1>1. CASE mode = "native" /\ err.rejection
  <2>1. FallBack(err)
    BY <1>1 DEF Raise
  <2>2. err.attempt = first + Len(requests) - 1 /\ Len(requests) \in Nat \ {0}
    BY <1>1 DEF Current, IInv
  <2>3. TypeOK' /\ TimeInv'
    BY <2>1, <2>2 DEF IInv, FallBack, TimeInv
  <2>4. CountInv'
    BY <1>1, <2>1, <2>2 DEF IInv, FallBack, CountInv, SentHere
  <2>5. ErrorInv' /\ ModeInv'
    BY <1>1, <2>1 DEF IInv, FallBack, ErrorInv, ModeInv
  <2>6. AttemptsConsecutive' /\ NativeBeforeFallback' /\ RejectionFallsBack' /\ ErrorNamesAttempt'
    BY <2>1 DEF IInv, FallBack, AttemptsConsecutive, NativeBeforeFallback,
                RejectionFallsBack, ErrorNamesAttempt
  <2> QED
    BY <2>3, <2>4, <2>5, <2>6 DEF IInv
<1>2. CASE ~(mode = "native" /\ err.rejection)
  <2>1. Fail(err)
    BY <1>2 DEF Raise
  <2>2. Len(requests) \in Nat \ {0}
    BY DEF IInv
  <2>3. TypeOK' /\ TimeInv'
    BY <2>1 DEF IInv, Fail, TimeInv
  <2>4. CountInv'
    BY <2>1 DEF IInv, Fail, CountInv, SentHere
  <2>5. ErrorInv' /\ ModeInv'
    BY <2>1 DEF IInv, Fail, ErrorInv, ModeInv
  <2>6. AttemptsConsecutive' /\ NativeBeforeFallback' /\ RejectionFallsBack' /\ ErrorNamesAttempt'
    BY <1>2, <2>1, <2>2 DEF IInv, Fail, AttemptsConsecutive, NativeBeforeFallback,
                RejectionFallsBack, ErrorNamesAttempt, Current
  <2> QED
    BY <2>3, <2>4, <2>5, <2>6 DEF IInv
<1> QED
  BY <1>1, <1>2

\* The retry branch keeps the invariant: it sleeps or raises.
LEMMA RetryKeepsIInv ==
    ASSUME IInv, pc = "inflight", NEW err \in Errors, err.attempt = Attempt,
           RetryOrRaise(err), UNCHANGED <<now, requests, recorded, first>>
    PROVE  IInv'
<1> USE BudgetAssumption, RetryAssumption, FirstAssumption
        DEF TypeOK, Running, Ended, Modes, Errors, NoError, Attempt
<1>1. err.attempt = first + Len(requests) - 1 /\ Len(requests) \in Nat /\ requests # <<>>
  BY DEF IInv, CountInv, SentHere
<1>2. CASE CanRetry
  <2>1. Nominal(offset) \in Nat
    BY BackoffAssumption DEF IInv
  <2>2. timer' \in Nat /\ timer' <= deadline
    BY <1>2, <2>1 DEF IInv, RetryOrRaise, CanRetry, Remaining
  <2>3. TypeOK' /\ TimeInv'
    BY <1>2, <2>2 DEF IInv, RetryOrRaise, TimeInv
  <2>4. CountInv' /\ ErrorInv' /\ ModeInv'
    BY <1>2 DEF IInv, RetryOrRaise, CanRetry, CountInv, SentHere, ErrorInv, ModeInv
  <2>5. AttemptsConsecutive' /\ NativeBeforeFallback' /\ RejectionFallsBack' /\ ErrorNamesAttempt'
    BY <1>2 DEF IInv, RetryOrRaise, AttemptsConsecutive, NativeBeforeFallback,
                RejectionFallsBack, ErrorNamesAttempt
  <2> QED
    BY <2>3, <2>4, <2>5 DEF IInv
<1>3. CASE ~CanRetry
  <2>1. Raise(err) /\ timer' \in Nat
    BY <1>3 DEF RetryOrRaise, IInv
  <2> QED
    BY <1>1, <2>1, RaiseKeepsIInv DEF Current
<1> QED
  BY <1>2, <1>3

-------------------------------------------------------------------------------

LEMMA InitIInv == Init => IInv
BY BudgetAssumption, RetryAssumption, FirstAssumption
   DEF Init, IInv, TypeOK, TimeInv, CountInv, SentHere, ErrorInv, ModeInv, Running, Ended,
       Modes, Errors, NoError, Attempt, AttemptsConsecutive, NativeBeforeFallback,
       RejectionFallsBack, ErrorNamesAttempt

\* Every step of the call keeps the invariant.
LEMMA NextIInv == IInv /\ [Next]_vars => IInv'
<1> SUFFICES ASSUME IInv, [Next]_vars PROVE IInv'
  OBVIOUS
<1> USE BudgetAssumption, RetryAssumption, FirstAssumption
        DEF TypeOK, Running, Ended, Modes, Errors, NoError, Attempt
<1>1. CASE OutOfBudget
  <2> DEFINE err == IF lastError # NoError THEN lastError
                    ELSE [attempt |-> Attempt, rejection |-> FALSE]
  <2>1. pc = "check" /\ Remaining <= 0 /\ Raise(err)
    BY <1>1 DEF OutOfBudget
  <2>2. requests # <<>> /\ Len(requests) \in Nat
    <3>1. start + offset = first + Len(requests) /\ Len(requests) \in Nat
      BY <2>1 DEF IInv, CountInv, SentHere
    <3>2. CASE mode = "fallback"
      BY <3>2 DEF IInv, ModeInv
    <3>3. CASE mode = "native"
      BY <2>1, <3>1, <3>3 DEF IInv, CountInv, TimeInv, Remaining
    <3> QED
      BY <3>2, <3>3 DEF IInv
  <2>3. err \in Errors /\ Current(err)
    BY <2>1, <2>2 DEF IInv, CountInv, SentHere, ErrorInv, Current
  <2>4. UNCHANGED <<now, timer, requests, recorded, first>>
    BY <1>1 DEF OutOfBudget
  <2> HIDE DEF err
  <2> QED
    BY <2>1, <2>2, <2>3, <2>4, RaiseKeepsIInv DEF IInv
<1>2. CASE StartAttempt
  <2> DEFINE req == [mode |-> mode, attempt |-> Attempt]
  <2>1. /\ pc = "check" /\ pc' = "inflight" /\ requests' = Append(requests, req)
        /\ Remaining > 0
        /\ UNCHANGED <<now, deadline, mode, start, offset, lastError, error, recorded, first>>
    BY <1>2 DEF StartAttempt
  <2>2. timer' \in Nat /\ timer' <= deadline
    BY <1>2 DEF StartAttempt, IInv, Remaining
  <2>3. /\ Len(requests) \in Nat
        /\ Len(requests') = Len(requests) + 1
        /\ requests'[Len(requests) + 1] = req
        /\ \A i \in 1..Len(requests) : requests'[i] = requests[i]
        /\ requests' \in Seq([mode : Modes, attempt : Nat])
    BY <2>1 DEF IInv
  <2>4. start + offset = first + Len(requests)
    BY <2>1 DEF IInv, CountInv, SentHere
  <2>5. TypeOK' /\ TimeInv' /\ CountInv' /\ ErrorInv'
    <3>1. TypeOK'
      BY <2>1, <2>2, <2>3 DEF IInv
    <3>2. TimeInv'
      BY <2>1, <2>2, <2>3 DEF IInv, TimeInv
    <3>3. CountInv'
      <4>1. /\ mode = "native" => start = first
            /\ mode = "fallback" => start > first /\ start <= first + MaxRetries + 1
            /\ start \in Nat /\ first \in Nat /\ offset \in Nat
        BY DEF IInv, CountInv
      <4>2. /\ pc' = "inflight" /\ mode' = mode /\ start' = start
            /\ offset' = offset /\ first' = first
            /\ SentHere' = offset + 1
        BY <2>1 DEF SentHere
      <4>3. start' + SentHere' = first' + Len(requests')
        <5>1. Len(requests') = Len(requests) + 1 /\ Len(requests) \in Nat
          BY <2>3
        <5> QED
          BY <2>4, <4>1, <4>2, <5>1
      <4> QED
        BY <4>1, <4>2, <4>3 DEF CountInv
    <3>4. ErrorInv'
      BY <2>1 DEF IInv, ErrorInv
    <3> QED
      BY <3>1, <3>2, <3>3, <3>4
  <2>6. AttemptsConsecutive'
    <3> SUFFICES ASSUME NEW i \in 1..Len(requests) + 1
                 PROVE  requests'[i].attempt = first + i - 1
      BY <2>1, <2>3 DEF AttemptsConsecutive
    <3>1. CASE i = Len(requests) + 1
      BY <2>3, <2>4, <3>1 DEF IInv
    <3>2. CASE i \in 1..Len(requests)
      BY <2>3, <3>2 DEF IInv, AttemptsConsecutive
    <3> QED
      BY <2>3, <3>1, <3>2
  <2>7. ModeInv' /\ NativeBeforeFallback'
    <3>1. CASE mode = "native"
      BY <2>1, <2>3, <3>1 DEF IInv, ModeInv, NativeBeforeFallback
    <3>2. CASE mode = "fallback"
      <4>1. Len(requests) \in Nat \ {0} /\ Len(requests') = Len(requests) + 1
        BY <2>3, <3>2 DEF IInv, ModeInv
      <4>2. ModeInv' /\ requests'[1].mode = "native"
        BY <2>1, <2>3, <3>2, <4>1 DEF IInv, ModeInv, NativeBeforeFallback
      <4>3. ASSUME NEW i \in 1..Len(requests'), NEW j \in 1..Len(requests'),
                   requests'[i].mode = "fallback", requests'[j].mode = "native"
            PROVE  j < i
        <5>1. j \in 1..Len(requests)
          BY <2>3, <3>2, <4>1, <4>3
        <5>2. CASE i \in 1..Len(requests)
          BY <2>3, <4>3, <5>1, <5>2 DEF IInv, NativeBeforeFallback
        <5>3. CASE i = Len(requests) + 1
          BY <4>1, <5>1, <5>3
        <5> QED
          BY <4>1, <5>2, <5>3
      <4> QED
        BY <4>2, <4>3 DEF NativeBeforeFallback
    <3> QED
      BY <3>1, <3>2 DEF IInv
  <2>8. RejectionFallsBack' /\ ErrorNamesAttempt'
    BY <2>1 DEF RejectionFallsBack, ErrorNamesAttempt
  <2> QED
    BY <2>5, <2>6, <2>7, <2>8 DEF IInv
<1>3. ASSUME pc = "inflight", NEW rejection \in BOOLEAN,
             \/ RetryOrRaise([attempt |-> Attempt, rejection |-> rejection])
             \/ /\ Raise([attempt |-> Attempt, rejection |-> rejection])
                /\ UNCHANGED timer,
             UNCHANGED <<now, requests, recorded, first>>
      PROVE  IInv'
  <2> DEFINE err == [attempt |-> Attempt, rejection |-> rejection]
  <2>1. err \in Errors /\ err.attempt = Attempt
    BY DEF IInv
  <2>2. Attempt = first + Len(requests) - 1 /\ requests # <<>>
    BY <1>3 DEF IInv, CountInv, SentHere
  <2> HIDE DEF err
  <2>3. CASE RetryOrRaise(err)
    BY <1>3, <2>1, <2>3, RetryKeepsIInv
  <2>4. CASE Raise(err) /\ UNCHANGED timer
    BY <1>3, <2>1, <2>2, <2>4, RaiseKeepsIInv DEF Current, IInv
  <2> QED
    BY <1>3, <2>3, <2>4 DEF err
<1>4. CASE RetryableStatus \/ NetworkError \/ AttemptTimeout
  BY <1>3, <1>4 DEF RetryableStatus, NetworkError, AttemptTimeout
<1>5. CASE FinalStatus \/ BadStream
  BY <1>3, <1>5 DEF FinalStatus, BadStream
<1>6. CASE Succeed \/ Cancel
  <2>1. /\ pc \in {"inflight", "backoff"} /\ pc' \in {"returned", "cancelled"}
        /\ recorded' \in Nat
        /\ UNCHANGED <<now, deadline, mode, start, offset, lastError, timer, error,
                       requests, first>>
    BY <1>6 DEF Succeed, Cancel, IInv
  <2>2. TypeOK' /\ TimeInv' /\ CountInv'
    BY <2>1 DEF IInv, TimeInv, CountInv, SentHere
  <2>3. ErrorInv' /\ ModeInv' /\ AttemptsConsecutive' /\ NativeBeforeFallback'
    BY <2>1 DEF IInv, ErrorInv, ModeInv, AttemptsConsecutive, NativeBeforeFallback
  <2>4. RejectionFallsBack' /\ ErrorNamesAttempt'
    BY <2>1 DEF RejectionFallsBack, ErrorNamesAttempt
  <2> QED
    BY <2>2, <2>3, <2>4 DEF IInv
<1>7. CASE WakeUp
  <2>1. offset + 1 \in 0..MaxRetries
    BY <1>7 DEF WakeUp, IInv, CountInv
  <2> QED
    BY <1>7, <2>1 DEF WakeUp, IInv, TimeInv, CountInv, SentHere, ErrorInv, ModeInv,
              AttemptsConsecutive, NativeBeforeFallback, RejectionFallsBack, ErrorNamesAttempt
<1>8. CASE Tick
  BY <1>8 DEF Tick, IInv, TimeInv, CountInv, SentHere, ErrorInv, ModeInv,
              AttemptsConsecutive, NativeBeforeFallback, RejectionFallsBack, ErrorNamesAttempt
<1>9. CASE UNCHANGED vars
  BY <1>9 DEF vars, IInv, TimeInv, CountInv, SentHere, ErrorInv, ModeInv,
              AttemptsConsecutive, NativeBeforeFallback, RejectionFallsBack, ErrorNamesAttempt
<1> QED
  BY <1>1, <1>2, <1>4, <1>5, <1>6, <1>7, <1>8, <1>9 DEF Next, Step

\* The invariant of every behaviour, fair or not.
LEMMA SpecIInv == Safe => []IInv
<1> QED
  BY InitIInv, NextIInv, PTL DEF Safe

-------------------------------------------------------------------------------

\* Every variable keeps the type the code gives it.
THEOREM TypeCorrect == Safe => []TypeOK
BY SpecIInv, PTL DEF IInv

\* The shared budget bounds the whole call: attempts, backoffs and fallback.
THEOREM BudgetHolds == Safe => []EndsWithinBudget
<1>1. IInv => EndsWithinBudget
  BY DEF IInv, TimeInv, EndsWithinBudget
<1> QED
  BY <1>1, SpecIInv, PTL

\* Attempt numbers have no gap and no repetition, across both posts.
THEOREM AttemptsAreConsecutive == Safe => []AttemptsConsecutive
BY SpecIInv, PTL DEF IInv

LEMMA IInvBounds == IInv => RequestsBounded
<1> SUFFICES ASSUME IInv PROVE RequestsBounded
  OBVIOUS
<1>1. /\ start \in Nat /\ first \in Nat /\ Len(requests) \in Nat
      /\ offset \in 0..MaxRetries /\ MaxRetries \in Nat
  BY RetryAssumption DEF IInv, TypeOK
<1>2. start <= first + MaxRetries + 1
  BY <1>1 DEF IInv, TypeOK, Modes, CountInv
<1>3. first + Len(requests) <= start + offset + 1
  BY <1>1 DEF IInv, TypeOK, CountInv, SentHere, Running, Ended
<1> QED
  BY <1>1, <1>2, <1>3 DEF RequestsBounded

\* A call sends at most MaxRetries + 1 requests in each of its two modes.
THEOREM RequestsAreBounded == Safe => []RequestsBounded
BY IInvBounds, SpecIInv, PTL

\* Native requests precede fallback requests.
THEOREM NativeComesFirst == Safe => []NativeBeforeFallback
BY SpecIInv, PTL DEF IInv

\* The requests of a call are consecutive attempts, native ones first.
THEOREM RequestsAlwaysInOrder == Safe => []RequestsInOrder
BY AttemptsAreConsecutive, NativeComesFirst, PTL DEF RequestsInOrder

\* No call fails with a rejection before it has tried the fallback.
THEOREM RejectionsFallBack == Safe => []RejectionFallsBack
BY SpecIInv, PTL DEF IInv

\* The error a caller sees names the last request, or the one ruled out.
THEOREM ErrorsNameAttempts == Safe => []ErrorNamesAttempt
BY SpecIInv, PTL DEF IInv

-------------------------------------------------------------------------------
(* Refinement: the call keeps the safety part of Completion's promise.      *)

LEMMA StepRefines == IInv /\ RequestsBounded' /\ [Next]_vars => [C!Next]_(C!vars)
<1> SUFFICES ASSUME IInv, RequestsBounded', [Next]_vars PROVE [C!Next]_(C!vars)
  OBVIOUS
<1> USE DEF C!vars, C!Next, C!Send, C!Return, C!GiveUp, Ended
<1>1. ASSUME pc \notin Ended, UNCHANGED <<requests, recorded>>,
             pc' \notin Ended \/ pc' \in {"failed", "cancelled"}
      PROVE  [C!Next]_(C!vars)
  BY <1>1
<1>2. ASSUME NEW err, Raise(err)
      PROVE  pc' \notin Ended \/ pc' \in {"failed", "cancelled"}
  BY <1>2 DEF Raise, FallBack, Fail
<1>3. ASSUME NEW err, RetryOrRaise(err)
      PROVE  pc' \notin Ended \/ pc' \in {"failed", "cancelled"}
  BY <1>2, <1>3 DEF RetryOrRaise
<1>4. CASE StartAttempt
  <2>1. Len(requests) \in Nat /\ Len(requests') = Len(requests) + 1
    BY <1>4 DEF StartAttempt, IInv, TypeOK, Modes, Attempt
  <2>2. Len(requests') <= 2 * (MaxRetries + 1)
    BY RetryAssumption DEF RequestsBounded
  <2> QED
    BY <1>4, <2>1, <2>2, RetryAssumption DEF StartAttempt
<1>5. CASE Succeed
  <2>1. Len(requests) > 0
    BY <1>5 DEF Succeed, IInv, TypeOK, TimeInv
  <2> QED
    BY <1>5, <2>1 DEF Succeed
<1>6. CASE OutOfBudget \/ RetryableStatus \/ NetworkError \/ AttemptTimeout
           \/ FinalStatus \/ BadStream
  BY <1>1, <1>2, <1>3, <1>6 DEF OutOfBudget, RetryableStatus, NetworkError,
     AttemptTimeout, FinalStatus, BadStream
<1>7. CASE WakeUp \/ Cancel \/ Tick \/ UNCHANGED vars
  BY <1>7 DEF WakeUp, Cancel, Tick, vars
<1> QED
  BY <1>4, <1>5, <1>6, <1>7 DEF Next, Step

\* Whatever it does about deadlines, retries and the fallback, a call sends
\* boundedly many requests, ends once, and records usage just on returning.
THEOREM Implements == Safe => C!Safe
<1>1. Init => C!Init
  BY DEF Init, C!Init, Ended
<1>2. IInv /\ RequestsBounded' /\ [Next]_vars => [C!Next]_(C!vars)
  BY StepRefines
<1> QED
  BY <1>1, <1>2, SpecIInv, RequestsAreBounded, PTL DEF Safe, C!Safe
===============================================================================
