--------------------------- MODULE OpenRouterClient ---------------------------
(***************************************************************************)
(* One call of OpenRouterClient.complete(): attempts against a provider    *)
(* under a deadline shared by all of them, retries with jittered backoff,  *)
(* and one switch from native structured output to the fallback payload    *)
(* when the provider's error reads like a schema rejection.                *)
(*                                                                         *)
(* Time is an integer clock that starts at 0 with the call.  The event     *)
(* loop may run a due timer up to Lag ticks late; code between two awaits  *)
(* takes no time.  The provider answers whenever, and with whatever, it    *)
(* likes.  A request only reads shared objects, so one call is modelled.   *)
(***************************************************************************)
EXTENDS Integers, Sequences

CONSTANTS
    TotalBudget,     \* request_total_timeout_seconds
    AttemptCap,      \* request_attempt_timeout_seconds
    MaxRetries,      \* max_retries
    BackoffBase,     \* backoff_seconds
    Lag,             \* how late the event loop may serve a timer
    FirstAttempts    \* the values of request.attempt

ASSUME BudgetAssumption == TotalBudget \in Nat \ {0} /\ AttemptCap \in Nat \ {0}
ASSUME RetryAssumption == MaxRetries \in Nat /\ Lag \in Nat
ASSUME FirstAssumption == FirstAttempts \subseteq Nat \ {0}

Nominal(offset) == BackoffBase * 2^offset

ASSUME BackoffAssumption == \A offset \in 0..MaxRetries : Nominal(offset) \in Nat

VARIABLES
    now,         \* time.monotonic(), 0 when complete() is entered
    deadline,    \* the deadline complete() computes
    pc,          \* where the call is: see Running and Ended
    mode,        \* structured_mode of the current _post_payload
    start,       \* start_attempt of the current _post_payload
    offset,      \* retry_offset
    lastError,   \* last_error, or NoError
    timer,       \* when the current attempt times out or the backoff ends
    error,       \* the error the call raised, or NoError
    requests,    \* the model.request events of the call, oldest first
    recorded,    \* usage records added to the tracker
    first        \* max(1, request.attempt)

vars == <<now, deadline, pc, mode, start, offset, lastError, timer, error,
          requests, recorded, first>>

Running == {"check", "inflight", "backoff"}
Ended   == {"returned", "failed", "cancelled"}
Modes   == {"native", "fallback"}

\* An UpstreamError: its attempt, and whether _is_native_schema_rejection
\* finds one of its markers in the message.
Errors  == [attempt : Nat, rejection : BOOLEAN]
NoError == [attempt |-> 0, rejection |-> FALSE]   \* None: attempts start at 1

Remaining == deadline - now
Attempt   == start + offset     \* attempt_number

TypeOK ==
    /\ now \in Nat /\ deadline \in Nat /\ timer \in Nat
    /\ pc \in Running \union Ended
    /\ mode \in Modes
    /\ start \in Nat \ {0} /\ first \in Nat \ {0}
    /\ offset \in 0..MaxRetries
    /\ lastError \in Errors /\ error \in Errors
    /\ requests \in Seq([mode : Modes, attempt : Nat])
    /\ recorded \in Nat

Init ==
    /\ now = 0
    /\ deadline = now + TotalBudget
    /\ pc = "check"
    /\ mode = "native"
    /\ first \in FirstAttempts
    /\ start = first
    /\ offset = 0
    /\ lastError = NoError
    /\ timer = 0
    /\ error = NoError
    /\ requests = <<>>
    /\ recorded = 0

-------------------------------------------------------------------------------
(* Errors leaving _post_payload.                                            *)

\* Faulty: the fallback gets a budget of its own.
FallBackFreshBudget(err) ==
    /\ pc' = "check"
    /\ mode' = "fallback"
    /\ start' = err.attempt + 1
    /\ offset' = 0
    /\ lastError' = NoError
    /\ deadline' = now + TotalBudget
    /\ UNCHANGED error

\* Faulty: the fallback reuses the number of the rejected attempt.
FallBackSameAttempt(err) ==
    /\ pc' = "check"
    /\ mode' = "fallback"
    /\ start' = err.attempt
    /\ offset' = 0
    /\ lastError' = NoError
    /\ UNCHANGED <<deadline, error>>

\* complete() catches the error of the native post: a rejection starts the
\* fallback post, with a new retry loop but the same deadline.
FallBack(err) ==
    /\ pc' = "check"
    /\ mode' = "fallback"
    /\ start' = err.attempt + 1
    /\ offset' = 0
    /\ lastError' = NoError
    /\ UNCHANGED <<deadline, error>>

\* Faulty: the error of the previous attempt is raised.
FailWithLastError(err) ==
    /\ pc' = "failed"
    /\ error' = lastError
    /\ UNCHANGED <<deadline, mode, start, offset, lastError>>

Fail(err) ==
    /\ pc' = "failed"
    /\ error' = err
    /\ UNCHANGED <<deadline, mode, start, offset, lastError>>

\* Faulty: only the first attempt's error is looked at.
RaiseFirstAttemptOnly(err) ==
    IF mode = "native" /\ err.rejection /\ offset = 0 THEN FallBack(err) ELSE Fail(err)

Raise(err) ==
    IF mode = "native" /\ err.rejection THEN FallBack(err) ELSE Fail(err)

\* Faulty: one retry too many.
CanRetryOnceMore == offset <= MaxRetries /\ Nominal(offset) < Remaining

\* The retry branch of _post_payload: sleep for at most the nominal backoff
\* when a retry is left and the nominal backoff fits, else raise.
CanRetry == offset < MaxRetries /\ Nominal(offset) < Remaining

RetryOrRaise(err) ==
    IF CanRetry
    THEN /\ pc' = "backoff"
         /\ lastError' = err
         /\ timer' \in now..(now + Nominal(offset))
         /\ UNCHANGED <<deadline, mode, start, offset, error>>
    ELSE Raise(err) /\ UNCHANGED timer

-------------------------------------------------------------------------------
(* The loop of _post_payload.                                               *)

\* The budget is spent before an attempt starts.
OutOfBudget ==
    /\ pc = "check"
    /\ Remaining <= 0
    /\ Raise(IF lastError # NoError THEN lastError
             ELSE [attempt |-> Attempt, rejection |-> FALSE])
    /\ UNCHANGED <<now, timer, requests, recorded, first>>

StartAttempt ==
    /\ pc = "check"
    /\ Remaining > 0
    /\ pc' = "inflight"
    /\ timer' = now + (IF AttemptCap < Remaining THEN AttemptCap ELSE Remaining)
    /\ requests' = Append(requests, [mode |-> mode, attempt |-> Attempt])
    /\ UNCHANGED <<now, deadline, mode, start, offset, lastError, error, recorded, first>>

\* Faulty: usage is recorded for native results only.
SucceedNativeRecorded ==
    /\ pc = "inflight"
    /\ pc' = "returned"
    /\ recorded' = IF mode = "native" THEN recorded + 1 ELSE recorded
    /\ UNCHANGED <<now, deadline, mode, start, offset, lastError, timer, error,
                   requests, first>>

\* The stream was assembled and its usage parsed; _record_usage and return.
Succeed ==
    /\ pc = "inflight"
    /\ pc' = "returned"
    /\ recorded' = recorded + 1
    /\ UNCHANGED <<now, deadline, mode, start, offset, lastError, timer, error,
                   requests, first>>

\* A status in RETRYABLE_STATUS_CODES; its message is the provider's.
RetryableStatus ==
    /\ pc = "inflight"
    /\ \E rejection \in BOOLEAN :
           RetryOrRaise([attempt |-> Attempt, rejection |-> rejection])
    /\ UNCHANGED <<now, requests, recorded, first>>

\* httpx.RequestError: connection refused, reset, or the stream stalled.
NetworkError ==
    /\ pc = "inflight"
    /\ RetryOrRaise([attempt |-> Attempt, rejection |-> FALSE])
    /\ UNCHANGED <<now, requests, recorded, first>>

\* Faulty: the last attempt is awaited without a timeout.
AttemptTimeoutExceptLast ==
    /\ pc = "inflight"
    /\ now >= timer
    /\ offset < MaxRetries
    /\ RetryOrRaise([attempt |-> Attempt, rejection |-> FALSE])
    /\ UNCHANGED <<now, requests, recorded, first>>

\* asyncio.wait_for gives up on the attempt.
AttemptTimeout ==
    /\ pc = "inflight"
    /\ now >= timer
    /\ RetryOrRaise([attempt |-> Attempt, rejection |-> FALSE])
    /\ UNCHANGED <<now, requests, recorded, first>>

\* Any other status of 400 or above: never retried.
FinalStatus ==
    /\ pc = "inflight"
    /\ \E rejection \in BOOLEAN :
           Raise([attempt |-> Attempt, rejection |-> rejection])
    /\ UNCHANGED <<now, timer, requests, recorded, first>>

\* A choice error in the stream or a malformed usage cost: fixed messages
\* without a rejection marker, never retried.
BadStream ==
    /\ pc = "inflight"
    /\ Raise([attempt |-> Attempt, rejection |-> FALSE])
    /\ UNCHANGED <<now, timer, requests, recorded, first>>

WakeUp ==
    /\ pc = "backoff"
    /\ now >= timer
    /\ pc' = "check"
    /\ offset' = offset + 1
    /\ UNCHANGED <<now, deadline, mode, start, lastError, timer, error, requests,
                   recorded, first>>

\* CancelledError is delivered at an await and nothing here catches it.
Cancel ==
    /\ pc \in {"inflight", "backoff"}
    /\ pc' = "cancelled"
    /\ UNCHANGED <<now, deadline, mode, start, offset, lastError, timer, error,
                   requests, recorded, first>>

\* Time passes only while the call awaits, and no timer is served later
\* than Lag ticks after it is due.
Tick ==
    /\ pc \in {"inflight", "backoff"}
    /\ now < timer + Lag
    /\ now' = now + 1
    /\ UNCHANGED <<deadline, pc, mode, start, offset, lastError, timer, error,
                   requests, recorded, first>>

-------------------------------------------------------------------------------

Step ==
    \/ OutOfBudget
    \/ StartAttempt
    \/ AttemptTimeout
    \/ WakeUp

Next ==
    \/ Step
    \/ Succeed
    \/ RetryableStatus
    \/ NetworkError
    \/ FinalStatus
    \/ BadStream
    \/ Cancel
    \/ Tick

Safe == Init /\ [][Next]_vars

\* The event loop runs ready code and due timers, and the clock advances.
\* Nothing is assumed of the provider.
Spec == Safe /\ WF_vars(Step) /\ WF_vars(Tick)

-------------------------------------------------------------------------------
(* Properties.                                                              *)

\* All attempts, backoffs and the fallback of a call share one budget: the
\* call is over no later than one late timer after TotalBudget.
EndsWithinBudget == now <= TotalBudget + Lag

\* Attempt numbers, which logs and the validation retry rely on, count the
\* requests of the call without gap or repetition, across retries and the
\* switch to the fallback.
AttemptsConsecutive ==
    \A i \in 1..Len(requests) : requests[i].attempt = first + i - 1

\* Each of the two posts sends at most MaxRetries + 1 requests.
RequestsBounded == Len(requests) <= 2 * (MaxRetries + 1)

\* Native requests come first: once the call has fallen back it never sends
\* native structured output again, and it falls back only after a request.
NativeBeforeFallback ==
    /\ \A i, j \in 1..Len(requests) :
           requests[i].mode = "fallback" /\ requests[j].mode = "native" => j < i
    /\ requests # <<>> => requests[1].mode = "native"

\* So the events of a call tell one story: consecutive attempts, of which the
\* native ones come first.
RequestsInOrder == AttemptsConsecutive /\ NativeBeforeFallback

\* A call that ends with an error the provider phrased as a schema rejection
\* has given the fallback payload its chance.
RejectionFallsBack ==
    pc = "failed" /\ error.rejection => mode = "fallback"

\* The error a caller sees names a request of this call, or the one the
\* exhausted budget did not let it send.
ErrorNamesAttempt ==
    pc = "failed" => error.attempt \in first + Len(requests) - 1 .. first + Len(requests)

\* Every call ends, even when the provider never answers.
Terminates == <>(pc \in Ended)

\* The call keeps the promise of Completion.
C == INSTANCE Completion WITH
         MaxRequests <- 2 * (MaxRetries + 1),
         status      <- IF pc \in Ended THEN pc ELSE "running",
         sent        <- Len(requests)

ImplementsCompletion == C!Spec
===============================================================================
