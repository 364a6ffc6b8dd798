----------------------------- MODULE ChunkedParse -----------------------------
(***************************************************************************)
(* The model calls of one parse request: DocumentParsingService from the   *)
(* chunk plan to the response.  Without a plan the request's own task      *)
(* makes one validated completion.  With one, a task per chunk runs under  *)
(* a semaphore, the request's task gathers them, asks for the summary and  *)
(* merges the rows.  Each call of complete() in flight is a running        *)
(* Completion: it ends, with a result whose usage was recorded or with an  *)
(* error.  Chunks are numbered from 1, and 0 is the request's own task.    *)
(***************************************************************************)
EXTENDS Integers, Sequences, FiniteSets, Functions, SequencesExt

CONSTANTS
    Plans,         \* row ranges per chunk, as ChunkPlanning cuts them; <<>>: no plan
    Rows,          \* what a row of the table may say
    Answers,       \* the row sequences a model may return for a chunk
    Concurrency    \* chunk_max_concurrency

ASSUME PlansAssumption == Plans \subseteq Seq([start : Nat, end : Nat])
ASSUME AnswersAssumption == Answers \subseteq Seq(Rows)
ASSUME ConcurrencyAssumption == Concurrency \in Nat \ {0}

VARIABLES
    plan,           \* the ranges of plan.chunks
    hasSummary,     \* plan.summary_schema is not None
    allowPartial,   \* chunk_allow_partial
    pc,             \* the request's own task
    task,           \* what each task is doing
    try,            \* the pass of _run_chunk's loop each chunk is in
    rows,           \* the rows of each finished chunk
    permits,        \* the semaphore's value
    queue,          \* the semaphore's waiters that nobody woke or cancelled, oldest first
    cancelling,     \* the supervisor has cancelled the request's task
    calls,          \* calls of complete() each task has made
    recorded,       \* usage records those calls have added to the tracker
    response        \* what ParsedDocument tells the caller

inputs == <<plan, hasSummary, allowPartial>>
vars == <<inputs, pc, task, try, rows, permits, queue, cancelling, calls,
          recorded, response>>

Chunks == 1..Len(plan)
Tasks  == {0} \union Chunks

Idle    == {"ready", "waiting"}              \* created, and in the semaphore's queue
Calling == {"first", "second"}               \* a completion, its validation retry
Holding == Calling \union {"granted"}        \* tasks with a permit
Settled == {"done", "failed", "cancelled"}
Ended   == {"returned", "failed", "cancelled"}

NoResponse == [rows |-> <<>>, failed |-> {}, tokens |-> 0]

TypeOK ==
    /\ plan \in Plans /\ hasSummary \in BOOLEAN /\ allowPartial \in BOOLEAN
    /\ pc \in {"begin", "gather", "own", "assemble"} \union Ended
    /\ task \in [Tasks -> {"new"} \union Idle \union Holding \union Settled]
    /\ try \in [Tasks -> {1, 2}]
    /\ rows \in [Tasks -> Answers \union {<<>>}]
    /\ permits \in 0..Concurrency
    /\ queue \in Seq(Chunks)
    /\ cancelling \in BOOLEAN
    /\ calls \in [Tasks -> Nat] /\ recorded \in [Tasks -> Nat]

Init ==
    /\ plan \in Plans /\ hasSummary \in BOOLEAN /\ allowPartial \in BOOLEAN
    /\ pc = "begin"
    /\ task = [t \in Tasks |-> "new"]
    /\ try = [t \in Tasks |-> 1]
    /\ rows = [t \in Tasks |-> <<>>]
    /\ permits = Concurrency
    /\ queue = <<>>
    /\ cancelling = FALSE
    /\ calls = [t \in Tasks |-> 0]
    /\ recorded = [t \in Tasks |-> 0]
    /\ response = NoResponse

-------------------------------------------------------------------------------
(* The semaphore, as asyncio implements it: a release hands the permit to   *)
(* the oldest waiter, which runs later; cancelled waiters are passed over.  *)

\* Faulty: the permit returns to the counter and no waiter is woken.
ReleaseNoWakeUp(i, s) ==
    /\ task' = [task EXCEPT ![i] = s]
    /\ permits' = permits + 1
    /\ UNCHANGED queue

\* Faulty: a failing task keeps its permit.
ReleaseOnSuccessOnly(i, s) ==
    /\ task' = [task EXCEPT ![i] = s]
    /\ permits' = IF s = "done" THEN permits + 1 ELSE permits
    /\ UNCHANGED queue

\* Faulty: the newest waiter is served first.
ReleaseToNewest(i, s) ==
    IF queue # <<>>
    THEN /\ task' = [task EXCEPT ![i] = s, ![Last(queue)] = "granted"]
         /\ queue' = Front(queue)
         /\ UNCHANGED permits
    ELSE /\ task' = [task EXCEPT ![i] = s]
         /\ permits' = permits + 1
         /\ UNCHANGED queue

\* Task i gives its permit back while moving to state s.
Release(i, s) ==
    IF queue # <<>>
    THEN /\ task' = [task EXCEPT ![i] = s, ![Head(queue)] = "granted"]
         /\ queue' = Tail(queue)
         /\ UNCHANGED permits
    ELSE /\ task' = [task EXCEPT ![i] = s]
         /\ permits' = permits + 1
         /\ UNCHANGED queue

\* Faulty: the request's own task releases a permit it never took.
LeaveReleasing(t, s) == Release(t, s)

\* The request's own task holds no permit.
Leave(t, s) ==
    IF t = 0 THEN task' = [task EXCEPT ![t] = s] /\ UNCHANGED <<permits, queue>>
             ELSE Release(t, s)

Call(t, s) ==
    /\ task' = [task EXCEPT ![t] = s]
    /\ calls' = [calls EXCEPT ![t] = @ + 1]

-------------------------------------------------------------------------------
(* The request's own task.                                                  *)

\* No plan: one completion over the whole document.
BeginSingle ==
    /\ pc = "begin" /\ plan = <<>>
    /\ pc' = "own"
    /\ Call(0, "first")
    /\ UNCHANGED <<inputs, try, rows, permits, queue, cancelling, recorded, response>>

\* gather() creates the chunk tasks, for the event loop to run.
BeginChunks ==
    /\ pc = "begin" /\ plan # <<>>
    /\ pc' = "gather"
    /\ task' = [t \in Tasks |-> IF t = 0 THEN "new" ELSE "ready"]
    /\ UNCHANGED <<inputs, try, rows, permits, queue, cancelling, calls, recorded, response>>

\* The number of chunks that find a permit free.
First == IF Len(plan) < Concurrency THEN Len(plan) ELSE Concurrency

\* It runs them back to back, each up to its first await: the first ones
\* take the permits and call, the others queue.
StartChunks ==
    /\ pc = "gather" /\ ~cancelling
    /\ \A i \in Chunks : task[i] = "ready"
    /\ task' = [t \in Tasks |-> IF t = 0 THEN task[t]
                                ELSE IF t <= First THEN "first" ELSE "waiting"]
    /\ calls' = [t \in Tasks |-> IF t \in 1..First THEN 1 ELSE calls[t]]
    /\ permits' = permits - First
    /\ queue' = [n \in 1 .. Len(plan) - First |-> n + First]
    /\ UNCHANGED <<inputs, pc, try, rows, cancelling, recorded, response>>

\* Faulty: gather() without return_exceptions ends with the first failure.
GatheredAtFailure ==
    /\ pc = "gather" /\ ~cancelling
    /\ \/ \A i \in Chunks : task[i] \in Settled
       \/ \E i \in Chunks : task[i] = "failed"
    /\ IF hasSummary THEN pc' = "own" /\ Call(0, "first")
                     ELSE pc' = "assemble" /\ UNCHANGED <<task, calls>>
    /\ UNCHANGED <<inputs, try, rows, permits, queue, cancelling, recorded, response>>

\* Every chunk has ended: ask for the summary, if there is one, or assemble.
Gathered ==
    /\ pc = "gather" /\ ~cancelling
    /\ \A i \in Chunks : task[i] \in Settled
    /\ IF hasSummary THEN pc' = "own" /\ Call(0, "first")
                     ELSE pc' = "assemble" /\ UNCHANGED <<task, calls>>
    /\ UNCHANGED <<inputs, try, rows, permits, queue, cancelling, recorded, response>>

\* Faulty: the row is dropped wherever the merged rows hold an equal one.
MergeChunkAnyDuplicate(merged, more) ==
    IF more # <<>> /\ \E n \in 1..Len(merged) : merged[n] = Head(more)
    THEN merged \o Tail(more)
    ELSE merged \o more

\* merge_chunk_rows(): a chunk that begins with the row the merged rows end
\* with loses that row.
MergeChunk(merged, more) ==
    IF merged # <<>> /\ more # <<>> /\ Head(more) = Last(merged)
    THEN merged \o Tail(more)
    ELSE merged \o more

Failures == {i \in Chunks : task[i] = "failed"}

Kept(i) == IF i \in Failures THEN <<>> ELSE rows[i]

\* The rows of the chunks that were kept, merged one chunk after the other.
Merged ==
    LET merged[n \in 0..Len(plan)] ==
            IF n = 0 THEN <<>> ELSE MergeChunk(merged[n - 1], Kept(n))
    IN  merged[Len(plan)]

\* _aggregate_usage() over the results that were kept, or the single result:
\* one completion each, whatever retries came before it.
Reported == Cardinality({t \in Tasks : task[t] = "done"})

\* Faulty: only a request without any result is refused.
RefusedWhenAllFail == Failures = Chunks /\ Chunks # {} /\ ~allowPartial

Refused == Failures # {} /\ ~allowPartial

\* Failed chunks are an error unless partial results are allowed; the merged
\* object may still violate the caller's schema.
Assemble ==
    /\ pc = "assemble"
    /\ IF Refused
       THEN pc' = "failed" /\ UNCHANGED response
       ELSE \/ /\ pc' = "returned"
               /\ response' = [rows |-> Merged, failed |-> Failures, tokens |-> Reported]
            \/ /\ plan # <<>>
               /\ pc' = "failed"
               /\ UNCHANGED response
    /\ UNCHANGED <<inputs, task, try, rows, permits, queue, cancelling, calls, recorded>>

-------------------------------------------------------------------------------
(* Completions: _complete_and_validate, for chunks inside _run_chunk's loop.*)

\* Faulty: a task granted a permit does not notice its cancellation.
AcquireRegardless(i) ==
    /\ task[i] = "granted"
    /\ Call(i, "first")
    /\ UNCHANGED <<inputs, pc, try, rows, permits, queue, cancelling, recorded, response>>

\* A granted waiter runs: its permit is its own and it makes its first call.
Acquire(i) ==
    /\ task[i] = "granted" /\ ~cancelling
    /\ Call(i, "first")
    /\ UNCHANGED <<inputs, pc, try, rows, permits, queue, cancelling, recorded, response>>

Record(t) == recorded' = [recorded EXCEPT ![t] = @ + 1]

\* complete() returned content that satisfies the schema.
AnswerValid(t) ==
    /\ task[t] \in Calling /\ ~cancelling
    /\ Record(t)
    /\ IF t = 0 THEN pc' = "assemble" /\ UNCHANGED rows
                ELSE UNCHANGED pc /\ \E r \in Answers : rows' = [rows EXCEPT ![t] = r]
    /\ Leave(t, "done")
    /\ UNCHANGED <<inputs, try, cancelling, calls, response>>

\* Faulty: every pass counts as the first.
RaisedForever(t) ==
    IF t # 0
    THEN Call(t, "first") /\ UNCHANGED <<pc, try, permits, queue>>
    ELSE Leave(t, "failed") /\ pc' = "failed" /\ UNCHANGED <<try, calls>>

\* _complete_and_validate() raised: a chunk gets a second pass, then fails;
\* for the request's own task the request fails.
Raised(t) ==
    IF t # 0 /\ try[t] = 1
    THEN /\ Call(t, "first")
         /\ try' = [try EXCEPT ![t] = 2]
         /\ UNCHANGED <<pc, permits, queue>>
    ELSE /\ Leave(t, "failed")
         /\ pc' = IF t = 0 THEN "failed" ELSE pc
         /\ UNCHANGED <<try, calls>>

\* complete() returned content the schema rejects: retry it once.
AnswerInvalid(t) ==
    /\ task[t] \in Calling /\ ~cancelling
    /\ Record(t)
    /\ IF task[t] = "first"
       THEN Call(t, "second") /\ UNCHANGED <<pc, try, permits, queue>>
       ELSE Raised(t)
    /\ UNCHANGED <<inputs, rows, cancelling, response>>

\* complete() raised UpstreamError.
CallFails(t) ==
    /\ task[t] \in Calling /\ ~cancelling
    /\ Raised(t)
    /\ UNCHANGED <<inputs, rows, cancelling, recorded, response>>

-------------------------------------------------------------------------------
(* Cancellation: of the request's task, which passes it to the gathered     *)
(* chunks and ends when the last of them has.                               *)

\* Every task is told at once, which cancels the future it awaits.
Cancel ==
    /\ pc \in {"gather", "own"} /\ ~cancelling
    /\ cancelling' = TRUE
    /\ queue' = <<>>
    /\ UNCHANGED <<inputs, pc, task, try, rows, permits, calls, recorded, response>>

\* CancelledError leaves a task; a permit it holds is given back.
Unwind(t) ==
    /\ cancelling
    /\ \/ /\ task[t] \in Idle
          /\ task' = [task EXCEPT ![t] = "cancelled"]
          /\ UNCHANGED <<permits, queue>>
       \/ /\ task[t] \in Holding
          /\ Leave(t, "cancelled")
    /\ UNCHANGED <<inputs, pc, try, rows, cancelling, calls, recorded, response>>

Cancelled ==
    /\ cancelling /\ pc \in {"gather", "own"}
    /\ \A t \in Tasks : task[t] \in Settled \union {"new"}
    /\ pc' = "cancelled"
    /\ UNCHANGED <<inputs, task, try, rows, permits, queue, cancelling, calls,
                   recorded, response>>

-------------------------------------------------------------------------------

Progress ==
    \/ BeginSingle
    \/ BeginChunks
    \/ StartChunks
    \/ Gathered
    \/ Assemble
    \/ Cancelled
    \/ \E t \in Tasks : AnswerValid(t) \/ AnswerInvalid(t) \/ CallFails(t) \/ Unwind(t)
    \/ \E i \in Chunks : Acquire(i)

Next == Progress \/ Cancel

Safe == Init /\ [][Next]_vars

\* Calls in flight end (Completion) and the event loop runs ready tasks.
Spec == Safe /\ WF_vars(Progress)

-------------------------------------------------------------------------------
(* Properties.                                                              *)

Chunk(s) == {i \in Chunks : task[i] \in s}

\* Permits are neither lost nor duplicated, by failures, grants to tasks that
\* are cancelled before they run, or cancelled waiters; so no more than
\* Concurrency chunks ever call the model, and no chunk waits for a permit
\* that is free.
PermitsConserved ==
    /\ permits + Cardinality(Chunk(Holding)) = Concurrency
    /\ permits > 0 => queue = <<>>
    /\ ~cancelling => ToSet(queue) = Chunk({"waiting"}) /\ IsInjective(queue)

\* Chunks get their first call in document order, whatever finishes first.
ChunksStartInOrder ==
    \A i, j \in Chunks :
        i < j /\ task[i] \in {"new"} \union Idle /\ ~cancelling
            => task[j] \in {"new"} \union Idle

\* When the request moves on to the summary, or is over in any way, no chunk
\* is left running or waiting.
NoOrphans ==
    pc \in {"own", "assemble"} \union Ended =>
        Chunk(Idle \union Holding) = {}

\* After a disconnect no task makes another call of the model.
CancelStopsCalls == [][cancelling => calls' = calls]_vars

\* Two passes of at most two calls per chunk and one pass for the request
\* itself; a chunk is given up only in its second pass, so after two calls.
CallsBounded ==
    /\ \A i \in Chunks : calls[i] <= 4
    /\ calls[0] <= 2
    /\ \A i \in Failures : calls[i] >= 2

\* A sequence with every run of equal neighbours reduced to one.
Destutter(s) ==
    LET d[n \in 0..Len(s)] ==
            IF n = 0 THEN <<>>
            ELSE IF n > 1 /\ s[n] = s[n - 1] THEN d[n - 1] ELSE Append(d[n - 1], s[n])
    IN  d[Len(s)]

\* The rows of all chunks but the failed ones, one chunk after the other.
RowsWithout(failed) ==
    LET all[n \in 0..Len(plan)] ==
            IF n = 0 THEN <<>> ELSE all[n - 1] \o (IF n \in failed THEN <<>> ELSE rows[n])
    IN  all[Len(plan)]

\* The response holds every row of every chunk that succeeded, in document
\* order, but for at most one repeated row at each border of two chunks.
RowsSurviveMerge ==
    pc = "returned" =>
        LET all  == RowsWithout(response.failed)
            full == {i \in Chunks \ response.failed : rows[i] # <<>>}
        IN  /\ Destutter(response.rows) = Destutter(all)
            /\ Len(all) - Len(response.rows) <= IF full = {} THEN 0 ELSE Cardinality(full) - 1

\* A chunk is missing from a response only if partial results are allowed,
\* it used up its passes, and the response says so; the summary never is.
PartialIsDeclared ==
    pc = "returned" =>
        /\ \A i \in Chunks : task[i] # "done" =>
              allowPartial /\ i \in response.failed /\ try[i] = 2
        /\ plan = <<>> \/ hasSummary => task[0] = "done"

\* Completions recorded for this request.
Consumed == SumFunction(recorded)

\* Every request ends, with a response, an error or its cancellation.
Terminates == <>(pc \in Ended)

\* A claim of the response schema that the code does not keep.

\* "Total tokens consumed for the request."
TokensAreAllConsumed == pc = "returned" => response.tokens = Consumed
===============================================================================
