----------------------------- MODULE ParseRequest -----------------------------
(***************************************************************************)
(* One parse request, whole: ParseLifecycle, whose await of the model is   *)
(* here what it stands for, the tasks and calls of ChunkedParse.  They     *)
(* meet where _run_parse() starts the calls, where the calls end, and      *)
(* where a cancellation of the parse task reaches the tasks it gathers.    *)
(* Nothing is assumed of the model: a call may never be answered.          *)
(***************************************************************************)
EXTENDS ChunkedParse

CONSTANT Kinds

\* The state of ParseLifecycle; parse is its task.
VARIABLES
    kind, spooled, gone, request, parse, outcome, cancelReq, poller,
    temp, stored, convDir, thread, copyFailed, logged, rejections, failures

L == INSTANCE ParseLifecycle WITH task <- parse

ASSUME RequestKindsAssumption == Kinds \subseteq L!AllKinds

around == <<kind, spooled, gone, request, parse, outcome, cancelReq, poller, temp,
            stored, convDir, thread, copyFailed, logged, rejections, failures>>
requestVars == <<around, vars>>

RequestInit == L!Init /\ Init

\* The parse task is between two awaits, so the event loop runs nothing else:
\* an in-memory upload is read and closed, and a response assembled, at once.
Between == (~spooled /\ parse \in {"read", "close"}) \/ pc = "assemble"

\* Steps that do not concern the model calls.
Alone(A) == A /\ UNCHANGED vars

-------------------------------------------------------------------------------
(* Where the two meet.                                                      *)

\* The document is ready: the same step plans its chunks and starts them.
Close ==
    /\ L!Close
    /\ IF outcome = "none" THEN BeginSingle \/ BeginChunks ELSE UNCHANGED vars

\* Faulty: the parse task is shielded, and its cancellation reaches no call.
PollAnswerShielded == Alone(~Between /\ L!PollAnswer)

\* task.cancel() on a parse task that awaits its calls cancels them with it.
PollAnswer ==
    /\ ~Between /\ L!PollAnswer
    /\ IF gone /\ parse = "calls" THEN Cancel ELSE UNCHANGED vars

\* Faulty: the parse task ends at once, and its calls by themselves.
DeliverAtOnce ==
    /\ L!Deliver
    /\ IF parse = "calls" /\ \A t \in Tasks : task[t] \in Settled \union {"new"}
       THEN Cancelled
       ELSE UNCHANGED vars

\* CancelledError reaches the parse task when the last call has unwound.
Deliver ==
    /\ L!Deliver
    /\ IF parse = "calls" THEN Cancelled ELSE UNCHANGED vars

\* A step of the calls: the parse task ends with the response or the error.
During(A) ==
    /\ parse = "calls" /\ A
    /\ IF pc' \in {"returned", "failed"}
       THEN L!CallsEnd /\ outcome' = pc'
       ELSE UNCHANGED around

-------------------------------------------------------------------------------

PollStep == PollAnswer \/ Alone(~Between /\ L!PollAgain)

RequestStep == Alone(L!RequestStep)

TaskStep == Alone(L!StoreOk \/ L!StoreRejected \/ L!StoreFails) \/ Close \/ Deliver

\* Steps of the calls that wait for no answer.
LoopStep ==
    During(\/ StartChunks \/ Gathered \/ Assemble
           \/ \E t \in Tasks : Unwind(t)
           \/ \E i \in Chunks : Acquire(i))

AnswerStep ==
    During(\E t \in Tasks : AnswerValid(t) \/ AnswerInvalid(t) \/ CallFails(t))

RequestNext ==
    \/ Alone(L!Accept \/ L!RejectForm \/ L!FormFails \/ L!Disconnect)
    \/ RequestStep
    \/ PollStep \/ Alone(~Between /\ L!PollRaises)
    \/ TaskStep
    \/ Alone(\/ L!ThreadStarts \/ L!AbandonedEnds
             \/ L!PreflightOk \/ L!PreflightFails \/ L!ExtractOk \/ L!ExtractRejected)
    \/ Alone(\/ L!ConvertRefused \/ L!ConvertStarts \/ L!CopyOk \/ L!CopyFails
             \/ L!ConvertFails \/ L!ConvertOk)
    \/ LoopStep \/ AnswerStep

RequestSafe == RequestInit /\ [][RequestNext]_requestVars

\* The event loop and local file I/O make progress.
RequestSpec ==
    /\ RequestSafe
    /\ WF_requestVars(PollStep) /\ WF_requestVars(RequestStep)
    /\ WF_requestVars(TaskStep) /\ WF_requestVars(LoopStep)

-------------------------------------------------------------------------------
(* Properties.                                                              *)

\* ParseLifecycle is right to take the calls for one await: with the tasks
\* and semaphore behind it the request takes the same steps, and a disconnect
\* still ends it, however many chunks run or queue and if no call is answered.
ImplementsLifecycle == L!Spec

\* When the request is over no task of it is alive, no call is in flight and
\* every permit is back; and it ended as its calls did, if it made any.
NothingOutlivesRequest ==
    request = "ended" =>
        /\ L!NothingOutlivesRequest
        /\ \A t \in Tasks : task[t] \in Settled \union {"new"}
        /\ permits = Concurrency
        /\ pc \in Ended => outcome = pc
        /\ pc \notin Ended => pc = "begin" /\ outcome # "returned"
===============================================================================
