---------------------------- MODULE ParseLifecycle ----------------------------
(***************************************************************************)
(* One parse request around its model calls: intake, the task that runs    *)
(* the parse, the poller that cancels it when the client is gone, the      *)
(* supervisor that joins the two, and the files they create: the stored    *)
(* upload and the directory in which a DOC becomes a DOCX.                 *)
(*                                                                         *)
(* Work in a thread (file I/O of a spooled upload, the PDF preflight, the  *)
(* two converters) is an await of the task.  Cancelling the task ends the  *)
(* await; a thread that already runs goes on by itself, and reads the      *)
(* files it was given for as long as it likes.  The threads that read and  *)
(* close the upload touch neither file and are left out.  The model calls  *)
(* are ChunkedParse, here one await.                                       *)
(***************************************************************************)
EXTENDS Naturals

CONSTANT Kinds    \* the document types offered: a subset of AllKinds

AllKinds == {"pdf", "doc", "other"}

ASSUME KindsAssumption == Kinds \subseteq AllKinds

VARIABLES
    kind,         \* what the upload is
    spooled,      \* it is on disk, so that its reads and close await a thread
    gone,         \* the client has disconnected
    request,      \* the request's own task: intake, supervisor, error handler
    task,         \* the parse task
    outcome,      \* how the parse task ends: what it returns or raises
    cancelReq,    \* task.cancel() was called and is not yet delivered
    poller,       \* the disconnect poller
    temp,         \* the stored upload
    stored,       \* stored_upload() knows its path
    convDir,      \* the conversion directory
    thread,       \* what the thread does that the task started last
    copyFailed,   \* the conversion directory could not be filled
    logged,       \* intake_event_logged of the current IntakeError
    rejections,   \* intake.rejected events
    failures      \* request.failed events

inputs  == <<kind, spooled>>
files   == <<temp, stored, convDir>>
events  == <<logged, rejections, failures>>
vars == <<inputs, gone, request, task, outcome, cancelReq, poller, files,
          thread, copyFailed, events>>

File      == {"none", "present", "removed"}
Extract   == {"preflight", "docconv", "extract"}
\* _convert_doc_to_docx() first copies the upload.
Works     == {"preflight", "copy", "convert", "extract"}
Outcomes  == {"none", "returned", "intake_error", "failed", "cancelled"}

TypeOK ==
    /\ kind \in Kinds /\ spooled \in BOOLEAN /\ gone \in BOOLEAN
    /\ request \in {"intake", "supervise", "stop", "handle", "ended"}
    /\ task \in {"new", "read", "close", "calls", "done"} \union Extract
    /\ outcome \in Outcomes
    /\ cancelReq \in BOOLEAN
    /\ poller \in {"new", "ask", "sleep", "raised", "ended"}
    /\ temp \in File /\ stored \in BOOLEAN /\ convDir \in File
    /\ thread \in {"idle", "queued"} \union Works /\ copyFailed \in BOOLEAN
    /\ logged \in BOOLEAN /\ rejections \in Nat /\ failures \in Nat

Init ==
    /\ kind \in Kinds /\ spooled \in BOOLEAN
    /\ gone = FALSE
    /\ request = "intake" /\ task = "new" /\ poller = "new"
    /\ outcome = "none" /\ cancelReq = FALSE
    /\ temp = "none" /\ stored = FALSE /\ convDir = "none"
    /\ thread = "idle" /\ copyFailed = FALSE
    /\ logged = FALSE /\ rejections = 0 /\ failures = 0

-------------------------------------------------------------------------------
(* The request's own task.                                                  *)

\* Faulty: the error is not marked as logged.
LogRejectionUnmarked ==
    /\ rejections' = IF logged THEN rejections ELSE rejections + 1
    /\ UNCHANGED <<logged, failures>>

\* _log_intake_rejection() for an error no layer has logged yet.
LogRejection ==
    /\ rejections' = IF logged THEN rejections ELSE rejections + 1
    /\ logged' = TRUE
    /\ UNCHANGED failures

\* parse_multipart_request() accepts the form and parse() creates the parse
\* task and the poller.  They first run in this order, so by the time the
\* poller asks, _run_parse() has created its temporary file.
Accept ==
    /\ request = "intake"
    /\ request' = "supervise"
    /\ task' = "read"
    /\ temp' = "present"
    /\ poller' = "ask"
    /\ UNCHANGED <<inputs, gone, outcome, cancelReq, stored, convDir, thread,
                   copyFailed, events>>

\* It rejects the form.
RejectForm ==
    /\ request = "intake"
    /\ request' = "handle"
    /\ outcome' = "intake_error"
    /\ LogRejection
    /\ UNCHANGED <<inputs, gone, task, cancelReq, poller, files, thread, copyFailed>>

\* The form cannot be read for another reason; no layer logs a rejection.
FormFails ==
    /\ request = "intake"
    /\ request' = "handle"
    /\ outcome' = "failed"
    /\ UNCHANGED <<inputs, gone, task, cancelReq, poller, files, thread, copyFailed, events>>

\* `await task` ends; the finally clause cancels the poller ...
TaskEnded ==
    /\ request = "supervise" /\ task = "done"
    /\ request' = "stop"
    /\ UNCHANGED <<inputs, gone, task, outcome, cancelReq, poller, files, thread,
                   copyFailed, events>>

\* ... and waits for it, ignoring however it ends.
PollerStopped ==
    /\ request = "stop"
    /\ poller' = "ended"
    /\ request' = IF outcome = "returned" THEN "ended" ELSE "handle"
    /\ UNCHANGED <<inputs, gone, task, outcome, cancelReq, files, thread, copyFailed, events>>

\* api_error_handler(), or RequestContextMiddleware for other exceptions.
Handle ==
    /\ request = "handle" /\ outcome \in {"intake_error", "failed"}
    /\ request' = "ended"
    /\ failures' = failures + 1
    /\ rejections' = IF outcome = "intake_error" /\ ~logged THEN rejections + 1 ELSE rejections
    /\ UNCHANGED <<inputs, gone, task, outcome, cancelReq, poller, files, thread,
                   copyFailed, logged>>

\* CancelledError passes every handler of exceptions; call_next() then finds
\* no response, raises RuntimeError, and the middleware logs an internal error.
NoResponse ==
    /\ request = "handle" /\ outcome = "cancelled"
    /\ request' = "ended"
    /\ failures' = failures + 1
    /\ UNCHANGED <<inputs, gone, task, outcome, cancelReq, poller, files, thread,
                   copyFailed, logged, rejections>>

-------------------------------------------------------------------------------
(* _poll_disconnect, until the supervisor cancels it.                       *)

\* The client goes away; from outside.
Disconnect ==
    /\ ~gone /\ request # "ended"
    /\ gone' = TRUE
    /\ UNCHANGED <<inputs, request, task, outcome, cancelReq, poller, files, thread,
                   copyFailed, events>>

\* is_disconnected() answers; the task may have ended while it was asked, and
\* cancelling a task that is done does nothing.
PollAnswer ==
    /\ poller = "ask" /\ request = "supervise"
    /\ poller' = IF gone THEN "ended" ELSE "sleep"
    /\ cancelReq' = (cancelReq \/ (gone /\ task # "done"))
    /\ UNCHANGED <<inputs, gone, request, task, outcome, files, thread, copyFailed, events>>

\* Faulty: an exception is taken for a disconnect.
PollRaisesCancels ==
    /\ poller = "ask" /\ request = "supervise"
    /\ poller' = "ended"
    /\ cancelReq' = (cancelReq \/ task # "done")
    /\ UNCHANGED <<inputs, gone, request, task, outcome, files, thread, copyFailed, events>>

\* is_disconnected() raises: nobody polls any more.
PollRaises ==
    /\ poller = "ask" /\ request = "supervise"
    /\ poller' = "raised"
    /\ UNCHANGED <<inputs, gone, request, task, outcome, cancelReq, files, thread,
                   copyFailed, events>>

\* Faulty: the question is asked once.
PollOnce ==
    /\ poller = "sleep" /\ request = "supervise"
    /\ poller' = "ended"
    /\ UNCHANGED <<inputs, gone, request, task, outcome, cancelReq, files, thread,
                   copyFailed, events>>

PollAgain ==
    /\ poller = "sleep" /\ request = "supervise"
    /\ poller' = IF task = "done" THEN "ended" ELSE "ask"
    /\ UNCHANGED <<inputs, gone, request, task, outcome, cancelReq, files, thread,
                   copyFailed, events>>

-------------------------------------------------------------------------------
(* The parse task.                                                          *)

\* Faulty: a task that is done takes a cancellation too.
SuspendedOrDone ==
    task \in Extract \union {"calls", "done"} \/ (spooled /\ task \in {"read", "close"})

\* The awaits that suspend: an in-memory upload is read and closed at once.
Suspended == task \in Extract \union {"calls"} \/ (spooled /\ task \in {"read", "close"})

\* A due cancellation is delivered at such an await, before its result.
Runs == ~(cancelReq /\ Suspended)

others == <<inputs, gone, request, poller, cancelReq>>

\* Faulty: stages are named after the document types.
FirstStageByKind == kind

FirstStage == CASE kind = "pdf"   -> "preflight"
                [] kind = "doc"   -> "docconv"
                [] kind = "other" -> "extract"

\* The upload is stored, its type detected and its image size accepted.
StoreOk ==
    /\ task = "read" /\ Runs
    /\ stored' = TRUE
    /\ task' = FirstStage
    /\ thread' = "queued"
    /\ UNCHANGED <<others, outcome, temp, convDir, copyFailed, events>>

\* Too large or empty: _stream_to_temp() removes the file itself.  An
\* unsupported type or an oversized image is found after it returned.
StoreRejected ==
    /\ task = "read" /\ Runs
    /\ task' = "close" /\ outcome' = "intake_error"
    /\ \/ temp' = "removed" /\ UNCHANGED stored
       \/ stored' = TRUE /\ UNCHANGED temp
    /\ LogRejection
    /\ UNCHANGED <<others, convDir, thread, copyFailed>>

\* The same two steps raise an exception of another class.
StoreFails ==
    /\ task = "read" /\ Runs
    /\ task' = "close" /\ outcome' = "failed"
    /\ \/ temp' = "removed" /\ UNCHANGED stored
       \/ stored' = TRUE /\ UNCHANGED temp
    /\ UNCHANGED <<others, convDir, thread, copyFailed, events>>

\* A thread takes up the preflight or the conversion to Markdown, unless the
\* await was cancelled before.
ThreadStarts ==
    /\ thread = "queued" /\ task # "docconv" /\ Runs
    /\ thread' = task
    /\ UNCHANGED <<others, task, outcome, files, copyFailed, events>>

\* The PDF preflight passes: native text needs no converter.
PreflightOk ==
    /\ task = "preflight" /\ thread = "preflight" /\ Runs
    /\ \/ task' = "extract" /\ thread' = "queued"
       \/ task' = "close" /\ thread' = "idle"
    /\ UNCHANGED <<others, outcome, files, copyFailed, events>>

\* A page that cannot be read raises an exception nothing translates.
PreflightFails ==
    /\ task = "preflight" /\ thread = "preflight" /\ Runs
    /\ task' = "close" /\ outcome' = "failed"
    /\ thread' = "idle"
    /\ UNCHANGED <<others, files, copyFailed, events>>

\* Extraction ends: the conversion directory is removed by the finally clause.
CleanUpConversion ==
    convDir' = IF task = "extract" /\ convDir = "present" THEN "removed" ELSE convDir

ExtractOk ==
    /\ task = "extract" /\ thread = "extract" /\ Runs
    /\ task' = "close"
    /\ thread' = "idle"
    /\ CleanUpConversion
    /\ UNCHANGED <<others, outcome, temp, stored, copyFailed, events>>

\* IntakeError from the preflight, the converter or an empty result passes
\* through stored_upload(), which logs it.
ExtractRejected ==
    /\ task \in {"preflight", "extract"} /\ thread = task /\ Runs
    /\ task' = "close" /\ outcome' = "intake_error"
    /\ thread' = "idle"
    /\ CleanUpConversion
    /\ LogRejection
    /\ UNCHANGED <<others, temp, stored, copyFailed>>

\* A thread whose await was cancelled ends, however it does; nobody hears it.
AbandonedEnds ==
    /\ thread \in {"preflight", "extract"} /\ task \notin Extract
    /\ thread' = "idle"
    /\ UNCHANGED <<others, task, outcome, files, copyFailed, events>>

\* Faulty: the file is removed only when no error is on its way.
CloseCleansSuccess ==
    /\ task = "close" /\ Runs
    /\ temp' = IF stored /\ outcome = "none" /\ temp = "present" THEN "removed" ELSE temp
    /\ task' = IF outcome = "none" THEN "calls" ELSE "done"
    /\ UNCHANGED <<others, outcome, stored, convDir, thread, copyFailed, events>>

\* The upload is closed, the file removed if its path is known; the parse
\* goes on to the model calls or ends with the error.
Close ==
    /\ task = "close" /\ Runs
    /\ temp' = IF stored /\ temp = "present" THEN "removed" ELSE temp
    /\ task' = IF outcome = "none" THEN "calls" ELSE "done"
    /\ UNCHANGED <<others, outcome, stored, convDir, thread, copyFailed, events>>

\* The model calls end, with a response or an error.
CallsEnd ==
    /\ task = "calls" /\ Runs
    /\ task' = "done"
    /\ outcome' \in {"returned", "failed"}
    /\ UNCHANGED <<others, files, thread, copyFailed, events>>

-------------------------------------------------------------------------------
(* _convert_doc_to_docx, in its thread.                                     *)

\* Only a task still in the await learns how the thread ended.
Await(t, o) ==
    IF task = "docconv"
    THEN task' = t /\ outcome' = o
    ELSE UNCHANGED <<task, outcome>>

\* The binary is missing: nothing was created.
ConvertRefused ==
    /\ thread = "queued" /\ task = "docconv" /\ Runs
    /\ thread' = "idle"
    /\ task' = "close" /\ outcome' = "intake_error"
    /\ LogRejection
    /\ UNCHANGED <<others, files, copyFailed>>

ConvertStarts ==
    /\ thread = "queued" /\ task = "docconv" /\ Runs
    /\ thread' = "copy"
    /\ convDir' = "present"
    /\ UNCHANGED <<others, task, outcome, temp, stored, copyFailed, events>>

\* The upload is copied into the directory, if it is still there.
CopyOk ==
    /\ thread = "copy" /\ temp = "present"
    /\ thread' = "convert"
    /\ UNCHANGED <<others, task, outcome, files, copyFailed, events>>

\* Filling the directory fails, outside the try statement.
CopyFails ==
    /\ thread = "copy" /\ Runs
    /\ thread' = "idle"
    /\ copyFailed' = TRUE
    /\ Await("close", "failed")
    /\ UNCHANGED <<others, files, events>>

\* LibreOffice fails, times out or writes no file: the directory is removed.
ConvertFails ==
    /\ thread = "convert" /\ Runs
    /\ thread' = "idle"
    /\ convDir' = "removed"
    /\ Await("close", "intake_error")
    /\ IF task = "docconv" THEN LogRejection ELSE UNCHANGED events
    /\ UNCHANGED <<others, temp, stored, copyFailed>>

\* Faulty: the directory is removed on this path too.
ConvertOkCleaned ==
    /\ thread = "convert" /\ Runs
    /\ thread' = IF task = "docconv" THEN "queued" ELSE "idle"
    /\ convDir' = "removed"
    /\ Await("extract", outcome)
    /\ UNCHANGED <<others, temp, stored, copyFailed, events>>

\* The path is handed to the task, which goes on to MarkItDown, or to nobody.
ConvertOk ==
    /\ thread = "convert" /\ Runs
    /\ thread' = IF task = "docconv" THEN "queued" ELSE "idle"
    /\ Await("extract", outcome)
    /\ UNCHANGED <<others, files, copyFailed, events>>

-------------------------------------------------------------------------------
(* CancelledError in the parse task.                                        *)

\* stored_upload() still closes the upload, unless that is what was cancelled,
\* and extract() removes the conversion directory it knows; work that no thread
\* has begun is skipped, a thread that runs is abandoned.
Deliver ==
    /\ cancelReq /\ Suspended
    /\ cancelReq' = FALSE
    /\ outcome' = "cancelled"
    /\ task' = IF task \in {"close", "calls"} THEN "done" ELSE "close"
    /\ thread' = IF thread = "queued" THEN "idle" ELSE thread
    /\ CleanUpConversion
    /\ UNCHANGED <<inputs, gone, request, poller, temp, stored, copyFailed, events>>

-------------------------------------------------------------------------------

PollStep == PollAnswer \/ PollAgain

RequestStep == TaskEnded \/ PollerStopped \/ Handle \/ NoResponse

\* Steps of the parse task that wait for no converter and no model.
TaskStep == StoreOk \/ StoreRejected \/ StoreFails \/ Close \/ Deliver

Next ==
    \/ Accept \/ RejectForm \/ FormFails \/ RequestStep
    \/ Disconnect \/ PollStep \/ PollRaises
    \/ TaskStep
    \/ ThreadStarts \/ PreflightOk \/ PreflightFails \/ ExtractOk \/ ExtractRejected
    \/ AbandonedEnds \/ CallsEnd
    \/ ConvertRefused \/ ConvertStarts \/ CopyOk \/ CopyFails \/ ConvertFails \/ ConvertOk

Safe == Init /\ [][Next]_vars

\* The event loop and local file I/O make progress.  Nothing is assumed of
\* the converters, which have no timeout of their own, or of the model.
Spec == Safe /\ WF_vars(PollStep) /\ WF_vars(RequestStep) /\ WF_vars(TaskStep)

-------------------------------------------------------------------------------
(* Properties.                                                              *)

\* A stored upload outlives its request only when the cancellation cut short
\* the reading or the closing of an upload that was spooled to disk.
UploadLeaksOnlyWhenCutShort ==
    request = "ended" /\ temp = "present" => outcome = "cancelled" /\ spooled

\* A conversion directory outlives its request and its thread only when the
\* request was cancelled or the directory could not be filled.
ConversionLeaksOnlyWhenCutShort ==
    request = "ended" /\ thread = "idle" /\ convDir = "present" =>
        outcome = "cancelled" \/ copyFailed

FilesLeakOnlyWhenCutShort ==
    UploadLeaksOnlyWhenCutShort /\ ConversionLeaksOnlyWhenCutShort

\* What the thread reads: a DOC is read once, to be copied.
ReadsUpload == thread \in {"preflight", "copy"} \/ (thread = "extract" /\ kind # "doc")
ReadsConversion == thread = "convert" \/ (thread = "extract" /\ kind = "doc")

\* A cancellation ended the await in which the task waited for a thread.
Abandoned == outcome = "cancelled" /\ task \in {"close", "done"}

\* Files are removed under a thread that reads them only when a cancellation
\* abandoned it: the upload once stored_upload() has closed it, and the
\* converted file under MarkItDown.  No request that is answered depends on
\* such a thread, and LibreOffice keeps its directory even when abandoned.
FilesLiveWhileUsed ==
    /\ ReadsUpload => temp = "present" \/ (Abandoned /\ task = "done")
    /\ ReadsConversion => convDir = "present" \/ (Abandoned /\ thread = "extract")

\* Every request without a response logs one failure, a cancelled one too, as
\* an internal error; a rejected intake is logged once more as such, whichever
\* of the three layers sees it first, and may be cancelled after that.
LoggedOnce ==
    request = "ended" =>
        /\ failures = IF outcome = "returned" THEN 0 ELSE 1
        /\ outcome = "intake_error" => rejections = 1
        /\ outcome = "cancelled" => rejections <= 1
        /\ outcome \in {"returned", "failed"} => rejections = 0

\* Only a client that went away has its request cancelled, and a request is
\* over only when its two tasks are: a thread is all that may outlive it.
CancelledOnlyWhenGone == outcome = "cancelled" => gone

NothingOutlivesRequest ==
    request = "ended" => (task = "done" \/ task = "new") /\ poller \in {"new", "ended"}

\* A response that is ready is given, however late the poller hears that the
\* client has gone.
OutcomeIsFinal == [][task = "done" => task' = "done" /\ outcome' = outcome]_vars

\* A disconnect ends the request even if a converter or the model never
\* answers, unless the poll itself raised, after which nobody watches.
DisconnectEndsRequest ==
    gone /\ request = "supervise" ~> request = "ended" \/ poller = "raised"
===============================================================================
