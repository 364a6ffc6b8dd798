------------------------- MODULE ParseLifecycleProofs -------------------------
(***************************************************************************)
(* The safety properties of one request, for every choice of document      *)
(* types.  The invariant says, for each phase of the two tasks and of the  *)
(* thread, which files exist, what has been logged and whose cancellation  *)
(* may be pending.                                                         *)
(***************************************************************************)
EXTENDS ParseLifecycle, TLAPS

\* How the phases of the request, its parse task and its poller fit together.
PhaseInv ==
    /\ request = "intake" => task = "new" /\ outcome = "none"
    /\ request \in {"intake", "supervise", "stop"} => failures = 0
    /\ request \in {"stop", "ended"} => task \in {"new", "done"}
    /\ request = "stop" => task = "done"
    /\ request = "handle" => failures = 0 /\ task \in {"new", "done"}
                             /\ outcome \in {"intake_error", "failed", "cancelled"}
    /\ request \in {"handle", "ended"} => poller \in {"new", "ended"}
    /\ task = "new" => request # "supervise" /\ poller = "new" /\ ~cancelReq
                       /\ outcome \in {"none", "intake_error", "failed"}
                       /\ (outcome = "none" => request = "intake")
    /\ task \in {"read", "calls"} \union Extract => outcome = "none"
    /\ task = "close" => outcome # "returned"
    /\ task = "done" => outcome # "none"
    /\ outcome = "cancelled" => task \in {"close", "done"}

\* The stored upload: present and known while it is needed, and still there
\* afterwards only if a cancellation got in the way.
UploadInv ==
    /\ task = "new" => temp = "none" /\ ~stored
    /\ task = "read" => temp = "present" /\ ~stored
    /\ task \in Extract => temp = "present" /\ stored
    /\ thread # "idle" /\ task = "close" => temp = "present"
    /\ task = "close" /\ outcome = "none" => stored
    /\ task = "close" /\ ~stored /\ temp = "present" => outcome = "cancelled" /\ spooled
    /\ task \in {"calls", "done"} /\ temp = "present" => outcome = "cancelled" /\ spooled

\* A thread does what the task waits for, unless a cancellation abandoned it.
ThreadInv ==
    /\ task \in {"new", "read"} => thread = "idle"
    /\ thread = "queued" => task \in Extract
    /\ task = "preflight" => kind = "pdf" /\ thread \in {"queued", "preflight"}
    /\ task = "docconv" => kind = "doc" /\ thread \in {"queued", "copy", "convert"}
    /\ task = "extract" => thread \in {"queued", "extract"}
    /\ thread \in {"copy", "convert"} => kind = "doc"
    /\ thread \in Works => task \in Extract \/ outcome = "cancelled"

\* The conversion directory belongs to the thread that fills it, then to the
\* extraction, and to nobody only after a cancellation or a failed copy.
ConversionInv ==
    /\ task \in {"new", "read"} => convDir = "none"
    /\ task = "docconv" /\ thread = "queued" => convDir = "none"
    /\ task = "extract" /\ kind = "doc" => convDir = "present"
    /\ thread \in {"copy", "convert"} => convDir = "present"
    /\ convDir = "present" => \/ thread \in {"copy", "convert"}
                              \/ task = "extract"
                              \/ outcome = "cancelled"
                              \/ copyFailed

\* An intake error has been logged by the layer that raised or first saw it,
\* and nothing else has been logged as one, but what was cancelled later.
LogInv ==
    /\ rejections \in {0, 1}
    /\ outcome \in {"none", "returned", "failed"} => ~logged /\ rejections = 0
    /\ outcome = "intake_error" => logged /\ rejections = 1
    /\ request = "ended" => failures = IF outcome = "returned" THEN 0 ELSE 1

\* A cancellation, pending or delivered, has its cause.
CancelInv == cancelReq \/ outcome = "cancelled" => gone

IInv ==
    /\ TypeOK /\ PhaseInv /\ UploadInv /\ ThreadInv /\ ConversionInv
    /\ LogInv /\ CancelInv

LEMMA InitIInv == Init => IInv
<1> SUFFICES ASSUME Init PROVE IInv
  OBVIOUS
<1>1. TypeOK
  BY DEF Init, TypeOK, File, Outcomes
<1>2. PhaseInv
  BY DEF Init, PhaseInv, Extract
<1>3. UploadInv /\ ThreadInv /\ ConversionInv
  BY DEF Init, UploadInv, ThreadInv, ConversionInv, Extract, Works
<1>4. LogInv /\ CancelInv
  BY DEF Init, LogInv, CancelInv
<1> QED
  BY <1>1, <1>2, <1>3, <1>4 DEF IInv

LEMMA NextIInv == IInv /\ [Next]_vars => IInv'
<1> SUFFICES ASSUME IInv, [Next]_vars PROVE IInv'
  OBVIOUS
<1> USE DEF IInv, TypeOK, PhaseInv, UploadInv, ThreadInv, ConversionInv, LogInv,
            CancelInv, File, Extract, Works, Outcomes, inputs, files, events, others
<1>1. CASE Accept
  <2>1. TypeOK'
    BY <1>1 DEF Accept
  <2>2. PhaseInv'
    BY <1>1 DEF Accept
  <2>3. UploadInv'
    BY <1>1 DEF Accept
  <2>4. ThreadInv' /\ ConversionInv'
    BY <1>1 DEF Accept
  <2>5. LogInv' /\ CancelInv'
    BY <1>1 DEF Accept
  <2> QED
    BY <2>1, <2>2, <2>3, <2>4, <2>5
<1>2. CASE RejectForm
  BY <1>2 DEF RejectForm, LogRejection
<1>3. CASE TaskEnded
  BY <1>3 DEF TaskEnded
<1>4. CASE PollerStopped
  BY <1>4 DEF PollerStopped
<1>5. CASE Handle
  BY <1>5 DEF Handle
<1>6. CASE Disconnect
  BY <1>6 DEF Disconnect
<1>7. CASE PollAnswer
  BY <1>7 DEF PollAnswer
<1>8. CASE PollAgain
  BY <1>8 DEF PollAgain
<1>9. CASE PollRaises
  BY <1>9 DEF PollRaises
<1>10. CASE StoreOk
  <2>1. /\ kind = "pdf" => task' = "preflight"
        /\ kind = "doc" => task' = "docconv"
        /\ kind = "other" => task' = "extract"
        /\ kind \in {"pdf", "doc", "other"}
    BY <1>10, KindsAssumption DEF StoreOk, FirstStage, AllKinds
  <2>2. /\ task = "read" /\ stored' = TRUE
        /\ thread' = "queued"
        /\ UNCHANGED <<others, outcome, temp, convDir, copyFailed, events>>
    BY <1>10 DEF StoreOk
  <2>3. TypeOK'
    BY <2>1, <2>2
  <2>4. PhaseInv'
    BY <2>1, <2>2
  <2>5. UploadInv'
    BY <2>1, <2>2
  <2>6. ThreadInv' /\ ConversionInv'
    BY <2>1, <2>2
  <2>7. LogInv' /\ CancelInv'
    BY <2>2
  <2> QED
    BY <2>3, <2>4, <2>5, <2>6, <2>7
<1>11. CASE StoreRejected
  <2>1. TypeOK'
    <3>1. logged' \in BOOLEAN /\ rejections' \in Nat /\ failures' \in Nat
      BY <1>11 DEF StoreRejected, LogRejection
    <3> QED
      BY <1>11, <3>1 DEF StoreRejected
  <2>2. PhaseInv'
    BY <1>11 DEF StoreRejected, LogRejection
  <2>3. UploadInv'
    BY <1>11 DEF StoreRejected, LogRejection
  <2>4. ThreadInv' /\ ConversionInv'
    BY <1>11 DEF StoreRejected, LogRejection
  <2>5. LogInv' /\ CancelInv'
    BY <1>11 DEF StoreRejected, LogRejection
  <2> QED
    BY <2>1, <2>2, <2>3, <2>4, <2>5
<1>12. CASE StoreFails
  <2>1. TypeOK'
    BY <1>12 DEF StoreFails
  <2>2. PhaseInv'
    BY <1>12 DEF StoreFails
  <2>3. UploadInv'
    BY <1>12 DEF StoreFails
  <2>4. ThreadInv' /\ ConversionInv'
    BY <1>12 DEF StoreFails
  <2>5. LogInv' /\ CancelInv'
    BY <1>12 DEF StoreFails
  <2> QED
    BY <2>1, <2>2, <2>3, <2>4, <2>5
<1>13. CASE Close
  BY <1>13 DEF Close
<1>14. CASE Deliver
  <2>1. TypeOK'
    <3>1. task' \in {"close", "done"} /\ outcome' = "cancelled" /\ cancelReq' = FALSE
      BY <1>14 DEF Deliver
    <3>2. thread' \in {"idle", "queued"} \union Works
      BY <1>14 DEF Deliver
    <3>3. convDir' \in File
      BY <1>14 DEF Deliver, CleanUpConversion
    <3>4. UNCHANGED <<kind, spooled, gone, request, poller, temp, stored, copyFailed,
                      logged, rejections, failures>>
      BY <1>14 DEF Deliver
    <3> HIDE DEF IInv, PhaseInv, UploadInv, ThreadInv, ConversionInv, LogInv, CancelInv
    <3>5. TypeOK
      BY DEF IInv
    <3>6. kind' \in Kinds /\ spooled' \in BOOLEAN /\ gone' \in BOOLEAN
          /\ request' \in {"intake", "supervise", "stop", "handle", "ended"}
      BY <3>4, <3>5
    <3>7. task' \in {"new", "read", "close", "calls", "done"} \union Extract
          /\ outcome' \in Outcomes /\ cancelReq' \in BOOLEAN
      BY <3>1
    <3>8. poller' \in {"new", "ask", "sleep", "raised", "ended"}
          /\ temp' \in File /\ stored' \in BOOLEAN /\ copyFailed' \in BOOLEAN
          /\ logged' \in BOOLEAN /\ rejections' \in Nat /\ failures' \in Nat
      BY <3>4, <3>5
    <3> QED
      BY <3>2, <3>3, <3>6, <3>7, <3>8
  <2>2. PhaseInv'
    BY <1>14 DEF Deliver, Suspended, CleanUpConversion
  <2>3. UploadInv'
    BY <1>14 DEF Deliver, Suspended, CleanUpConversion
  <2>4. ThreadInv' /\ ConversionInv'
    BY <1>14 DEF Deliver, Suspended, CleanUpConversion
  <2>5. LogInv' /\ CancelInv'
    BY <1>14 DEF Deliver, Suspended, CleanUpConversion
  <2> QED
    BY <2>1, <2>2, <2>3, <2>4, <2>5
<1>15. CASE PreflightOk
  BY <1>15 DEF PreflightOk
<1>16. CASE PreflightFails
  BY <1>16 DEF PreflightFails
<1>17. CASE ExtractOk
  BY <1>17 DEF ExtractOk, CleanUpConversion
<1>18. CASE ExtractRejected
  <2>1. TypeOK'
    BY <1>18 DEF ExtractRejected, CleanUpConversion, LogRejection
  <2>2. PhaseInv'
    BY <1>18 DEF ExtractRejected, CleanUpConversion, LogRejection
  <2>3. UploadInv'
    BY <1>18 DEF ExtractRejected, CleanUpConversion, LogRejection
  <2>4. ThreadInv' /\ ConversionInv'
    BY <1>18 DEF ExtractRejected, CleanUpConversion, LogRejection
  <2>5. LogInv' /\ CancelInv'
    BY <1>18 DEF ExtractRejected, CleanUpConversion, LogRejection
  <2> QED
    BY <2>1, <2>2, <2>3, <2>4, <2>5
<1>19. CASE CallsEnd
  BY <1>19 DEF CallsEnd
<1>20. CASE ConvertRefused
  <2>1. TypeOK'
    BY <1>20 DEF ConvertRefused, LogRejection
  <2>2. PhaseInv'
    BY <1>20 DEF ConvertRefused, LogRejection
  <2>3. UploadInv'
    BY <1>20 DEF ConvertRefused, LogRejection
  <2>4. ThreadInv' /\ ConversionInv'
    BY <1>20 DEF ConvertRefused, LogRejection
  <2>5. LogInv' /\ CancelInv'
    BY <1>20 DEF ConvertRefused, LogRejection
  <2> QED
    BY <2>1, <2>2, <2>3, <2>4, <2>5
<1>21. CASE ConvertStarts
  BY <1>21 DEF ConvertStarts
<1>22. CASE CopyFails
  <2>1. TypeOK'
    BY <1>22 DEF CopyFails, Await
  <2>2. PhaseInv'
    BY <1>22 DEF CopyFails, Await
  <2>3. UploadInv'
    BY <1>22 DEF CopyFails, Await
  <2>4. ThreadInv' /\ ConversionInv'
    BY <1>22 DEF CopyFails, Await
  <2>5. LogInv' /\ CancelInv'
    BY <1>22 DEF CopyFails, Await
  <2> QED
    BY <2>1, <2>2, <2>3, <2>4, <2>5
<1>23. CASE ConvertFails
  <2>1. TypeOK'
    <3>1. logged' \in BOOLEAN /\ rejections' \in Nat /\ failures' \in Nat
      <4>1. CASE task = "docconv"
        BY <1>23, <4>1 DEF ConvertFails, LogRejection
      <4>2. CASE task # "docconv"
        BY <1>23, <4>2 DEF ConvertFails
      <4> QED
        BY <4>1, <4>2
    <3> QED
      BY <1>23, <3>1 DEF ConvertFails, Await
  <2>2. PhaseInv'
    BY <1>23 DEF ConvertFails, Await, LogRejection
  <2>3. UploadInv'
    BY <1>23 DEF ConvertFails, Await, LogRejection
  <2>4. ThreadInv' /\ ConversionInv'
    BY <1>23 DEF ConvertFails, Await, LogRejection
  <2>5. LogInv' /\ CancelInv'
    BY <1>23 DEF ConvertFails, Await, LogRejection
  <2> QED
    BY <2>1, <2>2, <2>3, <2>4, <2>5
<1>24. CASE ConvertOk
  <2>1. TypeOK'
    BY <1>24 DEF ConvertOk, Await
  <2>2. PhaseInv'
    BY <1>24 DEF ConvertOk, Await
  <2>3. UploadInv'
    BY <1>24 DEF ConvertOk, Await
  <2>4. ThreadInv' /\ ConversionInv'
    BY <1>24 DEF ConvertOk, Await
  <2>5. LogInv' /\ CancelInv'
    BY <1>24 DEF ConvertOk, Await
  <2> QED
    BY <2>1, <2>2, <2>3, <2>4, <2>5
<1>25. CASE FormFails
  BY <1>25 DEF FormFails
<1>26. CASE NoResponse
  BY <1>26 DEF NoResponse
<1>27. CASE ThreadStarts
  BY <1>27 DEF ThreadStarts
<1>28. CASE AbandonedEnds
  BY <1>28 DEF AbandonedEnds
<1>29. CASE CopyOk
  BY <1>29 DEF CopyOk
<1>30. CASE UNCHANGED vars
  BY <1>30 DEF vars
<1> QED
  BY <1>1, <1>2, <1>3, <1>4, <1>5, <1>6, <1>7, <1>8, <1>9, <1>10, <1>11, <1>12,
     <1>13, <1>14, <1>15, <1>16, <1>17, <1>18, <1>19, <1>20, <1>21, <1>22, <1>23,
     <1>24, <1>25, <1>26, <1>27, <1>28, <1>29, <1>30
  DEF Next, PollStep, RequestStep, TaskStep

LEMMA SafeIInv == Safe => []IInv
BY InitIInv, NextIInv, PTL DEF Safe

-------------------------------------------------------------------------------

\* Every variable keeps its type.
THEOREM TypeCorrect == Safe => []TypeOK
BY SafeIInv, PTL DEF IInv

\* A stored upload outlives its request only if a cancellation cut short the
\* reading or closing of a spooled upload.
THEOREM UploadLeaks == Safe => []UploadLeaksOnlyWhenCutShort
<1>1. IInv => UploadLeaksOnlyWhenCutShort
  BY DEF IInv, PhaseInv, UploadInv, UploadLeaksOnlyWhenCutShort
<1> QED
  BY <1>1, SafeIInv, PTL

\* A conversion directory outlives its request and its thread only after a
\* cancellation or a copy that failed.
THEOREM ConversionLeaks == Safe => []ConversionLeaksOnlyWhenCutShort
<1>1. IInv => ConversionLeaksOnlyWhenCutShort
  BY DEF IInv, PhaseInv, ConversionInv, ConversionLeaksOnlyWhenCutShort
<1> QED
  BY <1>1, SafeIInv, PTL

\* Neither of the two files outlives its request for any other reason.
THEOREM FilesLeak == Safe => []FilesLeakOnlyWhenCutShort
BY UploadLeaks, ConversionLeaks, PTL DEF FilesLeakOnlyWhenCutShort

\* Files are removed under a thread only when a cancellation abandoned it: the
\* upload once it is closed, the converted file under MarkItDown.
THEOREM FilesLive == Safe => []FilesLiveWhileUsed
<1>1. IInv => FilesLiveWhileUsed
  BY DEF IInv, TypeOK, PhaseInv, UploadInv, ThreadInv, ConversionInv, FilesLiveWhileUsed,
         ReadsUpload, ReadsConversion, Abandoned, Extract, Works
<1> QED
  BY <1>1, SafeIInv, PTL

\* Every request without a response logs one failure, also a cancelled one, and
\* a rejected intake once more as such.
THEOREM Logged == Safe => []LoggedOnce
<1>1. IInv => LoggedOnce
  BY DEF IInv, LogInv, LoggedOnce
<1> QED
  BY <1>1, SafeIInv, PTL

\* Only a client that went away has its request cancelled.
THEOREM CancelledWhenGone == Safe => []CancelledOnlyWhenGone
<1>1. IInv => CancelledOnlyWhenGone
  BY DEF IInv, CancelInv, CancelledOnlyWhenGone
<1> QED
  BY <1>1, SafeIInv, PTL

\* When a request is over, so are its two tasks.
THEOREM NothingOutlives == Safe => []NothingOutlivesRequest
<1>1. IInv => NothingOutlivesRequest
  BY DEF IInv, PhaseInv, NothingOutlivesRequest
<1> QED
  BY <1>1, SafeIInv, PTL

\* A parse task that is done keeps its outcome, however late it is cancelled.
THEOREM OutcomesAreFinal == Safe => OutcomeIsFinal
<1>1. IInv /\ [Next]_vars => (task = "done" => task' = "done" /\ outcome' = outcome)
  <2> SUFFICES ASSUME IInv, [Next]_vars, task = "done"
               PROVE  task' = "done" /\ outcome' = outcome
    OBVIOUS
  <2> USE DEF Extract, others
  <2>1. request # "intake"
    BY DEF IInv, PhaseInv
  <2>2. CASE RequestStep \/ Disconnect \/ PollStep \/ PollRaises
    BY <2>2 DEF RequestStep, TaskEnded, PollerStopped, Handle, NoResponse, Disconnect, PollStep,
                PollAnswer, PollAgain, PollRaises
  <2>3. ~(Accept \/ RejectForm \/ FormFails)
    BY <2>1 DEF Accept, RejectForm, FormFails
  <2>4. ~(TaskStep \/ ThreadStarts \/ PreflightOk \/ PreflightFails \/ ExtractOk \/ ExtractRejected \/ CallsEnd)
    BY DEF TaskStep, StoreOk, StoreRejected, StoreFails, Close, Deliver, Suspended,
           ThreadStarts, PreflightOk, PreflightFails, ExtractOk, ExtractRejected, CallsEnd,
           IInv, ThreadInv
  <2>5. ~(ConvertRefused \/ ConvertStarts)
    BY DEF ConvertRefused, ConvertStarts
  <2>6. CASE AbandonedEnds \/ CopyOk \/ CopyFails \/ ConvertFails \/ ConvertOk
    BY <2>6 DEF AbandonedEnds, CopyOk, CopyFails, ConvertFails, ConvertOk, Await
  <2>7. CASE UNCHANGED vars
    BY <2>7 DEF vars
  <2> QED
    BY <2>2, <2>3, <2>4, <2>5, <2>6, <2>7 DEF Next
<1>2. IInv /\ [Next]_vars => [task = "done" => task' = "done" /\ outcome' = outcome]_vars
  BY <1>1
<1> QED
  BY <1>2, SafeIInv, PTL DEF Safe, OutcomeIsFinal
===============================================================================
