------------------------------ MODULE Completion ------------------------------
(***************************************************************************)
(* What a caller of OpenRouterClient.complete() may rely on, whatever the  *)
(* client does about deadlines, retries, backoff and the two structured    *)
(* output modes: the call sends a bounded number of requests, ends in      *)
(* exactly one way, and its usage is recorded once, in the step in which   *)
(* it returns a result, and never otherwise.  OpenRouterClient implements  *)
(* this specification; ChunkedParse relies on it for each of its calls.    *)
(***************************************************************************)
EXTENDS Naturals

CONSTANT MaxRequests   \* most requests one call may send

VARIABLES
    status,    \* "running", or how the call ended
    sent,      \* requests sent to the provider so far
    recorded   \* usage records this call has added to the tracker

vars == <<status, sent, recorded>>

Init ==
    /\ status = "running"
    /\ sent = 0
    /\ recorded = 0

Send ==
    /\ status = "running"
    /\ sent < MaxRequests
    /\ sent' = sent + 1
    /\ UNCHANGED <<status, recorded>>

\* A result is handed over and its usage recorded in the same step.
Return ==
    /\ status = "running"
    /\ sent > 0
    /\ status' = "returned"
    /\ recorded' = recorded + 1
    /\ UNCHANGED sent

\* UpstreamError is raised, or CancelledError passes through.
GiveUp ==
    /\ status = "running"
    /\ status' \in {"failed", "cancelled"}
    /\ UNCHANGED <<sent, recorded>>

Next == Send \/ Return \/ GiveUp

Safe == Init /\ [][Next]_vars

Spec == Safe /\ WF_vars(Return \/ GiveUp)
===============================================================================
