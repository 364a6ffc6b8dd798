-------------------------- MODULE ParseRequestProofs --------------------------
(***************************************************************************)
(* The chunks of a request, and the request they are part of.              *)
(*                                                                         *)
(* First ChunkedParse alone: its safety properties for every plan, every   *)
(* number of permits and any answers, from one inductive invariant; and    *)
(* that the merge of the chunks' rows loses none, by induction over the    *)
(* chunks.                                                                 *)
(*                                                                         *)
(* Then ParseRequest: a whole request is a request of ParseLifecycle and a *)
(* set of tasks of ChunkedParse at once, for all document types, plans,    *)
(* answers and degrees of concurrency: every step of it is a step of each  *)
(* of the two, or one that the other does not see.  So each safety         *)
(* property proved of either of them holds of the request, whatever the    *)
(* other one does; and an invariant of where the two meet shows that a     *)
(* request which is over leaves no task, no call and no permit behind.     *)
(***************************************************************************)
EXTENDS ParseRequest, FiniteSetTheorems, WellFoundedInduction, TLAPS

\* The queue holds the last chunks, in order: those that wait.
QueueInv ==
    /\ permits + Cardinality(Chunk(Holding)) = Concurrency
    /\ permits > 0 => queue = <<>>
    /\ cancelling => queue = <<>>
    /\ Len(queue) <= Len(plan)
    /\ \A n \in 1..Len(queue) : queue[n] = n + (Len(plan) - Len(queue))
    /\ ~cancelling =>
          \A i \in Chunks : task[i] = "waiting" <=> i > Len(plan) - Len(queue)

\* What the tasks do while the request's own task is where it is.
PhaseInv ==
    /\ pc = "begin" => \A t \in Tasks : task[t] = "new"
    /\ pc = "gather" => task[0] = "new" /\ plan # <<>>
    /\ pc = "gather" => \A i \in Chunks : task[i] # "new"
    /\ pc \notin {"begin", "gather"} => \A i \in Chunks : task[i] \in Settled
    /\ pc = "own" => task[0] \in Calling \union {"cancelled"}
    /\ task[0] \in Calling => pc = "own"
    /\ pc = "assemble" /\ (plan = <<>> \/ hasSummary) => task[0] = "done"
    /\ task[0] \in {"new"} \union Calling \union Settled
    /\ pc \in {"begin", "assemble", "returned"} => ~cancelling
    /\ ~cancelling => \A t \in Tasks : task[t] # "cancelled"
    /\ ~cancelling => \A i, j \in Chunks : task[i] = "ready" => task[j] = "ready"

\* In pass k, a chunk in state s may have made n calls.
Within(s, k, n) ==
    /\ s = "first" => n >= k /\ n <= 2 * k - 1
    /\ s = "second" => n >= k + 1 /\ n <= 2 * k

\* The calls a task has made, by its state and pass.
CountInv ==
    /\ \A i \in Chunks :
          /\ task[i] \in {"new", "ready", "waiting", "granted"} => try[i] = 1 /\ calls[i] = 0
          /\ Within(task[i], try[i], calls[i])
          /\ task[i] \in Settled => calls[i] <= 4
          /\ task[i] = "failed" => try[i] = 2 /\ calls[i] >= 2
    /\ task[0] = "new" => calls[0] = 0
    /\ task[0] = "first" => calls[0] = 1
    /\ calls[0] <= 2

\* What a response says of the chunks.
ResponseInv ==
    pc = "returned" =>
        /\ response.failed = Failures
        /\ Failures # {} => allowPartial
        /\ plan = <<>> \/ hasSummary => task[0] = "done"

IInv == TypeOK /\ QueueInv /\ PhaseInv /\ CountInv /\ ResponseInv

-------------------------------------------------------------------------------
(* Chunks and sets of them.                                                 *)

LEMMA PlanLength == ASSUME TypeOK PROVE plan \in Seq([start : Nat, end : Nat]) /\ Len(plan) \in Nat
BY PlansAssumption DEF TypeOK

LEMMA ChunkFinite ==
    ASSUME TypeOK, NEW S
    PROVE  IsFiniteSet(Chunk(S)) /\ Cardinality(Chunk(S)) \in Nat
<1>1. IsFiniteSet(Chunks)
  BY PlanLength, FS_Interval DEF Chunks
<1>2. Chunk(S) \subseteq Chunks
  BY DEF Chunk
<1> QED BY <1>1, <1>2, FS_Subset, FS_CardinalityType

\* A step that takes no chunk in or out of the semaphore keeps QueueInv.
LEMMA QueueUntouched ==
    ASSUME QueueInv, UNCHANGED <<plan, permits, queue, cancelling>>,
           \A i \in Chunks : task[i] \in Holding <=> task'[i] \in Holding,
           \A i \in Chunks : task[i] = "waiting" <=> task'[i] = "waiting"
    PROVE  QueueInv'
<1>1. Chunks' = Chunks
  BY DEF Chunks
<1>2. Chunk(Holding)' = Chunk(Holding)
  BY <1>1 DEF Chunk, Holding, Calling
<1> QED BY <1>1, <1>2 DEF QueueInv

\* What Release(i, s) does to the tasks.
Handed(i, s) ==
    /\ task' \in [Tasks -> {"new"} \union Idle \union Holding \union Settled]
    /\ permits' \in 0..Concurrency /\ queue' \in Seq(Chunks)
    /\ task'[i] = s /\ task'[0] = task[0]
    /\ \A j \in Chunks \ {i} :
          task'[j] = task[j] \/ (task[j] = "waiting" /\ task'[j] = "granted")

\* A release keeps the permits and the queue in order.
LEMMA ReleaseKeeps ==
    ASSUME TypeOK, QueueInv, NEW i \in Chunk(Holding), NEW s \in Settled, Release(i, s),
           UNCHANGED <<plan, cancelling>>
    PROVE  QueueInv' /\ Handed(i, s)
<1>1. Chunks' = Chunks /\ i \in Chunks /\ i # 0 /\ task[i] \in Holding /\ Len(plan) \in Nat
      /\ Chunks \subseteq Tasks /\ s \notin Holding /\ s # "waiting"
  BY PlanLength DEF Chunks, Chunk, Tasks, Settled, Holding, Calling
<1>2. IsFiniteSet(Chunk(Holding)) /\ Cardinality(Chunk(Holding)) \in Nat
  BY ChunkFinite
<1>3. permits \in Nat /\ Concurrency \in Nat
  BY ConcurrencyAssumption DEF TypeOK
<1>4. IsFiniteSet(Chunk(Holding) \ {i})
      /\ Cardinality(Chunk(Holding) \ {i}) = Cardinality(Chunk(Holding)) - 1
  BY <1>2, FS_RemoveElement
<1>5. Cardinality(Chunk(Holding)) >= 1
  BY <1>2, FS_EmptySet
<1>6. CASE queue # <<>>
  <2> DEFINE h == Head(queue)
  <2>1. h = queue[1] /\ 1 \in 1..Len(queue) /\ Len(queue) \in Nat \ {0} /\ h \in Chunks
    BY <1>6 DEF TypeOK
  <2>2. ~cancelling /\ permits = 0
    BY <1>3, <1>6 DEF QueueInv
  <2>3. h = 1 + (Len(plan) - Len(queue)) /\ task[h] = "waiting"
    BY <1>1, <2>1, <2>2 DEF QueueInv
  <2>4. h # i /\ h \notin Chunk(Holding)
    BY <1>1, <2>3 DEF Holding, Calling, Chunk
  <2>5. /\ task' = [task EXCEPT ![i] = s, ![h] = "granted"]
        /\ queue' = Tail(queue) /\ permits' = permits
    BY <1>6 DEF Release
  <2>6. Chunk(Holding)' = (Chunk(Holding) \ {i}) \union {h}
    BY <1>1, <2>1, <2>4, <2>5 DEF Chunk, TypeOK, Holding, Calling
  <2>7. Cardinality(Chunk(Holding)') = Cardinality(Chunk(Holding))
    <3> DEFINE H == Chunk(Holding) \ {i}
    <3>1. IsFiniteSet(H) /\ h \notin H /\ Cardinality(H) = Cardinality(Chunk(Holding)) - 1
      BY <1>4, <2>4
    <3>2. Cardinality(H \union {h}) = Cardinality(H) + 1
      <4> HIDE DEF H, h
      <4> QED BY <3>1, FS_AddElement
    <3> QED BY <1>2, <2>6, <3>1, <3>2
  <2>8. Len(queue') = Len(queue) - 1 /\ \A n \in 1..Len(queue') : queue'[n] = queue[n + 1]
    BY <1>6, <2>5 DEF TypeOK
  <2>9. \A n \in 1..Len(queue') : queue'[n] = n + (Len(plan) - Len(queue'))
    <3> SUFFICES ASSUME NEW n \in 1..Len(queue')
                 PROVE  queue'[n] = n + (Len(plan) - Len(queue'))
      OBVIOUS
    <3>1. n \in Nat /\ n + 1 \in 1..Len(queue) /\ queue'[n] = queue[n + 1]
      BY <2>1, <2>8
    <3>2. queue[n + 1] = n + 1 + (Len(plan) - Len(queue))
      BY <3>1 DEF QueueInv
    <3> QED BY <1>1, <2>1, <2>8, <3>1, <3>2
  <2>10. \A j \in Chunks : task'[j] = "waiting" <=> j > Len(plan) - Len(queue')
    <3> SUFFICES ASSUME NEW j \in Chunks
                 PROVE  task'[j] = "waiting" <=> j > Len(plan) - Len(queue')
      OBVIOUS
    <3>1. task[j] = "waiting" <=> j > Len(plan) - Len(queue)
      BY <2>2 DEF QueueInv
    <3>2. task'[j] = "waiting" <=> task[j] = "waiting" /\ j # h
      BY <1>1, <2>1, <2>4, <2>5 DEF TypeOK, Holding, Calling
    <3> QED BY <1>1, <2>1, <2>3, <2>8, <3>1, <3>2 DEF Chunks
  <2>11. QueueInv'
    <3>1. permits' + Cardinality(Chunk(Holding)') = Concurrency
      BY <2>5, <2>7 DEF QueueInv
    <3>2. Len(queue') <= Len(plan) /\ permits' = 0 /\ ~cancelling'
      BY <1>1, <2>1, <2>2, <2>5, <2>8 DEF QueueInv
    <3> QED BY <1>1, <2>9, <2>10, <3>1, <3>2 DEF QueueInv
  <2>12. Handed(i, s)
    <3>1. queue' \in Seq(Chunks) /\ permits' \in 0..Concurrency
      BY <1>6, <2>5 DEF TypeOK
    <3>2. task \in [Tasks -> {"new"} \union Idle \union Holding \union Settled]
      BY DEF TypeOK
    <3>3. i \in Tasks /\ h \in Tasks /\ 0 \in Tasks /\ h # 0 /\ "granted" \in Holding
      BY <1>1, <2>1 DEF Chunks, Holding, Tasks
    <3>4. task' \in [Tasks -> {"new"} \union Idle \union Holding \union Settled]
      BY <2>5, <3>2, <3>3
    <3>5. task'[i] = s /\ task'[0] = task[0]
      BY <1>1, <2>4, <2>5, <3>2, <3>3
    <3>6. \A j \in Chunks \ {i} :
            task'[j] = task[j] \/ (task[j] = "waiting" /\ task'[j] = "granted")
      BY <1>1, <2>3, <2>5, <3>2, <3>3
    <3> QED BY <3>1, <3>4, <3>5, <3>6 DEF Handed
  <2> QED BY <2>11, <2>12
<1>7. CASE queue = <<>>
  <2>1. task' = [task EXCEPT ![i] = s] /\ queue' = queue /\ permits' = permits + 1
    BY <1>7 DEF Release
  <2>2. Chunk(Holding)' = Chunk(Holding) \ {i}
    BY <1>1, <2>1 DEF Chunk, TypeOK
  <2>3. \A j \in Chunks : task'[j] = "waiting" <=> task[j] = "waiting"
    BY <1>1, <2>1 DEF TypeOK, Holding, Calling
  <2>4. QueueInv'
    BY <1>1, <1>2, <1>3, <1>4, <1>7, <2>1, <2>2, <2>3 DEF QueueInv
  <2>5. permits' \in 0..Concurrency
    BY <1>2, <1>3, <1>5, <2>1 DEF QueueInv
  <2>6. Handed(i, s)
    BY <1>1, <2>1, <2>5 DEF Handed, TypeOK, Chunks, Tasks
  <2> QED BY <2>4, <2>6
<1> QED BY <1>6, <1>7

-------------------------------------------------------------------------------
(* The moves the actions share.                                             *)

\* A task with a permit is one the request's own task waits for.
LEMMA HoldingGathered ==
    ASSUME IInv, NEW i \in Chunks, task[i] \in Idle \union Holding
    PROVE  pc = "gather"
BY DEF IInv, PhaseInv, Idle, Holding, Calling, Settled, Chunks, Tasks

\* A chunk ends and hands its permit on.
LEMMA SettleKeeps ==
    ASSUME IInv, NEW i \in Chunk(Holding), NEW s \in Settled, Release(i, s),
           UNCHANGED <<inputs, pc, try, calls, cancelling, response>>,
           s = "cancelled" => cancelling,
           s = "failed" => try[i] = 2 /\ task[i] \in Calling
    PROVE  QueueInv' /\ PhaseInv' /\ CountInv' /\ ResponseInv' /\ Handed(i, s)
<1>1. i \in Chunks /\ task[i] \in Holding /\ Chunks' = Chunks /\ Tasks' = Tasks
      /\ Tasks = {0} \union Chunks
  BY DEF Chunk, Chunks, Tasks, inputs
<1>2. pc = "gather" /\ pc' = "gather" /\ plan' = plan /\ cancelling' = cancelling
  BY <1>1, HoldingGathered DEF inputs
<1>3. QueueInv' /\ Handed(i, s)
  BY <1>2, ReleaseKeeps DEF IInv
<1>4. ~cancelling => \A j \in Chunks : task[j] # "ready"
  BY <1>1 DEF IInv, PhaseInv, Holding, Calling
<1>5. PhaseInv'
  BY <1>1, <1>2, <1>3, <1>4 DEF IInv, PhaseInv, Handed, Settled, Holding, Calling
<1>6. try[i] \in {1, 2} /\ calls[i] \in Nat
  BY <1>1 DEF IInv, TypeOK
<1>7. calls[i] <= 4 /\ (s = "failed" => try[i] = 2 /\ calls[i] >= 2)
  BY <1>1, <1>6 DEF IInv, CountInv, Within, Holding, Calling
<1>8. CountInv'
  <2>1. calls' = calls /\ try' = try
    OBVIOUS
  <2> SUFFICES ASSUME NEW j \in Chunks
      PROVE /\ task'[j] \in {"new", "ready", "waiting", "granted"} => try[j] = 1 /\ calls[j] = 0
            /\ Within(task'[j], try[j], calls[j])
            /\ task'[j] \in Settled => calls[j] <= 4
            /\ task'[j] = "failed" => try[j] = 2 /\ calls[j] >= 2
    BY <1>1, <1>3, <2>1 DEF IInv, CountInv, Handed
  <2>2. CASE j = i
    BY <1>3, <1>7, <2>2 DEF Handed, Settled, Within
  <2>3. CASE j # i
    BY <1>3, <2>3 DEF Handed, IInv, CountInv, Settled, Within
  <2> QED BY <2>2, <2>3
<1> QED BY <1>2, <1>3, <1>5, <1>8 DEF ResponseInv

\* A chunk with a permit makes another call.
LEMMA CallKeeps ==
    ASSUME IInv, NEW i \in Chunk(Holding), NEW s \in Calling, NEW k \in {1, 2},
           ~cancelling, Call(i, s), try' = [try EXCEPT ![i] = k],
           UNCHANGED <<inputs, pc, permits, queue, cancelling, response>>,
           Within(s, k, calls[i] + 1)
    PROVE  QueueInv' /\ PhaseInv' /\ CountInv' /\ ResponseInv'
<1>1. i \in Chunks /\ i # 0 /\ task[i] \in Holding /\ Chunks' = Chunks /\ Tasks' = Tasks
      /\ Tasks = {0} \union Chunks /\ 0 \notin Chunks
  BY DEF Chunk, Chunks, Tasks, inputs
<1>2. pc = "gather" /\ pc' = "gather"
  BY <1>1, HoldingGathered
<1>3. /\ task'[i] = s /\ \A t \in Tasks \ {i} : task'[t] = task[t]
      /\ calls'[i] = calls[i] + 1 /\ \A t \in Tasks \ {i} : calls'[t] = calls[t]
      /\ try'[i] = k /\ \A t \in Tasks \ {i} : try'[t] = try[t]
  BY <1>1 DEF Call, IInv, TypeOK
<1>4. QueueInv'
  BY <1>1, <1>3, QueueUntouched DEF IInv, Holding, Calling, inputs
<1>5. PhaseInv'
  <2>1. \A j \in Chunks : task[j] # "ready"
    BY <1>1 DEF IInv, PhaseInv, Holding, Calling
  <2>2. plan' = plan /\ cancelling' = cancelling
    BY DEF inputs
  <2> QED BY <1>1, <1>2, <1>3, <2>1, <2>2 DEF IInv, PhaseInv, Holding, Calling, Settled
<1>6. CountInv'
  <2> SUFFICES ASSUME NEW j \in Chunks
      PROVE /\ task'[j] \in {"new", "ready", "waiting", "granted"} => try'[j] = 1 /\ calls'[j] = 0
            /\ Within(task'[j], try'[j], calls'[j])
            /\ task'[j] \in Settled => calls'[j] <= 4
            /\ task'[j] = "failed" => try'[j] = 2 /\ calls'[j] >= 2
    BY <1>1, <1>3 DEF IInv, CountInv
  <2>1. CASE j = i
    BY <1>3, <2>1 DEF Settled, Calling
  <2>2. CASE j # i
    BY <1>1, <1>3, <2>2 DEF IInv, CountInv
  <2> QED BY <2>1, <2>2
<1> QED BY <1>2, <1>4, <1>5, <1>6 DEF ResponseInv

\* The request's own task moves: the chunks and the semaphore do not.
LEMMA OwnMoves ==
    ASSUME TypeOK, QueueInv, NEW s, task' = [task EXCEPT ![0] = s],
           UNCHANGED <<plan, permits, queue, cancelling>>
    PROVE  QueueInv' /\ task'[0] = s /\ \A i \in Chunks : task'[i] = task[i]
<1>1. task'[0] = s /\ \A i \in Chunks : task'[i] = task[i]
  BY DEF TypeOK, Tasks, Chunks
<1> QED BY <1>1, QueueUntouched

-------------------------------------------------------------------------------
(* Every step keeps the types.                                              *)

LEMMA InitType == Init => TypeOK
<1> SUFFICES ASSUME Init PROVE TypeOK
  OBVIOUS
<1>1. permits \in 0..Concurrency
  BY ConcurrencyAssumption DEF Init
<1>2. task \in [Tasks -> {"new"} \union Idle \union Holding \union Settled]
  BY DEF Init
<1>3. rows \in [Tasks -> Answers \union {<<>>}] /\ queue \in Seq(Chunks)
  BY DEF Init
<1> QED BY <1>1, <1>2, <1>3 DEF Init, TypeOK

\* Plans, chunks and tasks do not change.
LEMMA ChunksFixed ==
    ASSUME UNCHANGED inputs
    PROVE  plan' = plan /\ hasSummary' = hasSummary /\ allowPartial' = allowPartial
           /\ Chunks' = Chunks /\ Tasks' = Tasks
BY DEF inputs, Chunks, Tasks

LEMMA TaskSets ==
    /\ Tasks = {0} \union Chunks /\ 0 \notin Chunks /\ 0 \in Tasks
    /\ \A i \in Chunks : i \in Tasks /\ i # 0
BY DEF Tasks, Chunks

-------------------------------------------------------------------------------
(* The request's own task.                                                  *)

LEMMA InitInv == Init => IInv
<1> SUFFICES ASSUME Init PROVE IInv
  OBVIOUS
<1>1. TypeOK
  BY InitType
<1>2. Chunk(Holding) = {}
  BY TaskSets DEF Init, Chunk, Holding, Calling
<1>3. QueueInv
  <2>1. permits + Cardinality(Chunk(Holding)) = Concurrency
    BY <1>2, FS_EmptySet, ConcurrencyAssumption DEF Init
  <2>2. Len(queue) = 0 /\ Len(plan) \in Nat
    BY <1>1, PlanLength DEF Init
  <2> QED BY <2>1, <2>2, TaskSets DEF QueueInv, Init, Chunks
<1>4. PhaseInv /\ CountInv /\ ResponseInv
  BY TaskSets DEF Init, PhaseInv, CountInv, ResponseInv, Settled, Calling, Within
<1> QED BY <1>1, <1>3, <1>4 DEF IInv

LEMMA BeginKeeps == ASSUME IInv, BeginSingle \/ BeginChunks PROVE IInv'
<1>1. pc = "begin" /\ (\A t \in Tasks : task[t] = "new") /\ ~cancelling /\ calls[0] = 0
  BY TaskSets DEF IInv, PhaseInv, CountInv, BeginSingle, BeginChunks
<1>2. plan' = plan /\ Chunks' = Chunks /\ Tasks' = Tasks /\ hasSummary' = hasSummary
      /\ allowPartial' = allowPartial /\ UNCHANGED <<permits, queue, cancelling, try, rows, recorded>>
  BY ChunksFixed DEF BeginSingle, BeginChunks
<1>3. CASE BeginSingle
  <2>1. plan = <<>> /\ Chunks = {} /\ pc' = "own"
    BY <1>3, PlanLength DEF BeginSingle, Chunks, IInv
  <2>2. task' = [task EXCEPT ![0] = "first"] /\ calls' = [calls EXCEPT ![0] = @ + 1]
    BY <1>3 DEF BeginSingle, Call
  <2>3. QueueInv' /\ task'[0] = "first"
    BY <1>2, <2>2, OwnMoves DEF IInv
  <2>4. TypeOK'
    <3>1. "first" \in Holding /\ 0 \in Tasks
      BY TaskSets DEF Holding, Calling
    <3>2. task' \in [Tasks -> {"new"} \union Idle \union Holding \union Settled]
      BY <2>2, <3>1 DEF IInv, TypeOK
    <3>3. calls' \in [Tasks -> Nat]
      BY <2>2, <3>1 DEF IInv, TypeOK
    <3> QED BY <1>2, <2>1, <3>2, <3>3 DEF IInv, TypeOK
  <2>5. calls'[0] = 1
    BY <1>1, <2>2, TaskSets DEF IInv, TypeOK
  <2>6. PhaseInv' /\ CountInv' /\ ResponseInv'
    BY <1>1, <1>2, <2>1, <2>3, <2>5, TaskSets
    DEF PhaseInv, CountInv, ResponseInv, Settled, Calling, IInv
  <2> QED BY <2>3, <2>4, <2>6 DEF IInv
<1>4. CASE BeginChunks
  <2>1. plan # <<>> /\ pc' = "gather" /\ task'[0] = "new" /\ (\A i \in Chunks : task'[i] = "ready")
        /\ UNCHANGED <<calls, response>>
    BY <1>4, TaskSets DEF BeginChunks
  <2>2. task' \in [Tasks -> {"new"} \union Idle \union Holding \union Settled]
    BY <1>4 DEF BeginChunks, Idle
  <2>3. TypeOK'
    BY <1>2, <2>1, <2>2 DEF IInv, TypeOK
  <2>4. QueueInv'
    BY <1>1, <1>2, <2>1, TaskSets, QueueUntouched DEF IInv, Holding, Calling
  <2>5. PhaseInv' /\ ResponseInv'
    BY <1>1, <1>2, <2>1, TaskSets DEF PhaseInv, ResponseInv, Settled, Calling
  <2>6. CountInv'
    BY <1>1, <1>2, <2>1, TaskSets DEF IInv, CountInv, Settled, Within
  <2> QED BY <2>3, <2>4, <2>5, <2>6 DEF IInv
<1> QED BY <1>3, <1>4

LEMMA StartKeeps == ASSUME IInv, StartChunks PROVE IInv'
<1>1. pc = "gather" /\ pc' = "gather" /\ ~cancelling /\ (\A i \in Chunks : task[i] = "ready")
      /\ task[0] = "new" /\ plan # <<>>
  BY DEF StartChunks, IInv, PhaseInv
<1>2. plan' = plan /\ Chunks' = Chunks /\ Tasks' = Tasks /\ hasSummary' = hasSummary
      /\ allowPartial' = allowPartial /\ UNCHANGED <<cancelling, try, rows, recorded, response>>
  BY ChunksFixed DEF StartChunks
<1>3. Len(plan) \in Nat /\ Concurrency \in Nat /\ First \in Nat /\ First <= Len(plan)
      /\ First <= Concurrency /\ (First < Concurrency => First = Len(plan))
  BY PlanLength, ConcurrencyAssumption DEF IInv, First
<1>4. Chunk(Holding) = {} /\ permits = Concurrency
  <2>1. Chunk(Holding) = {}
    BY <1>1 DEF Chunk, Holding, Calling
  <2> QED BY <2>1, <1>3, FS_EmptySet DEF IInv, QueueInv, TypeOK
<1>5. /\ task'[0] = "new"
      /\ \A i \in Chunks : task'[i] = IF i <= First THEN "first" ELSE "waiting"
      /\ \A i \in Chunks : calls'[i] = IF i <= First THEN 1 ELSE calls[i]
      /\ calls'[0] = calls[0]
  BY <1>1, <1>3, TaskSets DEF StartChunks, Chunks
<1>6. queue' = [n \in 1 .. Len(plan) - First |-> n + First] /\ permits' = Concurrency - First
  BY <1>4 DEF StartChunks
<1>7. queue' \in Seq(Chunks) /\ Len(queue') = Len(plan) - First
      /\ \A n \in 1..Len(queue') : queue'[n] = n + First
  BY <1>3, <1>6 DEF Chunks
<1>8. Chunk(Holding)' = 1..First
  BY <1>2, <1>3, <1>5 DEF Chunk, Holding, Calling, Chunks
<1>9. QueueInv'
  <2>1. permits' + Cardinality(Chunk(Holding)') = Concurrency
    <3>1. Cardinality(1..First) = First
      BY <1>3, FS_Interval
    <3> QED BY <1>3, <1>6, <1>8, <3>1
  <2>2. permits' > 0 => queue' = <<>>
    BY <1>3, <1>6
  <2>3. \A i \in Chunks : task'[i] = "waiting" <=> i > Len(plan) - Len(queue')
    BY <1>3, <1>5, <1>7 DEF Chunks
  <2> QED BY <1>1, <1>2, <1>3, <1>7, <2>1, <2>2, <2>3 DEF QueueInv
<1>10. TypeOK'
  <2>1. task' \in [Tasks -> {"new"} \union Idle \union Holding \union Settled]
    BY <1>1 DEF StartChunks, Idle, Holding, Calling
  <2>2. calls' \in [Tasks -> Nat]
    BY DEF StartChunks, IInv, TypeOK
  <2>3. permits' \in 0..Concurrency
    BY <1>3, <1>6
  <2> QED BY <1>1, <1>2, <1>7, <2>1, <2>2, <2>3 DEF IInv, TypeOK
<1>11. PhaseInv' /\ ResponseInv'
  BY <1>1, <1>2, <1>5, TaskSets DEF PhaseInv, ResponseInv, Calling, Settled
<1>12. CountInv'
  BY <1>1, <1>2, <1>5, TaskSets DEF IInv, CountInv, Settled, Within
<1> QED BY <1>9, <1>10, <1>11, <1>12 DEF IInv

\* Where the request's own task goes, and in which state.
OwnTo(s) ==
    /\ \/ pc' = "own" /\ s \in Calling
       \/ pc' = "assemble" /\ s = "done"
       \/ pc' = "assemble" /\ plan # <<>> /\ ~hasSummary /\ s = "new"
       \/ pc' = "failed" /\ s = "failed"
    /\ s = "new" => calls'[0] = 0
    /\ s = "first" => calls'[0] = 1
    /\ calls'[0] <= 2

\* The request's own task makes a call or ends, the chunks being settled.
LEMMA OwnKeeps ==
    ASSUME IInv, UNCHANGED <<inputs, try, permits, queue, cancelling>>, TypeOK', ~cancelling,
           \A i \in Chunks : task[i] \in Settled /\ calls'[i] = calls[i],
           NEW s, task' = [task EXCEPT ![0] = s], OwnTo(s)
    PROVE  IInv'
<1>1. QueueInv' /\ task'[0] = s /\ \A i \in Chunks : task'[i] = task[i]
  BY OwnMoves, ChunksFixed DEF IInv
<1>2. plan' = plan /\ hasSummary' = hasSummary /\ Chunks' = Chunks /\ Tasks' = Tasks
  BY ChunksFixed
<1>3. pc' \in {"own", "assemble", "failed"} /\ task'[0] \in {"new"} \union Calling \union Settled
      /\ task'[0] # "cancelled"
  BY <1>1 DEF OwnTo, IInv, PhaseInv, Calling, Settled, TypeOK
<1>4. PhaseInv' /\ ResponseInv'
  <2>1. \A i \in Chunks : task'[i] \in Settled /\ task'[i] # "ready" /\ task'[i] # "cancelled"
    BY <1>1, TaskSets DEF IInv, PhaseInv, Settled
  <2>2. pc' = "own" <=> task'[0] \in Calling
    BY <1>1 DEF OwnTo, Calling
  <2>3. pc' = "assemble" /\ (plan = <<>> \/ hasSummary) => task'[0] = "done"
    BY <1>1 DEF OwnTo
  <2> QED BY <1>2, <1>3, <2>1, <2>2, <2>3, TaskSets DEF PhaseInv, ResponseInv
<1>5. CountInv'
  BY <1>1, <1>2, TaskSets DEF OwnTo, IInv, CountInv, Within
<1> QED BY <1>1, <1>4, <1>5 DEF IInv

LEMMA GatheredKeeps == ASSUME IInv, Gathered PROVE IInv'
<1>1. pc = "gather" /\ ~cancelling /\ (\A i \in Chunks : task[i] \in Settled)
      /\ task[0] = "new" /\ plan # <<>> /\ calls[0] = 0
  BY DEF Gathered, IInv, PhaseInv, CountInv
<1>2. UNCHANGED <<inputs, try, rows, permits, queue, cancelling, recorded>>
  BY DEF Gathered
<1>3. CASE hasSummary
  <2>1. pc' = "own" /\ task' = [task EXCEPT ![0] = "first"] /\ calls' = [calls EXCEPT ![0] = @ + 1]
    BY <1>3 DEF Gathered, Call
  <2>2. task' \in [Tasks -> {"new"} \union Idle \union Holding \union Settled]
        /\ calls' \in [Tasks -> Nat] /\ calls'[0] = 1 /\ \A i \in Chunks : calls'[i] = calls[i]
    BY <1>1, <2>1, TaskSets DEF IInv, TypeOK, Holding, Calling
  <2>3. TypeOK'
    BY <1>2, <2>1, <2>2, ChunksFixed DEF IInv, TypeOK
  <2>4. OwnTo("first")
    BY <2>1, <2>2 DEF OwnTo, Calling
  <2> QED BY <1>1, <1>2, <2>1, <2>2, <2>3, <2>4, OwnKeeps
<1>4. CASE ~hasSummary
  <2>1. pc' = "assemble" /\ UNCHANGED <<task, calls>>
    BY <1>4 DEF Gathered
  <2>2. TypeOK' /\ task' = [task EXCEPT ![0] = "new"]
    BY <1>1, <1>2, <2>1, ChunksFixed DEF IInv, TypeOK
  <2>3. OwnTo("new")
    BY <1>1, <1>4, <2>1 DEF OwnTo
  <2>4. \A i \in Chunks : task[i] \in Settled /\ calls'[i] = calls[i]
    BY <1>1, <2>1
  <2> QED BY <1>1, <1>2, <2>2, <2>3, <2>4, OwnKeeps
<1> QED BY <1>3, <1>4

LEMMA AssembleKeeps == ASSUME IInv, Assemble PROVE IInv'
<1>1. UNCHANGED <<inputs, task, try, rows, permits, queue, cancelling, calls, recorded>>
      /\ pc = "assemble" /\ pc' \in {"returned", "failed"}
      /\ (pc' = "returned" => ~Refused /\ response'.failed = Failures)
  BY DEF Assemble
<1>2. plan' = plan /\ Chunks' = Chunks /\ Tasks' = Tasks /\ hasSummary' = hasSummary
      /\ allowPartial' = allowPartial
  BY <1>1, ChunksFixed
<1>3. TypeOK'
  BY <1>1, <1>2 DEF IInv, TypeOK, Ended
<1>4. QueueInv'
  BY <1>1, <1>2, QueueUntouched DEF IInv
<1>5. PhaseInv' /\ CountInv'
  BY <1>1, <1>2 DEF IInv, PhaseInv, CountInv
<1>6. ResponseInv'
  BY <1>1, <1>2 DEF IInv, PhaseInv, ResponseInv, Refused, Failures
<1> QED BY <1>3, <1>4, <1>5, <1>6 DEF IInv

-------------------------------------------------------------------------------
(* Completions.                                                             *)

LEMMA AcquireKeeps == ASSUME IInv, NEW i \in Chunks, Acquire(i) PROVE IInv'
<1>1. task[i] = "granted" /\ ~cancelling /\ Call(i, "first") /\ i \in Chunk(Holding)
      /\ UNCHANGED <<inputs, pc, try, rows, permits, queue, cancelling, recorded, response>>
  BY DEF Acquire, Chunk, Holding
<1>2. try[i] = 1 /\ calls[i] = 0 /\ try' = [try EXCEPT ![i] = 1]
  BY <1>1, TaskSets DEF IInv, CountInv, TypeOK
<1>3. QueueInv' /\ PhaseInv' /\ CountInv' /\ ResponseInv'
  <2>1. "first" \in Calling /\ 1 \in {1, 2} /\ Within("first", 1, calls[i] + 1)
    BY <1>2 DEF Calling, Within
  <2> QED BY <1>1, <1>2, <2>1, CallKeeps
<1>4. task' \in [Tasks -> {"new"} \union Idle \union Holding \union Settled]
      /\ calls' \in [Tasks -> Nat]
  BY <1>1, TaskSets DEF IInv, TypeOK, Call, Holding, Calling
<1>5. TypeOK'
  BY <1>1, <1>4, ChunksFixed DEF IInv, TypeOK
<1> QED BY <1>3, <1>5 DEF IInv

\* complete() raised, or the second answer was rejected.
LEMMA RaisedKeeps ==
    ASSUME IInv, NEW t \in Tasks, task[t] \in Calling, ~cancelling, Raised(t),
           UNCHANGED <<inputs, rows, cancelling, response>>, recorded' \in [Tasks -> Nat]
    PROVE  IInv'
<1>1. Chunks' = Chunks /\ Tasks' = Tasks /\ plan' = plan /\ hasSummary' = hasSummary
      /\ allowPartial' = allowPartial
  BY ChunksFixed
<1>2. CASE t # 0
  <2>1. t \in Chunks /\ t \in Chunk(Holding) /\ try[t] \in {1, 2} /\ calls[t] \in Nat
    BY <1>2, TaskSets DEF IInv, TypeOK, Chunk, Holding
  <2>2. pc' = pc
    BY <1>2 DEF Raised
  <2>3. CASE try[t] = 1
    <3>1. Call(t, "first") /\ try' = [try EXCEPT ![t] = 2] /\ UNCHANGED <<pc, permits, queue>>
      BY <1>2, <2>3 DEF Raised
    <3>2. calls[t] \in {1, 2}
      BY <2>1, <2>3 DEF IInv, CountInv, Calling, Within
    <3>3. QueueInv' /\ PhaseInv' /\ CountInv' /\ ResponseInv'
      <4>1. "first" \in Calling /\ 2 \in {1, 2} /\ Within("first", 2, calls[t] + 1)
        BY <3>2 DEF Calling, Within
      <4> QED BY <2>1, <3>1, <4>1, CallKeeps
    <3>4. task' \in [Tasks -> {"new"} \union Idle \union Holding \union Settled]
          /\ calls' \in [Tasks -> Nat] /\ try' \in [Tasks -> {1, 2}]
      <4>1. /\ task \in [Tasks -> {"new"} \union Idle \union Holding \union Settled]
            /\ calls \in [Tasks -> Nat] /\ try \in [Tasks -> {1, 2}]
            /\ calls[t] + 1 \in Nat /\ "first" \in Holding
        BY <3>2 DEF IInv, TypeOK, Holding, Calling
      <4> QED
        BY <3>1, <4>1 DEF Call
    <3>5. TypeOK'
      BY <1>1, <3>1, <3>4, SMTT(30) DEF IInv, TypeOK, inputs
    <3> QED BY <3>3, <3>5 DEF IInv
  <2>4. CASE try[t] # 1
    <3>1. Release(t, "failed") /\ UNCHANGED <<pc, try, calls>> /\ try[t] = 2
      BY <1>2, <2>1, <2>4 DEF Raised, Leave
    <3>2. QueueInv' /\ PhaseInv' /\ CountInv' /\ ResponseInv' /\ Handed(t, "failed")
      BY <2>1, <3>1, SettleKeeps DEF Settled
    <3>3. TypeOK'
      BY <1>1, <3>1, <3>2 DEF IInv, TypeOK, Handed, inputs
    <3> QED BY <3>2, <3>3 DEF IInv
  <2> QED BY <2>3, <2>4
<1>3. CASE t = 0
  <2>1. task' = [task EXCEPT ![0] = "failed"] /\ pc' = "failed"
        /\ UNCHANGED <<permits, queue, try, calls>>
    BY <1>3 DEF Raised, Leave
  <2>2. task' \in [Tasks -> {"new"} \union Idle \union Holding \union Settled]
    BY <2>1 DEF IInv, TypeOK, Settled
  <2>3. TypeOK'
    BY <1>1, <2>1, <2>2 DEF IInv, TypeOK, Ended, inputs
  <2>4. pc \notin {"begin", "gather"}
    BY <1>3 DEF IInv, PhaseInv, Calling
  <2>5. \A i \in Chunks : task[i] \in Settled /\ calls'[i] = calls[i]
    BY <2>1, <2>4 DEF IInv, PhaseInv
  <2>6. OwnTo("failed")
    BY <2>1 DEF OwnTo, IInv, CountInv
  <2> QED BY <2>1, <2>3, <2>5, <2>6, OwnKeeps
<1> QED BY <1>2, <1>3

LEMMA RecordType ==
    ASSUME IInv, NEW t \in Tasks, Record(t)
    PROVE  recorded' \in [Tasks -> Nat]
BY DEF IInv, TypeOK, Record

LEMMA AnswerValidKeeps == ASSUME IInv, NEW t \in Tasks, AnswerValid(t) PROVE IInv'
<1>1. task[t] \in Calling /\ ~cancelling /\ Leave(t, "done") /\ recorded' \in [Tasks -> Nat]
      /\ UNCHANGED <<inputs, try, cancelling, calls, response>>
  BY RecordType DEF AnswerValid
<1>2. Chunks' = Chunks /\ Tasks' = Tasks /\ plan' = plan /\ hasSummary' = hasSummary
      /\ allowPartial' = allowPartial
  BY <1>1, ChunksFixed
<1>3. CASE t # 0
  <2>1. t \in Chunk(Holding) /\ Release(t, "done") /\ pc' = pc
    BY <1>1, <1>3, TaskSets DEF AnswerValid, Leave, Chunk, Holding
  <2>2. rows' \in [Tasks -> Answers \union {<<>>}]
    BY <1>3 DEF AnswerValid, IInv, TypeOK
  <2>3. QueueInv' /\ PhaseInv' /\ CountInv' /\ ResponseInv' /\ Handed(t, "done")
    <3>1. "done" \in Settled /\ "done" # "cancelled" /\ "done" # "failed"
      BY DEF Settled
    <3> QED BY <1>1, <2>1, <3>1, SettleKeeps
  <2>4. TypeOK'
    BY <1>1, <1>2, <2>1, <2>2, <2>3 DEF IInv, TypeOK, Handed
  <2> QED BY <2>3, <2>4 DEF IInv
<1>4. CASE t = 0
  <2>1. /\ task' = [task EXCEPT ![0] = "done"] /\ pc' = "assemble"
        /\ UNCHANGED <<permits, queue, rows>>
    BY <1>1, <1>4 DEF AnswerValid, Leave
  <2>2. task' \in [Tasks -> {"new"} \union Idle \union Holding \union Settled]
    BY <2>1, TaskSets DEF IInv, TypeOK, Settled
  <2>3. TypeOK'
    BY <1>1, <1>2, <2>1, <2>2 DEF IInv, TypeOK
  <2>4. pc \notin {"begin", "gather"}
    BY <1>1, <1>4 DEF IInv, PhaseInv, Calling
  <2>5. \A i \in Chunks : task[i] \in Settled /\ calls'[i] = calls[i]
    BY <1>1, <2>4 DEF IInv, PhaseInv
  <2>6. OwnTo("done")
    BY <1>1, <2>1 DEF OwnTo, IInv, CountInv
  <2> QED BY <1>1, <2>1, <2>3, <2>5, <2>6, OwnKeeps
<1> QED BY <1>3, <1>4

LEMMA AnswerInvalidKeeps == ASSUME IInv, NEW t \in Tasks, AnswerInvalid(t) PROVE IInv'
<1>1. task[t] \in Calling /\ ~cancelling /\ recorded' \in [Tasks -> Nat]
      /\ UNCHANGED <<inputs, rows, cancelling, response>>
  BY RecordType DEF AnswerInvalid
<1>2. CASE task[t] # "first"
  BY <1>1, <1>2, RaisedKeeps DEF AnswerInvalid
<1>3. CASE task[t] = "first"
  <2>1. Call(t, "second") /\ UNCHANGED <<pc, try, permits, queue>>
    BY <1>3 DEF AnswerInvalid
  <2>2. "second" \in Holding /\ "second" \in Calling
    BY DEF Holding, Calling
  <2>3. task' \in [Tasks -> {"new"} \union Idle \union Holding \union Settled]
        /\ calls' \in [Tasks -> Nat]
    BY <2>1, <2>2 DEF IInv, TypeOK, Call
  <2>4. TypeOK'
    BY <1>1, <2>1, <2>3, ChunksFixed DEF IInv, TypeOK
  <2>5. CASE t # 0
    <3>1. t \in Chunk(Holding) /\ try[t] \in {1, 2} /\ try' = [try EXCEPT ![t] = try[t]]
          /\ calls[t] \in Nat
      BY <1>3, <2>1, <2>5, TaskSets DEF IInv, TypeOK, Chunk, Holding, Calling
    <3>2. Within("second", try[t], calls[t] + 1)
      BY <1>3, <2>5, <3>1, TaskSets DEF IInv, CountInv, Within
    <3>3. QueueInv' /\ PhaseInv' /\ CountInv' /\ ResponseInv'
      BY <1>1, <2>1, <2>2, <3>1, <3>2, CallKeeps
    <3> QED BY <2>4, <3>3 DEF IInv
  <2>6. CASE t = 0
    <3>1. task' = [task EXCEPT ![0] = "second"] /\ calls'[0] = 2
          /\ \A i \in Chunks : calls'[i] = calls[i]
      BY <1>3, <2>1, <2>6, TaskSets DEF IInv, TypeOK, CountInv, Call
    <3>2. pc = "own" /\ pc' = "own"
      BY <1>3, <2>1, <2>6 DEF IInv, PhaseInv, Calling
    <3>3. OwnTo("second")
      BY <3>1, <3>2 DEF OwnTo, Calling
    <3>4. \A i \in Chunks : task[i] \in Settled /\ calls'[i] = calls[i]
      BY <3>1, <3>2 DEF IInv, PhaseInv
    <3> QED BY <1>1, <2>1, <2>4, <3>1, <3>3, <3>4, OwnKeeps
  <2> QED BY <2>5, <2>6
<1> QED BY <1>2, <1>3

LEMMA CallFailsKeeps == ASSUME IInv, NEW t \in Tasks, CallFails(t) PROVE IInv'
<1>1. recorded' \in [Tasks -> Nat]
  BY DEF CallFails, IInv, TypeOK
<1> QED BY <1>1, RaisedKeeps DEF CallFails

-------------------------------------------------------------------------------
(* Cancellation.                                                            *)

LEMMA CancelKeeps == ASSUME IInv, Cancel PROVE IInv'
<1>1. UNCHANGED <<inputs, pc, task, try, rows, permits, calls, recorded, response>>
      /\ cancelling' /\ cancelling' \in BOOLEAN /\ queue' = <<>> /\ pc \in {"gather", "own"}
  BY DEF Cancel
<1>2. Chunks' = Chunks /\ Tasks' = Tasks /\ plan' = plan
  BY <1>1, ChunksFixed
<1>3. TypeOK'
  BY <1>1, <1>2, ChunksFixed DEF IInv, TypeOK
<1>4. Chunk(Holding)' = Chunk(Holding) /\ Len(plan) \in Nat /\ Len(queue') = 0
  BY <1>1, <1>2, PlanLength DEF Chunk, IInv
<1>5. QueueInv'
  BY <1>1, <1>2, <1>4 DEF IInv, QueueInv
<1>6. PhaseInv' /\ CountInv' /\ ResponseInv'
  BY <1>1, <1>2, ChunksFixed DEF IInv, PhaseInv, CountInv, ResponseInv
<1> QED BY <1>3, <1>5, <1>6 DEF IInv

LEMMA CancelledKeeps == ASSUME IInv, Cancelled PROVE IInv'
<1>1. UNCHANGED <<inputs, task, try, rows, permits, queue, cancelling, calls, recorded, response>>
      /\ pc' = "cancelled" /\ pc \in {"gather", "own"}
      /\ \A t \in Tasks : task[t] \in Settled \union {"new"}
  BY DEF Cancelled
<1>2. Chunks' = Chunks /\ Tasks' = Tasks /\ plan' = plan
  BY <1>1, ChunksFixed
<1>3. TypeOK'
  BY <1>1, <1>2, ChunksFixed DEF IInv, TypeOK, Ended
<1>4. QueueInv'
  BY <1>1, <1>2, QueueUntouched DEF IInv
<1>5. \A i \in Chunks : task[i] \in Settled
  BY <1>1, TaskSets DEF IInv, PhaseInv
<1>6. task[0] \notin Calling
  BY <1>1, TaskSets DEF Settled, Calling
<1>7. PhaseInv' /\ CountInv' /\ ResponseInv'
  BY <1>1, <1>2, <1>5, <1>6, ChunksFixed DEF IInv, PhaseInv, CountInv, ResponseInv
<1> QED BY <1>3, <1>4, <1>7 DEF IInv

LEMMA UnwindKeeps == ASSUME IInv, NEW t \in Tasks, Unwind(t) PROVE IInv'
<1>1. cancelling /\ UNCHANGED <<inputs, pc, try, rows, cancelling, calls, recorded, response>>
  BY DEF Unwind
<1>2. Chunks' = Chunks /\ Tasks' = Tasks /\ plan' = plan /\ hasSummary' = hasSummary
      /\ allowPartial' = allowPartial
  BY <1>1, ChunksFixed
<1>3. CASE task[t] \in Holding /\ t # 0
  <2>1. t \in Chunk(Holding) /\ Release(t, "cancelled")
    BY <1>3, TaskSets DEF Unwind, Leave, Chunk, Holding, Idle, Calling
  <2>2. "cancelled" \in Settled /\ "cancelled" # "failed"
    BY DEF Settled
  <2>3. QueueInv' /\ PhaseInv' /\ CountInv' /\ ResponseInv' /\ Handed(t, "cancelled")
    BY <1>1, <2>1, <2>2, SettleKeeps
  <2>4. TypeOK'
    BY <1>1, <1>2, <2>3 DEF IInv, TypeOK, Handed
  <2> QED BY <2>3, <2>4 DEF IInv
<1>4. CASE ~(task[t] \in Holding /\ t # 0)
  <2>1. task' = [task EXCEPT ![t] = "cancelled"] /\ UNCHANGED <<permits, queue>>
        /\ task[t] \notin Settled /\ (t # 0 => task[t] \in Idle)
    BY <1>4 DEF Unwind, Leave, Idle, Holding, Calling, Settled
  <2>2. "cancelled" \in Settled
    BY DEF Settled
  <2>3. task' \in [Tasks -> {"new"} \union Idle \union Holding \union Settled]
    BY <2>1, <2>2 DEF IInv, TypeOK
  <2>4. TypeOK'
    BY <1>1, <1>2, <2>1, <2>3 DEF IInv, TypeOK
  <2>5. /\ task'[t] = "cancelled" /\ \A u \in Tasks \ {t} : task'[u] = task[u]
        /\ t # 0 => calls[t] = 0 /\ pc = "gather" /\ t \in Chunks
        /\ t = 0 => pc = "own"
    <3>1. task'[t] = "cancelled" /\ \A u \in Tasks \ {t} : task'[u] = task[u]
      BY <2>1 DEF IInv, TypeOK
    <3>2. t # 0 => calls[t] = 0 /\ pc = "gather" /\ t \in Chunks
      BY <2>1, TaskSets, HoldingGathered DEF IInv, CountInv, Idle
    <3>3. t = 0 => pc = "own"
      BY <2>1, <2>2 DEF Unwind, IInv, PhaseInv, Idle, Holding, Settled, Calling
    <3> QED BY <3>1, <3>2, <3>3
  <2>6. QueueInv'
    <3>1. \A i \in Chunks : task[i] \in Holding <=> task'[i] \in Holding
      BY <1>4, <2>5, TaskSets DEF Holding, Calling
    <3>2. Chunk(Holding)' = Chunk(Holding)
      BY <1>2, <3>1 DEF Chunk, Holding, Calling
    <3> QED BY <1>1, <1>2, <2>1, <3>2 DEF IInv, QueueInv
  <2>7. PhaseInv' /\ ResponseInv'
    BY <1>1, <1>2, <2>5, TaskSets DEF IInv, PhaseInv, ResponseInv, Settled, Calling
  <2>8. CountInv'
    <3> SUFFICES ASSUME NEW j \in Chunks
        PROVE /\ task'[j] \in {"new", "ready", "waiting", "granted"} => try[j] = 1 /\ calls[j] = 0
              /\ Within(task'[j], try[j], calls[j])
              /\ task'[j] \in Settled => calls[j] <= 4
              /\ task'[j] = "failed" => try[j] = 2 /\ calls[j] >= 2
      BY <1>1, <1>2, <2>5, TaskSets DEF IInv, CountInv
    <3>1. CASE j = t
      BY <2>5, <3>1, TaskSets DEF Within
    <3>2. CASE j # t
      BY <2>5, <3>2, TaskSets DEF IInv, CountInv
    <3> QED BY <3>1, <3>2
  <2> QED BY <2>4, <2>6, <2>7, <2>8 DEF IInv
<1> QED BY <1>3, <1>4

LEMMA NextKeeps == ASSUME IInv, [Next]_vars PROVE IInv'
<1>1. CASE UNCHANGED vars
  <2>1. Chunks' = Chunks /\ Tasks' = Tasks /\ Chunk(Holding)' = Chunk(Holding)
    BY <1>1 DEF vars, inputs, Chunks, Tasks, Chunk
  <2> QED BY <1>1, <2>1
          DEF vars, inputs, IInv, TypeOK, QueueInv, PhaseInv, CountInv, ResponseInv, Failures
<1>2. CASE Next
  <2> USE <1>2
  <2>1. CASE BeginSingle \/ BeginChunks
    BY <2>1, BeginKeeps
  <2>2. CASE StartChunks
    BY <2>2, StartKeeps
  <2>3. CASE Gathered
    BY <2>3, GatheredKeeps
  <2>4. CASE Assemble
    BY <2>4, AssembleKeeps
  <2>5. CASE Cancelled
    BY <2>5, CancelledKeeps
  <2>6. CASE Cancel
    BY <2>6, CancelKeeps
  <2>7. CASE \E t \in Tasks : AnswerValid(t) \/ AnswerInvalid(t) \/ CallFails(t) \/ Unwind(t)
    BY <2>7, AnswerValidKeeps, AnswerInvalidKeeps, CallFailsKeeps, UnwindKeeps
  <2>8. CASE \E i \in Chunks : Acquire(i)
    BY <2>8, AcquireKeeps
  <2> QED BY <2>1, <2>2, <2>3, <2>4, <2>5, <2>6, <2>7, <2>8 DEF Next, Progress
<1> QED BY <1>1, <1>2

-------------------------------------------------------------------------------
(* Induction over the passes of a loop.                                     *)

\* A set of numbers that is not empty has a least one.
LEMMA LeastNumber ==
    ASSUME NEW S \in SUBSET Nat, S # {}
    PROVE  \E m \in S : \A k \in S : m <= k
<1>1. \E m \in S : \A k \in S : ~(<<k, m>> \in OpToRel(<, Nat))
  BY NatLessThanWellFounded, WFMin
<1>2. OpToRel(<, Nat) = {ss \in Nat \X Nat : ss[1] < ss[2]}
  BY Zenon DEF OpToRel
<1>3. \A k, m \in Nat : k < m => <<k, m>> \in {ss \in Nat \X Nat : ss[1] < ss[2]}
  OBVIOUS
<1>4. PICK m \in S : \A k \in S : ~(<<k, m>> \in OpToRel(<, Nat))
  BY <1>1
<1>5. \A k \in S : ~(k < m)
  BY <1>2, <1>3, <1>4, Zenon
<1>6. \A k \in S : k \in Nat
  OBVIOUS
<1>7. \A k \in S : m <= k
  <2> TAKE k \in S
  <2>1. m \in Nat /\ k \in Nat /\ ~(k < m)
    BY <1>5, <1>6
  <2> QED
    BY <2>1
<1> QED
  BY <1>7

\* Induction, for a set of numbers.
LEMMA NumberInduction ==
    ASSUME NEW S \in SUBSET Nat, 0 \in S, \A n \in S : n + 1 \in S
    PROVE  S = Nat
<1> SUFFICES ASSUME S # Nat PROVE FALSE
  OBVIOUS
<1>1. PICK m \in Nat \ S : \A k \in Nat \ S : m <= k
  BY LeastNumber
<1>2. m # 0 /\ m - 1 \in Nat /\ ~(m <= m - 1)
  BY <1>1
<1>3. m - 1 \in S
  BY <1>1, <1>2
<1>4. (m - 1) + 1 = m
  BY <1>1
<1> QED
  BY <1>1, <1>3, <1>4

\* The runs of a loop of N passes over a value of V: step[v][i] is what pass i
\* makes of v.
Steps(V) == [V -> [Nat -> V]]
Runs(V, N) == [0..N -> V]
IsRun(g, base, step, N) == g[0] = base /\ \A i \in 1..N : g[i] = step[g[i-1]][i]

\* Every loop has a run, so what a recursive function over 0..N says of itself
\* is true of it.
LEMMA RunExists ==
    ASSUME NEW V, NEW base \in V, NEW step \in Steps(V), NEW N \in Nat
    PROVE  \E g \in Runs(V, N) : IsRun(g, base, step, N)
<1>0. step \in [V -> [Nat -> V]]
  BY DEF Steps
<1> DEFINE Good(n, g) == /\ g \in [0..n -> V] /\ g[0] = base
                         /\ \A i \in 1..n : g[i] = step[g[i-1]][i]
           S == {n \in Nat : \E g \in [0..n -> V] : Good(n, g)}
<1>1. 0 \in S
  <2>1. Good(0, [i \in 0..0 |-> base])
    OBVIOUS
  <2> QED
    BY <2>1
<1>2. ASSUME NEW n \in S PROVE n + 1 \in S
  <2>1. PICK g \in [0..n -> V] : Good(n, g)
    BY <1>2
  <2> DEFINE h == [i \in 0..n+1 |-> IF i = n + 1 THEN step[g[n]][n + 1] ELSE g[i]]
  <2>2. n \in Nat /\ n \in 0..n /\ n + 1 \in Nat
    BY <1>2
  <2>3. g[n] \in V
    BY <2>1, <2>2
  <2>4. step[g[n]][n + 1] \in V
    BY <1>0, <2>2, <2>3
  <2>5. h \in [0..n+1 -> V]
    BY <2>1, <2>2, <2>4
  <2>6. h[0] = base
    BY <2>1, <2>2
  <2>7. ASSUME NEW i \in 1..n+1 PROVE h[i] = step[h[i-1]][i]
    <3>1. CASE i = n + 1
      <4>1. i \in 0..n+1 /\ i - 1 = n /\ n \in 0..n+1 /\ n # n + 1
        BY <2>2, <3>1
      <4> QED
        BY <3>1, <4>1
    <3>2. CASE i \in 1..n
      <4>1. i - 1 \in 0..n+1 /\ i - 1 # n + 1 /\ i # n + 1 /\ i \in 0..n+1
        BY <2>2, <3>2
      <4>2. h[i] = g[i] /\ h[i-1] = g[i-1]
        BY <4>1
      <4> QED
        BY <2>1, <3>2, <4>2
    <3> QED
      BY <2>2, <3>1, <3>2
  <2>8. Good(n + 1, h)
    BY <2>5, <2>6, <2>7
  <2> HIDE DEF h
  <2> QED
    BY <2>2, <2>5, <2>8
<1>3. S = Nat
  <2>1. S \in SUBSET Nat
    OBVIOUS
  <2> HIDE DEF S
  <2> QED
    BY <1>1, <1>2, <2>1, NumberInduction
<1>4. PICK g \in [0..N -> V] : Good(N, g)
  BY <1>3
<1> QED
  BY <1>4 DEF Runs, IsRun

\* A function over 0..N that starts in V, and never leaves it, takes its
\* values in V.
LEMMA RunTyped ==
    ASSUME NEW V, NEW N \in Nat, NEW f, f = [i \in 0..N |-> f[i]],
           f[0] \in V, \A i \in 1..N : f[i - 1] \in V => f[i] \in V
    PROVE  f \in Runs(V, N)
<1> DEFINE S == {n \in Nat : n \in 0..N => f[n] \in V}
<1>1. 0 \in S
  OBVIOUS
<1>2. ASSUME NEW n \in S PROVE n + 1 \in S
  <2>1. SUFFICES ASSUME n + 1 \in 0..N PROVE f[n + 1] \in V
    OBVIOUS
  <2>2. n + 1 \in 1..N /\ n \in 0..N /\ (n + 1) - 1 = n
    BY <2>1
  <2>3. f[n] \in V
    BY <2>2
  <2> QED
    BY <2>2, <2>3
<1>3. S \in SUBSET Nat
  OBVIOUS
<1>4. S = Nat
  <2> HIDE DEF S
  <2> QED
    BY <1>1, <1>2, <1>3, NumberInduction
<1>5. \A i \in 0..N : f[i] \in V
  BY <1>4
<1> QED
  BY <1>5 DEF Runs

-------------------------------------------------------------------------------
(* Runs of equal rows.                                                      *)

\* What Destutter keeps of the first n elements of s.
Thinned(s, d) ==
    /\ d \in Runs(Seq(Rows), Len(s))
    /\ d[0] = <<>>
    /\ \A n \in 1..Len(s) :
          d[n] = IF n > 1 /\ s[n] = s[n - 1] THEN d[n - 1] ELSE Append(d[n - 1], s[n])

LEMMA Thinning ==
    ASSUME NEW s \in Seq(Rows)
    PROVE  \E d : Thinned(s, d) /\ Destutter(s) = d[Len(s)]
<1> DEFINE N == Len(s)
           V == Seq(Rows)
           thin(v, i) == IF i > 1 /\ s[i] = s[i - 1] THEN v ELSE Append(v, s[i])
           step == [v \in V |-> [i \in Nat |-> IF i \in 1..N THEN thin(v, i) ELSE v]]
<1>1. \A v \in V, i \in 1..N : thin(v, i) \in V
  OBVIOUS
<1>2. N \in Nat /\ step \in Steps(V) /\ <<>> \in V
  BY <1>1 DEF Steps
<1>3. \A v \in V, i \in 1..N : step[v][i] = thin(v, i)
  OBVIOUS
<1> HIDE DEF step, N, V
<1>4. PICK g \in Runs(V, N) : IsRun(g, <<>>, step, N)
  BY <1>2, RunExists
<1>5. g \in [0..N -> V] /\ g[0] = <<>> /\ \A i \in 1..N : g[i] = thin(g[i - 1], i)
  <2>1. g \in [0..N -> V] /\ g[0] = <<>> /\ \A i \in 1..N : g[i] = step[g[i - 1]][i]
    BY <1>4 DEF Runs, IsRun
  <2>2. \A i \in 1..N : i - 1 \in 0..N
    BY <1>2
  <2> QED
    BY <1>3, <2>1, <2>2
<1>6. g = [i \in 0..N |-> IF i = 0 THEN <<>> ELSE thin(g[i - 1], i)]
  <2>1. g = [i \in 0..N |-> g[i]]
    BY <1>5
  <2>2. \A i \in 0..N : i = 0 \/ i \in 1..N
    BY <1>2
  <2>3. \A i \in 0..N : g[i] = IF i = 0 THEN <<>> ELSE thin(g[i - 1], i)
    <3> HIDE DEF thin
    <3> QED
      BY <1>2, <1>5, <2>2
  <2> QED
    BY <2>1, <2>3
<1>7. \E f : f = [i \in 0..N |-> IF i = 0 THEN <<>> ELSE thin(f[i - 1], i)]
  BY <1>6
<1>8. \E f : /\ f = [i \in 0..N |-> IF i = 0 THEN <<>> ELSE thin(f[i - 1], i)]
             /\ Destutter(s) = f[N]
  BY <1>7 DEF Destutter, N
<1>9. PICK f : /\ f = [i \in 0..N |-> IF i = 0 THEN <<>> ELSE thin(f[i - 1], i)]
               /\ Destutter(s) = f[N]
  BY <1>8
<1>10. f[0] = <<>> /\ \A i \in 1..N : f[i] = thin(f[i - 1], i)
  <2>1. \A i \in 0..N : f[i] = IF i = 0 THEN <<>> ELSE thin(f[i - 1], i)
    BY <1>9, Zenon
  <2>2. 0 \in 0..N /\ \A i \in 1..N : i \in 0..N /\ i # 0
    BY <1>2
  <2> HIDE DEF thin
  <2> QED
    BY <2>1, <2>2
<1>11. f = [i \in 0..N |-> f[i]]
  <2> DEFINE F(i) == IF i = 0 THEN <<>> ELSE thin(f[i - 1], i)
  <2>1. f = [i \in 0..N |-> F(i)]
    BY <1>9, Zenon
  <2> HIDE DEF F
  <2> QED
    BY <2>1
<1>12. f \in Runs(V, N)
  <2>1. \A i \in 1..N : f[i - 1] \in V => f[i] \in V
    BY <1>1, <1>10
  <2> HIDE DEF thin
  <2> QED
    BY <1>2, <1>10, <1>11, <2>1, RunTyped
<1> QED
  BY <1>9, <1>10, <1>12 DEF Thinned, N, V

\* Thinned up to a and b, s and t have the same so far.
Meet(s, d, a, t, e, b) ==
    /\ a = 0 <=> b = 0
    /\ a # 0 => s[a] = t[b]
    /\ d[a] = e[b]

\* From a to p, s goes as t does from b to q.
Agree(s, a, p, t, b, q) ==
    /\ a <= p /\ p <= Len(s) /\ q <= Len(t) /\ p - a = q - b
    /\ \A k \in 1..(p - a) : s[a + k] = t[b + k]

\* Two sequences thinned alike so far are thinned alike as long as they agree.
LEMMA Follow ==
    ASSUME NEW s \in Seq(Rows), NEW t \in Seq(Rows), NEW d, NEW e,
           Thinned(s, d), Thinned(t, e),
           NEW a \in Nat, NEW b \in Nat, NEW p \in Nat, NEW q \in Nat,
           Meet(s, d, a, t, e, b), Agree(s, a, p, t, b, q)
    PROVE  d[p] = e[q]
<1> DEFINE m == p - a
<1>0. /\ m \in Nat /\ a + m <= Len(s) /\ b + m <= Len(t) /\ a + m = p /\ b + m = q
      /\ \A k \in 1..m : s[a + k] = t[b + k]
      /\ a = 0 <=> b = 0
      /\ a # 0 => s[a] = t[b]
      /\ d[a] = e[b]
  BY DEF Meet, Agree
<1> HIDE DEF m
<1> DEFINE S == {k \in Nat : k \in 0..m => d[a + k] = e[b + k]}
<1>1. 0 \in S
  BY <1>0
<1>2. ASSUME NEW k \in S PROVE k + 1 \in S
  <2>1. SUFFICES ASSUME k + 1 \in 0..m PROVE d[a + (k + 1)] = e[b + (k + 1)]
    OBVIOUS
  <2> DEFINE i == a + (k + 1)
             j == b + (k + 1)
  <2>2. /\ i \in 1..Len(s) /\ j \in 1..Len(t) /\ i - 1 = a + k /\ j - 1 = b + k
        /\ k + 1 \in 1..m /\ k \in Nat /\ k \in 0..m
    BY <1>0, <2>1
  <2>3. d[i - 1] = e[j - 1] /\ s[i] = t[j]
    BY <1>0, <2>2
  <2>4. i > 1 <=> j > 1
    BY <1>0, <2>2
  <2>5. i > 1 => s[i - 1] = t[j - 1]
    <3>1. CASE k = 0
      BY <1>0, <2>2, <3>1
    <3>2. CASE k # 0
      <4>1. k \in 1..m
        BY <2>2, <3>2
      <4> QED
        BY <1>0, <2>2, <4>1
    <3> QED
      BY <3>1, <3>2
  <2>6. d[i] = IF i > 1 /\ s[i] = s[i - 1] THEN d[i - 1] ELSE Append(d[i - 1], s[i])
    BY <2>2 DEF Thinned
  <2>7. e[j] = IF j > 1 /\ t[j] = t[j - 1] THEN e[j - 1] ELSE Append(e[j - 1], t[j])
    BY <2>2 DEF Thinned
  <2> HIDE DEF i, j
  <2>8. d[i] = e[j]
    BY <2>3, <2>4, <2>5, <2>6, <2>7
  <2> QED
    BY <2>8 DEF i, j
<1>3. S \in SUBSET Nat
  OBVIOUS
<1>4. S = Nat
  <2> HIDE DEF S
  <2> QED
    BY <1>1, <1>2, <1>3, NumberInduction
<1>5. m \in S
  <2> HIDE DEF S
  <2> QED
    BY <1>0, <1>4
<1> QED
  BY <1>0, <1>5

LEMMA Joined ==
    ASSUME NEW s \in Seq(Rows), NEW u \in Seq(Rows)
    PROVE  /\ s \o u \in Seq(Rows) /\ Len(s \o u) = Len(s) + Len(u)
           /\ Len(s) \in Nat /\ Len(u) \in Nat
           /\ \A k \in 1..Len(s) : (s \o u)[k] = s[k]
           /\ \A k \in 1..Len(u) : (s \o u)[Len(s) + k] = u[k]
  OBVIOUS

\* Two sequences that say the same, but for repeated neighbours, and end alike.
Alike(s, t) ==
    /\ s = <<>> <=> t = <<>>
    /\ s # <<>> => s[Len(s)] = t[Len(t)]
    /\ Destutter(s) = Destutter(t)

\* A sequence is thinned as it grows.
LEMMA ThinnedPrefix ==
    ASSUME NEW s \in Seq(Rows), NEW u \in Seq(Rows), NEW d, Thinned(s \o u, d)
    PROVE  d[Len(s)] = Destutter(s)
<1>1. PICK e : Thinned(s, e) /\ Destutter(s) = e[Len(s)]
  BY Thinning
<1>2. /\ s \o u \in Seq(Rows) /\ Len(s \o u) = Len(s) + Len(u) /\ Len(s) \in Nat /\ Len(u) \in Nat
      /\ \A k \in 1..Len(s) : (s \o u)[k] = s[k]
  BY Joined
<1> DEFINE w == s \o u
<1> HIDE DEF w
<1>3. Meet(w, d, 0, s, e, 0)
  BY <1>1 DEF Meet, Thinned, w
<1>4. Agree(w, 0, Len(s), s, 0, Len(s))
  BY <1>2 DEF Agree, w
<1>5. d[Len(s)] = e[Len(s)]
  <2>1. Thinned(w, d) /\ w \in Seq(Rows) /\ 0 \in Nat
    BY <1>2 DEF w
  <2> QED
    BY <1>1, <1>2, <1>3, <1>4, <2>1, Follow
<1> QED
  BY <1>1, <1>5

\* Alike sequences stay alike when both are extended by the same rows.
LEMMA AlikeExtended ==
    ASSUME NEW s \in Seq(Rows), NEW t \in Seq(Rows), NEW u \in Seq(Rows), Alike(s, t)
    PROVE  Alike(s \o u, t \o u)
<1> DEFINE v == s \o u
           w == t \o u
<1>1. /\ v \in Seq(Rows) /\ Len(v) = Len(s) + Len(u)
      /\ w \in Seq(Rows) /\ Len(w) = Len(t) + Len(u)
      /\ Len(s) \in Nat /\ Len(t) \in Nat /\ Len(u) \in Nat
      /\ \A k \in 1..Len(s) : v[k] = s[k]
      /\ \A k \in 1..Len(t) : w[k] = t[k]
      /\ \A k \in 1..Len(u) : v[Len(s) + k] = u[k] /\ w[Len(t) + k] = u[k]
  BY Joined
<1>2. Len(s) = 0 <=> Len(t) = 0
  BY <1>1 DEF Alike
<1>3. PICK d : Thinned(v, d) /\ Destutter(v) = d[Len(v)]
  BY <1>1, Thinning
<1>4. PICK e : Thinned(w, e) /\ Destutter(w) = e[Len(w)]
  BY <1>1, Thinning
<1>5. d[Len(s)] = e[Len(t)]
  BY <1>3, <1>4, ThinnedPrefix DEF Alike
<1>6. Len(s) # 0 => v[Len(s)] = w[Len(t)]
  BY <1>1, <1>2 DEF Alike
<1> HIDE DEF v, w
<1>7. d[Len(v)] = e[Len(w)]
  <2>1. Meet(v, d, Len(s), w, e, Len(t))
    BY <1>2, <1>5, <1>6 DEF Meet
  <2>2. Agree(v, Len(s), Len(v), w, Len(t), Len(w))
    BY <1>1 DEF Agree
  <2>3. Len(v) \in Nat /\ Len(w) \in Nat
    BY <1>1
  <2> QED
    BY <1>1, <1>3, <1>4, <2>1, <2>2, <2>3, Follow
<1>8. v = <<>> <=> w = <<>>
  BY <1>1, <1>2
<1>9. v # <<>> => v[Len(v)] = w[Len(w)]
  <2>1. CASE Len(u) = 0
    BY <1>1, <1>2, <1>6, <2>1
  <2>2. CASE Len(u) # 0
    BY <1>1, <2>2
  <2> QED
    BY <2>1, <2>2
<1> QED
  BY <1>1, <1>3, <1>4, <1>7, <1>8, <1>9 DEF Alike, v, w

\* A row that repeats the one before it makes no difference.
LEMMA AlikeWithout ==
    ASSUME NEW s \in Seq(Rows), NEW u \in Seq(Rows), s # <<>>, u # <<>>, u[1] = s[Len(s)]
    PROVE  Alike(s \o Tail(u), s \o u)
<1> DEFINE r == Tail(u)
           v == s \o r
           w == s \o u
<1>1. /\ r \in Seq(Rows) /\ Len(r) = Len(u) - 1 /\ Len(r) \in Nat /\ Len(u) \in Nat
      /\ \A k \in 1..Len(r) : r[k] = u[k + 1]
      /\ Len(s) \in Nat \ {0}
  OBVIOUS
<1> HIDE DEF r
<1>2. /\ v \in Seq(Rows) /\ Len(v) = Len(s) + Len(r)
      /\ w \in Seq(Rows) /\ Len(w) = Len(s) + Len(u)
      /\ \A k \in 1..Len(s) : v[k] = s[k] /\ w[k] = s[k]
      /\ \A k \in 1..Len(r) : v[Len(s) + k] = r[k]
      /\ \A k \in 1..Len(u) : w[Len(s) + k] = u[k]
  <2>1. /\ s \o r \in Seq(Rows) /\ Len(s \o r) = Len(s) + Len(r)
        /\ \A k \in 1..Len(s) : (s \o r)[k] = s[k]
        /\ \A k \in 1..Len(r) : (s \o r)[Len(s) + k] = r[k]
    BY <1>1, Joined
  <2>2. /\ s \o u \in Seq(Rows) /\ Len(s \o u) = Len(s) + Len(u)
        /\ \A k \in 1..Len(s) : (s \o u)[k] = s[k]
        /\ \A k \in 1..Len(u) : (s \o u)[Len(s) + k] = u[k]
    BY Joined
  <2> QED
    BY <2>1, <2>2
<1>3. PICK d : Thinned(v, d) /\ Destutter(v) = d[Len(v)]
  BY <1>2, Thinning
<1>4. PICK e : Thinned(w, e) /\ Destutter(w) = e[Len(w)]
  BY <1>2, Thinning
<1>5. d[Len(s)] = e[Len(s)]
  BY <1>1, <1>3, <1>4, ThinnedPrefix
<1> HIDE DEF v, w
<1> DEFINE b == Len(s) + 1
<1>6. /\ b \in 1..Len(w) /\ b > 1 /\ b - 1 = Len(s) /\ b + Len(r) = Len(w)
      /\ \A k \in 1..Len(r) : b + k = Len(s) + (k + 1) /\ k + 1 \in 1..Len(u)
  BY <1>1, <1>2
<1>7. w[b] = s[Len(s)] /\ w[b - 1] = s[Len(s)] /\ v[Len(s)] = s[Len(s)]
  BY <1>1, <1>2, <1>6
<1>8. e[b] = e[b - 1]
  BY <1>4, <1>6, <1>7 DEF Thinned
<1>9. \A k \in 1..Len(r) : v[Len(s) + k] = w[b + k]
  <2> TAKE k \in 1..Len(r)
  <2>1. v[Len(s) + k] = u[k + 1]
    BY <1>1, <1>2
  <2>2. w[Len(s) + (k + 1)] = u[k + 1]
    BY <1>2, <1>6
  <2> QED
    BY <1>6, <2>1, <2>2
<1>10. d[Len(v)] = e[Len(w)]
  <2>1. Meet(v, d, Len(s), w, e, b)
    BY <1>1, <1>5, <1>6, <1>7, <1>8 DEF Meet
  <2>2. Agree(v, Len(s), Len(v), w, b, Len(w))
    <3>1. Len(v) - Len(s) = Len(r) /\ Len(w) - b = Len(r) /\ Len(s) <= Len(v)
      BY <1>1, <1>2
    <3> QED
      BY <1>9, <3>1, SMTT(30) DEF Agree
  <2>3. Len(v) \in Nat /\ Len(w) \in Nat /\ b \in Nat /\ Len(s) \in Nat
    BY <1>1, <1>2
  <2> HIDE DEF b
  <2> QED
    BY <1>2, <1>3, <1>4, <2>1, <2>2, <2>3, Follow
<1>11. v[Len(v)] = w[Len(w)]
  <2>1. CASE Len(r) = 0
    <3>1. Len(u) = 1 /\ Len(s) \in Nat
      BY <1>1, <2>1
    <3>2. Len(v) = Len(s) /\ Len(w) = b
      BY <1>2, <2>1, <3>1
    <3> HIDE DEF b
    <3> QED
      BY <1>7, <3>2
  <2>2. CASE Len(r) # 0
    <3>1. Len(r) \in 1..Len(r) /\ Len(v) = Len(s) + Len(r) /\ Len(w) = b + Len(r)
      BY <1>1, <1>2, <1>6, <2>2
    <3> QED
      BY <1>9, <3>1
  <2> QED
    BY <2>1, <2>2
<1>12. v # <<>> /\ w # <<>>
  BY <1>1, <1>2
<1> QED
  BY <1>1, <1>2, <1>3, <1>4, <1>6, <1>10, <1>11, <1>12 DEF Alike, v, w, r

-------------------------------------------------------------------------------
(* Merging.                                                                 *)

LEMMA KeptRows ==
    ASSUME TypeOK
    PROVE  Len(plan) \in Nat /\ \A n \in 1..Len(plan) : Kept(n) \in Seq(Rows)
<1>1. \A n \in 1..Len(plan) : rows[n] \in Answers \union {<<>>}
  BY DEF TypeOK, Tasks, Chunks
<1>2. <<>> \in Seq(Rows)
  OBVIOUS
<1> QED
  BY <1>1, <1>2, PlanLength, AnswersAssumption DEF Kept

LEMMA MergeChunkType ==
    ASSUME NEW s \in Seq(Rows), NEW u \in Seq(Rows)
    PROVE  MergeChunk(s, u) \in Seq(Rows)
<1>1. s \o u \in Seq(Rows)
  OBVIOUS
<1>2. u # <<>> => s \o Tail(u) \in Seq(Rows)
  OBVIOUS
<1> QED
  BY <1>1, <1>2 DEF MergeChunk

\* Merged is what a loop over the chunks makes of them.
MergeRun(g) ==
    /\ g \in Runs(Seq(Rows), Len(plan)) /\ g[0] = <<>>
    /\ \A n \in 1..Len(plan) : g[n] = MergeChunk(g[n - 1], Kept(n))

LEMMA Merging ==
    ASSUME TypeOK
    PROVE  \E g : MergeRun(g) /\ Merged = g[Len(plan)]
<1> DEFINE N == Len(plan)
           V == Seq(Rows)
           step == [v \in V |-> [i \in Nat |-> IF i \in 1..N THEN MergeChunk(v, Kept(i)) ELSE v]]
<1>1. \A v \in V, i \in 1..N : MergeChunk(v, Kept(i)) \in V
  BY KeptRows, MergeChunkType
<1>2. N \in Nat /\ step \in Steps(V) /\ <<>> \in V
  BY <1>1, KeptRows DEF Steps
<1>3. \A v \in V, i \in 1..N : step[v][i] = MergeChunk(v, Kept(i))
  BY KeptRows
<1> HIDE DEF step, N, V
<1>4. PICK g \in Runs(V, N) : IsRun(g, <<>>, step, N)
  BY <1>2, RunExists
<1>5. g \in [0..N -> V] /\ g[0] = <<>> /\ \A i \in 1..N : g[i] = MergeChunk(g[i - 1], Kept(i))
  <2>1. g \in [0..N -> V] /\ g[0] = <<>> /\ \A i \in 1..N : g[i] = step[g[i - 1]][i]
    BY <1>4 DEF Runs, IsRun
  <2>2. \A i \in 1..N : i - 1 \in 0..N
    BY <1>2
  <2> QED
    BY <1>3, <2>1, <2>2
<1>6. g = [i \in 0..N |-> IF i = 0 THEN <<>> ELSE MergeChunk(g[i - 1], Kept(i))]
  <2>1. g = [i \in 0..N |-> g[i]]
    BY <1>5
  <2>2. \A i \in 0..N : i = 0 \/ i \in 1..N
    BY <1>2
  <2>3. \A i \in 0..N : g[i] = IF i = 0 THEN <<>> ELSE MergeChunk(g[i - 1], Kept(i))
    BY <1>2, <1>5, <2>2
  <2> QED
    BY <2>1, <2>3
<1>7. \E f : f = [i \in 0..N |-> IF i = 0 THEN <<>> ELSE MergeChunk(f[i - 1], Kept(i))]
  BY <1>6
<1>8. \E f : /\ f = [i \in 0..N |-> IF i = 0 THEN <<>> ELSE MergeChunk(f[i - 1], Kept(i))]
             /\ Merged = f[N]
  BY <1>7 DEF Merged, N
<1>9. PICK f : /\ f = [i \in 0..N |-> IF i = 0 THEN <<>> ELSE MergeChunk(f[i - 1], Kept(i))]
               /\ Merged = f[N]
  BY <1>8
<1>10. f[0] = <<>> /\ \A i \in 1..N : f[i] = MergeChunk(f[i - 1], Kept(i))
  <2>1. \A i \in 0..N : f[i] = IF i = 0 THEN <<>> ELSE MergeChunk(f[i - 1], Kept(i))
    BY <1>9, Zenon
  <2>2. 0 \in 0..N /\ \A i \in 1..N : i \in 0..N /\ i # 0
    BY <1>2
  <2> QED
    BY <2>1, <2>2
<1>11. f = [i \in 0..N |-> f[i]]
  <2> DEFINE F(i) == IF i = 0 THEN <<>> ELSE MergeChunk(f[i - 1], Kept(i))
  <2>1. f = [i \in 0..N |-> F(i)]
    BY <1>9, Zenon
  <2> HIDE DEF F
  <2> QED
    BY <2>1
<1>12. f \in Runs(V, N)
  <2>1. \A i \in 1..N : f[i - 1] \in V => f[i] \in V
    BY <1>1, <1>10
  <2> QED
    BY <1>2, <1>10, <1>11, <2>1, RunTyped
<1> QED
  BY <1>9, <1>10, <1>12 DEF MergeRun, N, V

\* All rows that were kept, in the order of their chunks.
JoinRun(g) ==
    /\ g \in Runs(Seq(Rows), Len(plan)) /\ g[0] = <<>>
    /\ \A n \in 1..Len(plan) : g[n] = g[n - 1] \o Kept(n)

LEMMA Joining ==
    ASSUME TypeOK
    PROVE  \E g : JoinRun(g) /\ RowsWithout(Failures) = g[Len(plan)]
<1> DEFINE N == Len(plan)
           V == Seq(Rows)
           step == [v \in V |-> [i \in Nat |-> IF i \in 1..N THEN v \o Kept(i) ELSE v]]
<1>1. \A v \in V, i \in 1..N : v \o Kept(i) \in V
  BY KeptRows, Joined
<1>2. N \in Nat /\ step \in Steps(V) /\ <<>> \in V
  BY <1>1, KeptRows DEF Steps
<1>3. \A v \in V, i \in 1..N : step[v][i] = v \o Kept(i)
  BY KeptRows
<1> HIDE DEF step, N, V
<1>4. PICK g \in Runs(V, N) : IsRun(g, <<>>, step, N)
  BY <1>2, RunExists
<1>5. g \in [0..N -> V] /\ g[0] = <<>> /\ \A i \in 1..N : g[i] = g[i - 1] \o Kept(i)
  <2>1. g \in [0..N -> V] /\ g[0] = <<>> /\ \A i \in 1..N : g[i] = step[g[i - 1]][i]
    BY <1>4 DEF Runs, IsRun
  <2>2. \A i \in 1..N : i - 1 \in 0..N
    BY <1>2
  <2> QED
    BY <1>3, <2>1, <2>2
<1>6. g = [i \in 0..N |-> IF i = 0 THEN <<>> ELSE g[i - 1] \o Kept(i)]
  <2>1. g = [i \in 0..N |-> g[i]]
    BY <1>5
  <2>2. \A i \in 0..N : i = 0 \/ i \in 1..N
    BY <1>2
  <2>3. \A i \in 0..N : g[i] = IF i = 0 THEN <<>> ELSE g[i - 1] \o Kept(i)
    BY <1>2, <1>5, <2>2
  <2> QED
    BY <2>1, <2>3
<1>7. \E f : f = [i \in 0..N |-> IF i = 0 THEN <<>> ELSE f[i - 1] \o Kept(i)]
  BY <1>6
<1>8. \E f : /\ f = [i \in 0..N |-> IF i = 0 THEN <<>> ELSE f[i - 1] \o Kept(i)]
             /\ RowsWithout(Failures) = f[N]
  BY <1>7 DEF RowsWithout, Kept, N
<1>9. PICK f : /\ f = [i \in 0..N |-> IF i = 0 THEN <<>> ELSE f[i - 1] \o Kept(i)]
               /\ RowsWithout(Failures) = f[N]
  BY <1>8
<1>10. f[0] = <<>> /\ \A i \in 1..N : f[i] = f[i - 1] \o Kept(i)
  <2>1. \A i \in 0..N : f[i] = IF i = 0 THEN <<>> ELSE f[i - 1] \o Kept(i)
    BY <1>9, Zenon
  <2>2. 0 \in 0..N /\ \A i \in 1..N : i \in 0..N /\ i # 0
    BY <1>2
  <2> QED
    BY <2>1, <2>2
<1>11. f = [i \in 0..N |-> f[i]]
  <2> DEFINE F(i) == IF i = 0 THEN <<>> ELSE f[i - 1] \o Kept(i)
  <2>1. f = [i \in 0..N |-> F(i)]
    BY <1>9, Zenon
  <2> HIDE DEF F
  <2> QED
    BY <2>1
<1>12. f \in Runs(V, N)
  <2>1. \A i \in 1..N : f[i - 1] \in V => f[i] \in V
    BY <1>1, <1>10
  <2> QED
    BY <1>2, <1>10, <1>11, <2>1, RunTyped
<1> QED
  BY <1>9, <1>10, <1>12 DEF JoinRun, N, V

\* The chunks up to n that contributed rows, and the borders between them.
Full(n) == {i \in 1..n : Kept(i) # <<>>}
Borders(n) == IF Full(n) = {} THEN 0 ELSE Cardinality(Full(n)) - 1

LEMMA FullGrows ==
    ASSUME NEW n \in Nat
    PROVE  /\ IsFiniteSet(Full(n)) /\ Cardinality(Full(n)) \in Nat
           /\ Kept(n + 1) = <<>> => Full(n + 1) = Full(n)
           /\ Kept(n + 1) # <<>> =>
                 /\ Full(n + 1) # {}
                 /\ Cardinality(Full(n + 1)) = Cardinality(Full(n)) + 1
<1>1. IsFiniteSet(1..n) /\ Full(n) \subseteq 1..n
  BY FS_Interval DEF Full
<1>2. IsFiniteSet(Full(n)) /\ Cardinality(Full(n)) \in Nat
  BY <1>1, FS_Subset, FS_CardinalityType
<1>3. 1..(n + 1) = (1..n) \union {n + 1} /\ n + 1 \notin 1..n
  OBVIOUS
<1>4. Kept(n + 1) = <<>> => Full(n + 1) = Full(n)
  BY <1>3 DEF Full
<1>5. Kept(n + 1) # <<>> => Full(n + 1) = Full(n) \union {n + 1} /\ n + 1 \notin Full(n)
  BY <1>3 DEF Full
<1> QED
  BY <1>2, <1>4, <1>5, FS_AddElement

LEMMA BordersGrow ==
    ASSUME NEW n \in Nat
    PROVE  /\ Borders(n) \in Nat /\ Borders(n + 1) \in Nat /\ Borders(n) <= Borders(n + 1)
           /\ Kept(n + 1) # <<>> /\ Full(n) # {} => Borders(n + 1) = Borders(n) + 1
<1> DEFINE F == Full(n)
           G == Full(n + 1)
<1>1. /\ IsFiniteSet(F) /\ Cardinality(F) \in Nat
      /\ Kept(n + 1) = <<>> => G = F
      /\ Kept(n + 1) # <<>> => G # {} /\ Cardinality(G) = Cardinality(F) + 1
  BY FullGrows
<1>2. Borders(n) = (IF F = {} THEN 0 ELSE Cardinality(F) - 1)
      /\ Borders(n + 1) = (IF G = {} THEN 0 ELSE Cardinality(G) - 1)
  BY DEF Borders
<1> HIDE DEF F, G
<1>3. F # {} => Cardinality(F) # 0
  BY <1>1, FS_EmptySet
<1>4. F = {} => Cardinality(F) = 0
  BY FS_EmptySet
<1>5. CASE Kept(n + 1) = <<>>
  BY <1>1, <1>2, <1>3, <1>5
<1>6. CASE Kept(n + 1) # <<>>
  BY <1>1, <1>2, <1>3, <1>4, <1>6 DEF F
<1> QED
  BY <1>5, <1>6

\* Merging one more chunk: nothing is lost but a row at a border.
LEMMA MergeStep ==
    ASSUME NEW s \in Seq(Rows), NEW t \in Seq(Rows), NEW u \in Seq(Rows), Alike(s, t)
    PROVE  /\ Alike(MergeChunk(s, u), t \o u)
           /\ \/ Len(t \o u) - Len(MergeChunk(s, u)) = Len(t) - Len(s)
              \/ /\ s # <<>> /\ u # <<>>
                 /\ Len(t \o u) - Len(MergeChunk(s, u)) = Len(t) - Len(s) + 1
<1>1. Alike(s \o u, t \o u)
  BY AlikeExtended
<1>2. /\ Len(t \o u) = Len(t) + Len(u) /\ Len(s \o u) = Len(s) + Len(u)
      /\ Len(s) \in Nat /\ Len(t) \in Nat /\ Len(u) \in Nat
  BY Joined
<1>3. CASE s # <<>> /\ u # <<>> /\ Head(u) = Last(s)
  <2>1. MergeChunk(s, u) = s \o Tail(u)
    BY <1>3 DEF MergeChunk
  <2>2. u[1] = s[Len(s)]
    BY <1>3 DEF Last
  <2>3. Alike(s \o Tail(u), s \o u)
    BY <1>3, <2>2, AlikeWithout
  <2>4. Alike(s \o Tail(u), t \o u)
    BY <1>1, <2>3 DEF Alike
  <2>5. Tail(u) \in Seq(Rows) /\ Len(Tail(u)) = Len(u) - 1
    BY <1>3
  <2>6. Len(s \o Tail(u)) = Len(s) + (Len(u) - 1)
    BY <2>5, Joined
  <2> QED
    BY <1>2, <1>3, <2>1, <2>4, <2>6
<1>4. CASE ~(s # <<>> /\ u # <<>> /\ Head(u) = Last(s))
  <2>1. MergeChunk(s, u) = s \o u
    BY <1>4 DEF MergeChunk
  <2> QED
    BY <1>1, <1>2, <2>1
<1> QED
  BY <1>3, <1>4

\* The merged rows g and all rows h after n chunks.
Faithful(g, h, n) ==
    /\ Alike(g[n], h[n])
    /\ g[n] # <<>> => Full(n) # {}
    /\ Len(h[n]) - Len(g[n]) <= Borders(n)

\* So it is for all chunks together.
LEMMA MergeFaithful ==
    ASSUME TypeOK
    PROVE  /\ Destutter(Merged) = Destutter(RowsWithout(Failures))
           /\ Len(RowsWithout(Failures)) - Len(Merged) <= Borders(Len(plan))
<1> DEFINE N == Len(plan)
<1>1. PICK g : MergeRun(g) /\ Merged = g[N]
  BY Merging
<1>2. PICK h : JoinRun(h) /\ RowsWithout(Failures) = h[N]
  BY Joining
<1> DEFINE S == {n \in Nat : n \in 0..N => Faithful(g, h, n)}
<1>3. N \in Nat /\ \A n \in 0..N : g[n] \in Seq(Rows) /\ h[n] \in Seq(Rows)
  BY <1>1, <1>2, KeptRows DEF MergeRun, JoinRun, Runs
<1>4. 0 \in S
  <2>1. g[0] = <<>> /\ h[0] = <<>> /\ Full(0) = {}
    BY <1>1, <1>2 DEF MergeRun, JoinRun, Full
  <2>2. Alike(<<>>, <<>>) /\ Len(<<>>) = 0
    BY DEF Alike
  <2>3. Borders(0) = 0
    BY <2>1 DEF Borders
  <2>4. Faithful(g, h, 0)
    BY <2>1, <2>2, <2>3 DEF Faithful
  <2> QED
    BY <2>4
<1>5. ASSUME NEW n \in S PROVE n + 1 \in S
  <2>1. SUFFICES ASSUME n + 1 \in 0..N PROVE Faithful(g, h, n + 1)
    OBVIOUS
  <2>2. n \in Nat /\ n \in 0..N /\ n + 1 \in 1..N /\ (n + 1) - 1 = n
    BY <1>3, <2>1
  <2>3. Faithful(g, h, n)
    BY <2>2
  <2> DEFINE s == g[n]
             t == h[n]
             u == Kept(n + 1)
             v == g[n + 1]
             w == h[n + 1]
  <2>4. s \in Seq(Rows) /\ t \in Seq(Rows) /\ u \in Seq(Rows)
    BY <1>3, <2>2, KeptRows
  <2>5. v = MergeChunk(s, u) /\ w = t \o u
    BY <1>1, <1>2, <2>2 DEF MergeRun, JoinRun
  <2>6. Alike(s, t) /\ (s # <<>> => Full(n) # {}) /\ Len(t) - Len(s) <= Borders(n)
    BY <2>3 DEF Faithful
  <2> HIDE DEF s, t, u, v, w
  <2>7. /\ Alike(v, w)
        /\ \/ Len(w) - Len(v) = Len(t) - Len(s)
           \/ /\ s # <<>> /\ u # <<>>
              /\ Len(w) - Len(v) = Len(t) - Len(s) + 1
    BY <2>4, <2>5, <2>6, MergeStep
  <2>8. v # <<>> => Full(n + 1) # {}
    <3>1. CASE u = <<>>
      <4>1. v = s
        BY <2>4, <2>5, <3>1 DEF MergeChunk
      <4> QED
        BY <2>2, <2>6, <3>1, <4>1, FullGrows DEF u
    <3>2. CASE u # <<>>
      BY <2>2, <3>2, FullGrows DEF u
    <3> QED
      BY <3>1, <3>2
  <2>9. Len(w) - Len(v) <= Borders(n + 1)
    <3>1. Len(t) \in Nat /\ Len(s) \in Nat
      BY <2>4
    <3>2. Borders(n) \in Nat /\ Borders(n + 1) \in Nat /\ Borders(n) <= Borders(n + 1)
      BY <2>2, BordersGrow
    <3>3. s # <<>> /\ u # <<>> => Borders(n + 1) = Borders(n) + 1
      BY <2>2, <2>6, BordersGrow DEF u
    <3> QED
      BY <2>6, <2>7, <3>1, <3>2, <3>3
  <2> QED
    BY <2>7, <2>8, <2>9 DEF Faithful, v, w
<1>6. S \in SUBSET Nat
  OBVIOUS
<1>7. S = Nat
  <2> HIDE DEF S
  <2> QED
    BY <1>4, <1>5, <1>6, NumberInduction
<1>8. Faithful(g, h, N)
  <2>1. N \in S
    <3> HIDE DEF S
    <3> QED
      BY <1>3, <1>7
  <2> QED
    BY <1>3, <2>1
<1> QED
  BY <1>1, <1>2, <1>8 DEF Alike, Faithful

-------------------------------------------------------------------------------
(* The rows of a response.                                                  *)

RowsInv == pc = "returned" => response.rows = Merged

\* Only Assemble returns, and nothing happens to the calls after that.
LEMMA ReturnSteps ==
    ASSUME IInv, [Next]_vars, pc' = "returned"
    PROVE  Assemble \/ (pc = "returned" /\ UNCHANGED <<plan, task, rows, response>>)
<1> SUFFICES ASSUME Next, ~Assemble PROVE FALSE
  BY DEF vars, inputs
<1>1. CASE pc = "returned"
  <2>1. ~cancelling /\ \A t \in Tasks : task[t] \notin Calling \union {"granted"}
    BY <1>1, TaskSets DEF IInv, PhaseInv, Calling, Settled
  <2> QED
    BY <1>1, <2>1, TaskSets DEF Next, Progress, BeginSingle, BeginChunks, StartChunks, Gathered,
       Assemble, Cancelled, Cancel, AnswerValid, AnswerInvalid, CallFails, Unwind, Acquire
<1>2. CASE pc # "returned"
  BY <1>2 DEF Next, Progress, BeginSingle, BeginChunks, StartChunks, Gathered, Cancelled,
     Cancel, AnswerValid, AnswerInvalid, CallFails, Raised, Unwind, Acquire
<1> QED
  BY <1>1, <1>2

LEMMA RowsKept == ASSUME IInv, RowsInv, [Next]_vars PROVE RowsInv'
<1> SUFFICES ASSUME pc' = "returned" PROVE response'.rows = Merged'
  BY DEF RowsInv
<1>1. UNCHANGED <<plan, task, rows>> /\ response'.rows = Merged
  <2>1. CASE Assemble
    BY <2>1 DEF Assemble, inputs
  <2>2. CASE pc = "returned" /\ UNCHANGED <<plan, task, rows, response>>
    BY <2>2 DEF RowsInv
  <2> QED
    BY <2>1, <2>2, ReturnSteps
<1>2. Merged' = Merged
  BY <1>1 DEF Merged, Kept, Failures, Chunks
<1> QED
  BY <1>1, <1>2

-------------------------------------------------------------------------------
(* Theorems.                                                                *)

\* The inductive invariant: who holds or awaits a permit, and how many calls
\* each state of a task stands for.
THEOREM Invariance == Safe => []IInv
<1>1. Init => IInv
  BY InitInv
<1>2. IInv /\ [Next]_vars => IInv'
  BY NextKeeps
<1> QED BY <1>1, <1>2, PTL DEF Safe

\* Every variable of a request's model calls keeps its type (_run_parse).
THEOREM TypeCorrect == Safe => []TypeOK
<1>1. IInv => TypeOK
  BY DEF IInv
<1> QED BY <1>1, Invariance, PTL

\* For any number of chunks and permits, the semaphore's permits are neither
\* lost nor duplicated, and no waiter waits beside a free permit (_run_chunk).
THEOREM PermitsAreConserved == Safe => []PermitsConserved
<1>1. IInv => PermitsConserved
  <2> SUFFICES ASSUME IInv PROVE PermitsConserved
    OBVIOUS
  <2>1. queue \in Seq(Chunks) /\ Len(plan) \in Nat /\ Len(queue) \in Nat /\ Len(queue) <= Len(plan)
        /\ \A n \in 1..Len(queue) : queue[n] = n + (Len(plan) - Len(queue))
    BY PlanLength DEF IInv, TypeOK, QueueInv
  <2>2. IsInjective(queue)
    BY <2>1 DEF IsInjective
  <2>3. ASSUME ~cancelling PROVE ToSet(queue) = Chunk({"waiting"})
    <3>1. \A i \in Chunks : task[i] = "waiting" <=> i > Len(plan) - Len(queue)
      BY <2>3 DEF IInv, QueueInv
    <3>2. ToSet(queue) \subseteq Chunk({"waiting"})
      BY <2>1, <3>1 DEF ToSet, Chunk, Chunks
    <3>3. ASSUME NEW i \in Chunk({"waiting"}) PROVE i \in ToSet(queue)
      <4>1. i \in 1..Len(plan) /\ i > Len(plan) - Len(queue)
        BY <3>1, <3>3 DEF Chunk, Chunks
      <4>2. i - (Len(plan) - Len(queue)) \in 1..Len(queue)
        BY <2>1, <4>1
      <4>3. queue[i - (Len(plan) - Len(queue))] = i
        BY <2>1, <4>1, <4>2
      <4> QED BY <4>2, <4>3, <2>1 DEF ToSet
    <3> QED BY <3>2, <3>3
  <2> QED BY <2>2, <2>3 DEF PermitsConserved, IInv, QueueInv
<1> QED BY <1>1, Invariance, PTL

\* Chunks get their first call in document order (_run_chunk).
THEOREM ChunksAlwaysStartInOrder == Safe => []ChunksStartInOrder
<1>1. IInv => ChunksStartInOrder
  <2> SUFFICES ASSUME IInv, NEW i \in Chunks, NEW j \in Chunks, i < j, ~cancelling,
                      task[i] \in {"new"} \union Idle
               PROVE  task[j] \in {"new"} \union Idle
    BY DEF ChunksStartInOrder
  <2>1. CASE task[i] = "new"
    <3>1. pc = "begin"
      BY <2>1 DEF IInv, PhaseInv, Settled
    <3> QED BY <3>1, TaskSets DEF IInv, PhaseInv
  <2>2. CASE task[i] = "ready"
    BY <2>2 DEF IInv, PhaseInv, Idle
  <2>3. CASE task[i] = "waiting"
    <3>1. i > Len(plan) - Len(queue)
      BY <2>3 DEF IInv, QueueInv
    <3>2. Len(queue) \in Nat /\ Len(plan) \in Nat /\ i \in Nat /\ j \in Nat
      BY PlanLength DEF IInv, TypeOK, Chunks
    <3> QED BY <3>1, <3>2 DEF IInv, QueueInv, Idle
  <2> QED BY <2>1, <2>2, <2>3 DEF Idle
<1> QED BY <1>1, Invariance, PTL

\* No chunk runs or waits once gather() has returned (_run_chunked_parse).
THEOREM NoChunkIsOrphaned == Safe => []NoOrphans
<1>1. IInv => NoOrphans
  BY DEF IInv, PhaseInv, NoOrphans, Chunk, Ended, Settled, Idle, Holding, Calling
<1> QED BY <1>1, Invariance, PTL

\* No task calls the model more often than its passes and retries allow, and
\* none is given up after fewer than two calls (_run_chunk).
THEOREM CallsAreBounded == Safe => []CallsBounded
<1>1. IInv => CallsBounded
  <2> SUFFICES ASSUME IInv, NEW i \in Chunks
               PROVE  calls[i] <= 4 /\ (task[i] = "failed" => calls[i] >= 2)
    BY DEF IInv, CountInv, CallsBounded, Failures
  <2>1. calls[i] \in Nat /\ try[i] \in {1, 2}
        /\ task[i] \in {"new"} \union Idle \union Holding \union Settled
    BY TaskSets DEF IInv, TypeOK
  <2> QED BY <2>1 DEF IInv, CountInv, Within, Idle, Holding, Calling, Settled
<1> QED BY <1>1, Invariance, PTL

\* A response never lacks a chunk it does not declare, nor its summary
\* (_run_chunked_parse).
THEOREM PartialIsAlwaysDeclared == Safe => []PartialIsDeclared
<1>1. IInv => PartialIsDeclared
  <2> SUFFICES ASSUME IInv, pc = "returned", NEW i \in Chunks, task[i] # "done"
               PROVE  allowPartial /\ i \in response.failed /\ try[i] = 2
    BY DEF IInv, ResponseInv, PartialIsDeclared
  <2>1. task[i] = "failed"
    BY TaskSets DEF IInv, PhaseInv, Settled
  <2> QED BY <2>1 DEF IInv, ResponseInv, CountInv, Failures
<1> QED BY <1>1, Invariance, PTL

\* No call of the model is made after the cancellation (_poll_disconnect).
THEOREM CancelAlwaysStopsCalls == Safe => CancelStopsCalls
<1>1. IInv /\ [Next]_vars => [cancelling => calls' = calls]_vars
  <2> SUFFICES ASSUME IInv, Next, cancelling PROVE calls' = calls
    BY DEF vars
  <2>1. pc \notin {"begin", "assemble"}
    BY DEF IInv, PhaseInv
  <2> QED BY <2>1 DEF Next, Progress, BeginSingle, BeginChunks, StartChunks, Gathered, Assemble,
          Cancelled, Cancel, AnswerValid, AnswerInvalid, CallFails, Unwind, Acquire
<1> QED BY <1>1, Invariance, PTL DEF Safe, CancelStopsCalls

\* Whatever rows the models return, and however they repeat, the response has
\* every row of every chunk that was kept, in order, and drops at most one
\* repeated row at each border (merge_chunk_rows).
THEOREM RowsAlwaysSurviveMerge == Safe => []RowsSurviveMerge
<1>1. Init => RowsInv
  BY DEF Init, RowsInv
<1>2. IInv /\ RowsInv /\ [Next]_vars => RowsInv'
  BY RowsKept
<1>3. IInv /\ RowsInv => RowsSurviveMerge
  <2> SUFFICES ASSUME IInv, RowsInv, pc = "returned"
               PROVE  LET all  == RowsWithout(response.failed)
                          full == {i \in Chunks \ response.failed : rows[i] # <<>>}
                      IN  /\ Destutter(response.rows) = Destutter(all)
                          /\ Len(all) - Len(response.rows)
                                <= IF full = {} THEN 0 ELSE Cardinality(full) - 1
    BY DEF RowsSurviveMerge
  <2>1. response.failed = Failures /\ response.rows = Merged
    BY DEF IInv, ResponseInv, RowsInv
  <2>2. {i \in Chunks \ Failures : rows[i] # <<>>} = Full(Len(plan))
    BY DEF Full, Kept, Chunks
  <2> QED
    BY <2>1, <2>2, MergeFaithful DEF Borders, IInv
<1> QED
  BY <1>1, <1>2, <1>3, Invariance, PTL DEF Safe

-------------------------------------------------------------------------------
(* The whole request.                                                          *)

\* A step outside the calls, but for those where the two meet, and a step of
\* the calls.
Outside ==
    \/ L!Accept \/ L!RejectForm \/ L!FormFails \/ L!Disconnect
    \/ L!RequestStep
    \/ L!PollAgain \/ L!PollRaises
    \/ L!StoreOk \/ L!StoreRejected \/ L!StoreFails
    \/ L!ThreadStarts \/ L!AbandonedEnds
    \/ L!PreflightOk \/ L!PreflightFails \/ L!ExtractOk \/ L!ExtractRejected
    \/ L!ConvertRefused \/ L!ConvertStarts \/ L!CopyOk \/ L!CopyFails
    \/ L!ConvertFails \/ L!ConvertOk

OfCalls ==
    \/ StartChunks \/ Gathered \/ Assemble
    \/ \E t \in Tasks : Unwind(t) \/ AnswerValid(t) \/ AnswerInvalid(t) \/ CallFails(t)
    \/ \E i \in Chunks : Acquire(i)

\* Each step of a request is one of five kinds.
LEMMA StepKinds ==
    ASSUME RequestNext
    PROVE  (Outside /\ UNCHANGED vars) \/ Close \/ PollAnswer \/ Deliver \/ During(OfCalls)
<1>1. CASE Alone(L!Accept \/ L!RejectForm \/ L!FormFails \/ L!Disconnect)
  BY <1>1 DEF Alone, Outside
<1>2. CASE RequestStep
  BY <1>2 DEF RequestStep, Alone, Outside
<1>3. CASE PollStep \/ Alone(~Between /\ L!PollRaises)
  BY <1>3 DEF PollStep, Alone, Outside
<1>4. CASE TaskStep
  BY <1>4 DEF TaskStep, Alone, Outside
<1>5. CASE Alone(\/ L!ThreadStarts \/ L!AbandonedEnds
                 \/ L!PreflightOk \/ L!PreflightFails \/ L!ExtractOk \/ L!ExtractRejected)
  BY <1>5 DEF Alone, Outside
<1>6. CASE Alone(\/ L!ConvertRefused \/ L!ConvertStarts \/ L!CopyOk \/ L!CopyFails
                 \/ L!ConvertFails \/ L!ConvertOk)
  BY <1>6 DEF Alone, Outside
<1>7. CASE LoopStep \/ AnswerStep
  BY <1>7 DEF LoopStep, AnswerStep, During, OfCalls
<1> QED
  BY <1>1, <1>2, <1>3, <1>4, <1>5, <1>6, <1>7 DEF RequestNext

\* What the lifecycle calls its variables is unchanged with their tuple here.
LEMMA Unseen == UNCHANGED around => UNCHANGED L!vars
  BY DEF around, L!vars, L!inputs, L!files, L!events

\* To the lifecycle a step of the calls is a stutter, or the end of its await.
LEMMA StepOfLifecycle ==
    ASSUME [RequestNext]_requestVars
    PROVE  [L!Next]_(L!vars)
<1>1. CASE RequestNext
  <2>1. CASE Outside
    BY <2>1 DEF Outside, L!Next, L!PollStep, L!TaskStep
  <2>2. CASE Close
    BY <2>2 DEF Close, L!Next, L!TaskStep
  <2>3. CASE PollAnswer
    BY <2>3 DEF PollAnswer, L!Next, L!PollStep
  <2>4. CASE Deliver
    BY <2>4 DEF Deliver, L!Next, L!TaskStep
  <2>5. CASE During(OfCalls)
    <3>1. L!CallsEnd \/ UNCHANGED around
      BY <2>5 DEF During
    <3> QED
      BY <3>1, Unseen DEF L!Next
  <2> QED
    BY <1>1, <2>1, <2>2, <2>3, <2>4, <2>5, StepKinds
<1>2. CASE UNCHANGED requestVars
  BY <1>2, Unseen DEF requestVars
<1> QED
  BY <1>1, <1>2

\* To the calls a step of the lifecycle is a stutter, their start, their
\* cancellation or the end of it.
LEMMA StepOfCalls ==
    ASSUME [RequestNext]_requestVars
    PROVE  [Next]_vars
<1>1. CASE RequestNext
  <2>1. CASE UNCHANGED vars
    BY <2>1
  <2>2. CASE Close
    BY <2>2 DEF Close, Next, Progress
  <2>3. CASE PollAnswer
    BY <2>3 DEF PollAnswer, Next
  <2>4. CASE Deliver
    BY <2>4 DEF Deliver, Next, Progress
  <2>5. CASE During(OfCalls)
    BY <2>5 DEF During, OfCalls, Next, Progress
  <2> QED
    BY <1>1, <2>1, <2>2, <2>3, <2>4, <2>5, StepKinds
<1>2. CASE UNCHANGED requestVars
  BY <1>2, Unseen DEF requestVars
<1> QED
  BY <1>1, <1>2

-------------------------------------------------------------------------------
(* Where the two meet.                                                      *)

\* How far the lifecycle is: a request that is over has no task left.
OuterInv ==
    /\ kind \in Kinds
    /\ parse \in {"new", "read", "close", "calls", "done"} \union L!Extract
    /\ request = "intake" => parse = "new" /\ poller = "new"
    /\ request \in {"stop", "handle", "ended"} => parse \in {"new", "done"}
    /\ request \in {"handle", "ended"} => poller \in {"new", "ended"}

\* The parse task awaits its calls exactly while they go on, and ends as they
\* do; without calls it does not end with a response.
MeetInv ==
    /\ parse = "calls" <=> pc \in {"gather", "own", "assemble"}
    /\ pc \in Ended => parse = "done" /\ outcome = pc
    /\ pc = "begin" => outcome # "returned"

\* A cancellation is pending only where it can be delivered, and if that is
\* the await of the calls, then they have been told.
PendingInv ==
    /\ request = "supervise" => parse # "new"
    /\ cancelReq => L!Suspended
    /\ parse = "calls" => outcome = "none" /\ (cancelReq <=> cancelling)

LEMMA FirstStageExtracts ==
    ASSUME kind \in Kinds
    PROVE  L!FirstStage \in {"preflight", "docconv", "extract"}
  BY RequestKindsAssumption DEF L!AllKinds, L!FirstStage

LEMMA OuterKept == ASSUME OuterInv, [L!Next]_(L!vars) PROVE OuterInv'
<1> USE DEF OuterInv, L!inputs, L!files, L!events, L!others, L!Extract
<1>1. CASE L!Accept \/ L!RejectForm \/ L!FormFails
  BY <1>1 DEF L!Accept, L!RejectForm, L!FormFails
<1>2. CASE L!RequestStep
  BY <1>2 DEF L!RequestStep, L!TaskEnded, L!PollerStopped, L!Handle, L!NoResponse
<1>3. CASE L!Disconnect \/ L!PollStep \/ L!PollRaises
  BY <1>3 DEF L!Disconnect, L!PollStep, L!PollAnswer, L!PollAgain, L!PollRaises
<1>4. CASE L!StoreOk
  BY <1>4, FirstStageExtracts DEF L!StoreOk
<1>5. CASE L!StoreRejected \/ L!StoreFails \/ L!Close
  BY <1>5 DEF L!StoreRejected, L!StoreFails, L!Close
<1>6. CASE L!Deliver
  BY <1>6 DEF L!Deliver, L!Suspended, L!Extract
<1>7. CASE \/ L!ThreadStarts \/ L!AbandonedEnds \/ L!CallsEnd
           \/ L!PreflightOk \/ L!PreflightFails \/ L!ExtractOk \/ L!ExtractRejected
  BY <1>7 DEF L!ThreadStarts, L!AbandonedEnds, L!PreflightOk, L!PreflightFails, L!ExtractOk, L!ExtractRejected, L!CallsEnd
<1>8. CASE \/ L!ConvertRefused \/ L!ConvertStarts \/ L!CopyOk \/ L!CopyFails
           \/ L!ConvertFails \/ L!ConvertOk
  BY <1>8 DEF L!ConvertRefused, L!ConvertStarts, L!CopyOk, L!CopyFails, L!ConvertFails, L!ConvertOk, L!Await
<1>9. CASE UNCHANGED L!vars
  BY <1>9 DEF L!vars
<1> QED
  BY <1>1, <1>2, <1>3, <1>4, <1>5, <1>6, <1>7, <1>8, <1>9 DEF L!Next, L!TaskStep

\* No step outside the calls starts or ends them, and a parse task that is
\* done keeps its outcome.
LEMMA OutsideCalls ==
    ASSUME OuterInv, Outside
    PROVE  /\ parse = "calls" <=> parse' = "calls"
           /\ parse = "done" => parse' = "done" /\ outcome' = outcome
           /\ parse = "calls" => outcome' = outcome
           /\ outcome' = "returned" => outcome = "returned"
<1> USE DEF OuterInv, L!inputs, L!files, L!events, L!others
<1>1. CASE L!Accept \/ L!RejectForm \/ L!FormFails \/ L!Disconnect
  BY <1>1 DEF L!Accept, L!RejectForm, L!FormFails, L!Disconnect
<1>2. CASE L!RequestStep \/ L!PollAgain \/ L!PollRaises
  BY <1>2 DEF L!RequestStep, L!TaskEnded, L!PollerStopped, L!Handle, L!NoResponse, L!PollAgain, L!PollRaises
<1>3. CASE L!StoreOk
  BY <1>3, FirstStageExtracts DEF L!StoreOk
<1>4. CASE L!StoreRejected \/ L!StoreFails
  BY <1>4 DEF L!StoreRejected, L!StoreFails
<1>5. CASE \/ L!ThreadStarts \/ L!AbandonedEnds
           \/ L!PreflightOk \/ L!PreflightFails \/ L!ExtractOk \/ L!ExtractRejected
  BY <1>5 DEF L!ThreadStarts, L!AbandonedEnds, L!PreflightOk, L!PreflightFails, L!ExtractOk, L!ExtractRejected
<1>6. CASE \/ L!ConvertRefused \/ L!ConvertStarts \/ L!CopyOk \/ L!CopyFails
           \/ L!ConvertFails \/ L!ConvertOk
  BY <1>6 DEF L!ConvertRefused, L!ConvertStarts, L!CopyOk, L!CopyFails, L!ConvertFails, L!ConvertOk, L!Await
<1> QED
  BY <1>1, <1>2, <1>3, <1>4, <1>5, <1>6 DEF Outside

\* The calls go on, or end with a response or an error.
LEMMA CallsGoOn ==
    ASSUME OfCalls, pc \in {"gather", "own", "assemble"}
    PROVE  pc' \in {"gather", "own", "assemble", "returned", "failed"}
  BY DEF OfCalls, StartChunks, Gathered, Assemble, Unwind, AnswerValid, AnswerInvalid,
         CallFails, Raised, Acquire

LEMMA MeetKept == ASSUME OuterInv, MeetInv, [RequestNext]_requestVars PROVE MeetInv'
<1> USE DEF Ended
<1>1. CASE Outside /\ UNCHANGED vars
  <2>1. pc' = pc
    BY <1>1 DEF vars
  <2> QED
    BY <1>1, <2>1, OutsideCalls DEF MeetInv
<1>2. CASE Close
  <2>1. parse = "close" /\ outcome' = outcome
      /\ parse' = (IF outcome = "none" THEN "calls" ELSE "done")
    BY <1>2 DEF Close, L!Close
  <2>2. CASE outcome = "none"
    <3>1. pc' \in {"gather", "own"}
      BY <1>2, <2>2 DEF Close, BeginSingle, BeginChunks
    <3> QED
      BY <2>1, <2>2, <3>1 DEF MeetInv
  <2>3. CASE outcome # "none"
    <3>1. pc' = pc
      BY <1>2, <2>3 DEF Close, vars
    <3> QED
      BY <2>1, <2>3, <3>1 DEF MeetInv
  <2> QED
    BY <2>2, <2>3
<1>3. CASE PollAnswer
  <2>1. parse' = parse /\ outcome' = outcome /\ pc' = pc
    BY <1>3 DEF PollAnswer, L!PollAnswer, Cancel, vars
  <2> QED
    BY <2>1 DEF MeetInv
<1>4. CASE Deliver
  <2>1. outcome' = "cancelled" /\ parse' = (IF parse \in {"close", "calls"} THEN "done" ELSE "close")
        /\ parse # "done"
    BY <1>4 DEF Deliver, L!Deliver, L!Suspended, L!Extract
  <2>2. CASE parse = "calls"
    <3>1. pc' = "cancelled"
      BY <1>4, <2>2 DEF Deliver, Cancelled
    <3> QED
      BY <2>1, <2>2, <3>1 DEF MeetInv
  <2>3. CASE parse # "calls"
    <3>1. pc' = pc
      BY <1>4, <2>3 DEF Deliver, vars
    <3> QED
      BY <2>1, <2>3, <3>1 DEF MeetInv
  <2> QED
    BY <2>2, <2>3
<1>5. CASE During(OfCalls)
  <2>1. pc' \in {"gather", "own", "assemble", "returned", "failed"} /\ parse = "calls"
    BY <1>5, CallsGoOn DEF During, MeetInv
  <2>2. CASE pc' \in {"returned", "failed"}
    <3>1. parse' = "done" /\ outcome' = pc'
      BY <1>5, <2>2 DEF During, L!CallsEnd
    <3> QED
      BY <2>2, <3>1 DEF MeetInv
  <2>3. CASE pc' \notin {"returned", "failed"}
    <3>1. parse' = parse /\ outcome' = outcome
      BY <1>5, <2>3 DEF During, around
    <3> QED
      BY <2>1, <2>3, <3>1 DEF MeetInv
  <2> QED
    BY <2>2, <2>3
<1>6. CASE UNCHANGED requestVars
  BY <1>6 DEF requestVars, around, vars, MeetInv
<1> QED
  BY <1>1, <1>2, <1>3, <1>4, <1>5, <1>6, StepKinds

\* Nothing but its delivery moves a parse task whose cancellation is pending,
\* and nothing but the poller makes it pending.
LEMMA OutsidePending ==
    ASSUME OuterInv, PendingInv, Outside
    PROVE  /\ cancelReq' = cancelReq /\ spooled' = spooled
           /\ cancelReq => parse' = parse
           /\ request' = "supervise" => parse' # "new"
<1> USE DEF OuterInv, PendingInv, L!inputs, L!files, L!events, L!others
<1>1. CASE L!Accept \/ L!RejectForm \/ L!FormFails \/ L!Disconnect
  BY <1>1 DEF L!Accept, L!RejectForm, L!FormFails, L!Disconnect, L!Suspended, L!Extract
<1>2. CASE L!RequestStep \/ L!PollAgain \/ L!PollRaises
  BY <1>2 DEF L!RequestStep, L!TaskEnded, L!PollerStopped, L!Handle, L!NoResponse, L!PollAgain, L!PollRaises
<1>3. CASE L!StoreOk
  BY <1>3, FirstStageExtracts DEF L!StoreOk, L!Runs
<1>4. CASE L!StoreRejected \/ L!StoreFails
  BY <1>4 DEF L!StoreRejected, L!StoreFails, L!Runs
<1>5. CASE \/ L!ThreadStarts \/ L!AbandonedEnds
           \/ L!PreflightOk \/ L!PreflightFails \/ L!ExtractOk \/ L!ExtractRejected
  BY <1>5 DEF L!ThreadStarts, L!AbandonedEnds, L!PreflightOk, L!PreflightFails, L!ExtractOk, L!ExtractRejected, L!Runs
<1>6. CASE \/ L!ConvertRefused \/ L!ConvertStarts \/ L!CopyOk \/ L!CopyFails
           \/ L!ConvertFails \/ L!ConvertOk
  BY <1>6 DEF L!ConvertRefused, L!ConvertStarts, L!CopyOk, L!CopyFails, L!ConvertFails, L!ConvertOk, L!Await,
              L!Runs
<1> QED
  BY <1>1, <1>2, <1>3, <1>4, <1>5, <1>6 DEF Outside

LEMMA PendingKept ==
    ASSUME IInv, OuterInv, MeetInv, PendingInv, [RequestNext]_requestVars
    PROVE  PendingInv'
<1>1. CASE Outside /\ UNCHANGED vars
  <2>1. cancelling' = cancelling
    BY <1>1 DEF vars
  <2> QED
    BY <1>1, <2>1, OutsideCalls, OutsidePending DEF PendingInv, L!Suspended
<1>2. CASE Close
  <2>1. /\ parse = "close" /\ parse' = (IF outcome = "none" THEN "calls" ELSE "done")
        /\ UNCHANGED <<outcome, cancelReq>> /\ ~cancelReq
    BY <1>2 DEF Close, L!Close, L!Runs, L!others, PendingInv
  <2>2. CASE outcome = "none"
    <3>1. ~cancelling'
      BY <1>2, <2>2 DEF Close, BeginSingle, BeginChunks, IInv, PhaseInv
    <3> QED
      BY <2>1, <2>2, <3>1 DEF PendingInv
  <2>3. CASE outcome # "none"
    BY <2>1, <2>3 DEF PendingInv
  <2> QED
    BY <2>2, <2>3
<1>3. CASE PollAnswer
  <2>1. /\ ~Between /\ request = "supervise" /\ UNCHANGED <<request, parse, outcome, spooled>>
        /\ cancelReq' = (cancelReq \/ (gone /\ parse # "done"))
    BY <1>3 DEF PollAnswer, L!PollAnswer, L!inputs
  <2>2. parse \in {"read", "close", "calls", "done"} \union L!Extract
    BY <2>1 DEF PendingInv, OuterInv
  <2>3. cancelReq' => L!Suspended'
    BY <2>1, <2>2 DEF PendingInv, Between, L!Suspended
  <2>4. parse = "calls" => (cancelReq' <=> cancelling')
    <3>1. CASE gone /\ parse = "calls"
      BY <1>3, <2>1, <3>1 DEF PollAnswer, Cancel
    <3>2. CASE ~gone
      BY <1>3, <2>1, <3>2 DEF PollAnswer, vars, PendingInv
    <3> QED
      BY <3>1, <3>2
  <2> QED
    BY <2>1, <2>3, <2>4 DEF PendingInv
<1>4. CASE Deliver
  BY <1>4 DEF Deliver, L!Deliver, PendingInv
<1>5. CASE During(OfCalls)
  <2>1. parse = "calls" /\ cancelling' = cancelling
    BY <1>5 DEF During, OfCalls, StartChunks, Gathered, Assemble, Unwind, AnswerValid,
                AnswerInvalid, CallFails, Acquire
  <2>2. CASE L!CallsEnd
    BY <2>1, <2>2 DEF L!CallsEnd, L!Runs, L!Suspended, L!others, PendingInv
  <2>3. CASE UNCHANGED around
    BY <2>1, <2>3 DEF around, PendingInv, L!Suspended
  <2> QED
    BY <1>5, <2>2, <2>3 DEF During
<1>6. CASE UNCHANGED requestVars
  BY <1>6 DEF requestVars, around, vars, PendingInv, L!Suspended
<1> QED
  BY <1>1, <1>2, <1>3, <1>4, <1>5, <1>6, StepKinds

-------------------------------------------------------------------------------
(* Theorems.                                                                *)

\* The request behaves as ParseLifecycle says, whatever chunks and semaphore
\* do behind its one await: the safety part of ImplementsLifecycle.
THEOREM RefinesLifecycle == RequestSafe => L!Safe
<1>1. RequestInit => L!Init
  BY DEF RequestInit
<1> QED
  BY <1>1, StepOfLifecycle, PTL DEF RequestSafe, L!Safe

\* Its calls behave as ChunkedParse says, whenever the client leaves and
\* however the request around them ends.
THEOREM RefinesCalls == RequestSafe => Safe
<1>1. RequestInit => Init
  BY DEF RequestInit
<1> QED
  BY <1>1, StepOfCalls, PTL DEF RequestSafe, Safe

\* What is proved of the calls holds of them in every request.
THEOREM CallsAlwaysSafe ==
    RequestSafe => [](PermitsConserved /\ ChunksStartInOrder /\ NoOrphans /\ CallsBounded
                      /\ RowsSurviveMerge /\ PartialIsDeclared)
  BY RefinesCalls, PermitsAreConserved, ChunksAlwaysStartInOrder, NoChunkIsOrphaned,
     CallsAreBounded, RowsAlwaysSurviveMerge, PartialIsAlwaysDeclared, PTL

\* The lifecycle with its own invariant, for the request.
P == INSTANCE ParseLifecycleProofs WITH task <- parse

\* The kinds of a request are kinds of the lifecycle.
LEMMA LifecycleKinds == Kinds \subseteq P!AllKinds
  BY RequestKindsAssumption DEF L!AllKinds, P!AllKinds

\* Both instances of ParseLifecycle are the same, word for word.
LEMMA SameLifecycle == L!Safe => P!Safe
<1>1. L!Init => P!Init
  BY DEF L!Init, P!Init
<1>2. [L!Next]_(L!vars) => [P!Next]_(P!vars)
  BY DEF
      L!inputs, L!files, L!events, L!vars, L!Extract, L!LogRejection, L!Accept,
      L!RejectForm, L!FormFails, L!TaskEnded, L!PollerStopped, L!Handle, L!NoResponse,
      L!Disconnect, L!PollAnswer, L!PollRaises, L!PollAgain, L!Suspended, L!Runs,
      L!others, L!FirstStage, L!StoreOk, L!StoreRejected, L!StoreFails,
      L!ThreadStarts, L!AbandonedEnds, L!CopyOk, L!PreflightOk, L!PreflightFails,
      L!CleanUpConversion, L!ExtractOk,
      L!ExtractRejected, L!Close, L!CallsEnd, L!Await, L!ConvertRefused,
      L!ConvertStarts, L!CopyFails, L!ConvertFails, L!ConvertOk, L!Deliver,
      L!PollStep, L!RequestStep, L!TaskStep, L!Next,
      P!inputs, P!files, P!events, P!vars, P!Extract, P!LogRejection, P!Accept,
      P!RejectForm, P!FormFails, P!TaskEnded, P!PollerStopped, P!Handle, P!NoResponse,
      P!Disconnect, P!PollAnswer, P!PollRaises, P!PollAgain, P!Suspended, P!Runs,
      P!others, P!FirstStage, P!StoreOk, P!StoreRejected, P!StoreFails,
      P!ThreadStarts, P!AbandonedEnds, P!CopyOk, P!PreflightOk, P!PreflightFails,
      P!CleanUpConversion, P!ExtractOk,
      P!ExtractRejected, P!Close, P!CallsEnd, P!Await, P!ConvertRefused,
      P!ConvertStarts, P!CopyFails, P!ConvertFails, P!ConvertOk, P!Deliver,
      P!PollStep, P!RequestStep, P!TaskStep, P!Next
<1> QED
  BY <1>1, <1>2, PTL DEF L!Safe, P!Safe

\* What is proved of the lifecycle holds of the whole request: which files
\* outlive it, under which threads they are removed, that each failure, a
\* cancellation among them, is logged once, who cancels it, and that its
\* outcome is final.
THEOREM LifecycleAlwaysSafe ==
    RequestSafe => /\ [](/\ L!FilesLeakOnlyWhenCutShort /\ L!FilesLiveWhileUsed
                         /\ L!LoggedOnce /\ L!CancelledOnlyWhenGone)
                   /\ L!OutcomeIsFinal
<1>1. P!Safe => /\ [](/\ P!FilesLeakOnlyWhenCutShort /\ P!FilesLiveWhileUsed
                      /\ P!LoggedOnce /\ P!CancelledOnlyWhenGone)
                /\ P!OutcomeIsFinal
  BY LifecycleKinds, P!FilesLeak, P!FilesLive, P!Logged, P!CancelledWhenGone,
     P!OutcomesAreFinal, PTL
<1>2. /\ P!FilesLeakOnlyWhenCutShort => L!FilesLeakOnlyWhenCutShort
      /\ P!FilesLiveWhileUsed => L!FilesLiveWhileUsed
      /\ P!LoggedOnce => L!LoggedOnce
      /\ P!CancelledOnlyWhenGone => L!CancelledOnlyWhenGone
  BY DEF P!FilesLeakOnlyWhenCutShort, L!FilesLeakOnlyWhenCutShort,
         P!UploadLeaksOnlyWhenCutShort, L!UploadLeaksOnlyWhenCutShort,
         P!ConversionLeaksOnlyWhenCutShort, L!ConversionLeaksOnlyWhenCutShort,
         P!FilesLiveWhileUsed, L!FilesLiveWhileUsed, P!ReadsUpload, L!ReadsUpload,
         P!ReadsConversion, L!ReadsConversion, P!Abandoned, L!Abandoned,
         P!LoggedOnce, L!LoggedOnce, P!CancelledOnlyWhenGone, L!CancelledOnlyWhenGone
<1>3. [parse = "done" => parse' = "done" /\ outcome' = outcome]_(P!vars)
         => [parse = "done" => parse' = "done" /\ outcome' = outcome]_(L!vars)
  BY DEF P!vars, L!vars, P!inputs, L!inputs, P!files, L!files, P!events, L!events
<1> QED
  BY <1>1, <1>2, <1>3, RefinesLifecycle, SameLifecycle, PTL DEF P!OutcomeIsFinal, L!OutcomeIsFinal

\* The lifecycle and its calls are always where the other one expects them.
THEOREM PartsMeet == RequestSafe => [](OuterInv /\ MeetInv)
<1>1. RequestInit => OuterInv /\ MeetInv
  BY DEF RequestInit, L!Init, Init, OuterInv, MeetInv, Ended
<1>2. OuterInv /\ MeetInv /\ [RequestNext]_requestVars => (OuterInv /\ MeetInv)'
  BY StepOfLifecycle, OuterKept, MeetKept
<1> QED
  BY <1>1, <1>2, PTL DEF RequestSafe

\* From the moment the poller has cancelled the parse task the request makes
\* no call of the model, wherever the cancellation finds it (_poll_disconnect).
NoCallAfterCancel == [][cancelReq \/ outcome = "cancelled" => calls' = calls]_requestVars

THEOREM CancelAlwaysReachesCalls == RequestSafe => NoCallAfterCancel
<1>1. RequestInit => PendingInv
  BY DEF RequestInit, L!Init, PendingInv
<1>2. IInv /\ OuterInv /\ MeetInv /\ PendingInv /\ [RequestNext]_requestVars => PendingInv'
  BY PendingKept
<1>3. RequestSafe => []PendingInv
  BY <1>1, <1>2, RefinesCalls, Invariance, PartsMeet, PTL DEF RequestSafe
<1>4. PendingInv /\ [cancelling => calls' = calls]_vars /\ [RequestNext]_requestVars
         => [cancelReq \/ outcome = "cancelled" => calls' = calls]_requestVars
  <2> SUFFICES ASSUME PendingInv, [cancelling => calls' = calls]_vars, RequestNext,
                      cancelReq \/ outcome = "cancelled"
               PROVE  calls' = calls
    BY DEF requestVars
  <2>1. CASE UNCHANGED vars
    BY <2>1 DEF vars
  <2>2. CASE Close
    BY <2>2 DEF Close, L!Close, L!Runs, PendingInv, vars
  <2>3. CASE PollAnswer \/ Deliver
    BY <2>3 DEF PollAnswer, Deliver, Cancel, Cancelled, vars
  <2>4. CASE During(OfCalls)
    <3>1. cancelling
      BY <2>4 DEF During, PendingInv
    <3> QED
      BY <3>1 DEF vars
  <2> QED
    BY <2>1, <2>2, <2>3, <2>4, StepKinds
<1> QED
  BY <1>3, <1>4, RefinesCalls, CancelAlwaysStopsCalls, PTL
  DEF RequestSafe, CancelStopsCalls, NoCallAfterCancel

\* A request that is over, in whatever way, leaves no task, no call and no
\* permit behind, and has ended as its calls did (_run_with_disconnect_supervisor).
THEOREM NothingEverOutlivesRequest == RequestSafe => []NothingOutlivesRequest
<1>1. IInv /\ OuterInv /\ MeetInv => NothingOutlivesRequest
  <2> SUFFICES ASSUME IInv, OuterInv, MeetInv, request = "ended" PROVE NothingOutlivesRequest
    BY DEF NothingOutlivesRequest
  <2>1. parse \in {"new", "done"} /\ poller \in {"new", "ended"}
    BY DEF OuterInv
  <2>2. pc = "begin" \/ pc \in Ended
    BY <2>1 DEF MeetInv, IInv, TypeOK, Ended
  <2>3. \A t \in Tasks : task[t] \in Settled \union {"new"}
    <3>1. CASE pc = "begin"
      BY <3>1 DEF IInv, PhaseInv
    <3>2. CASE pc \in Ended
      <4>1. task[0] \in {"new"} \union Settled /\ \A i \in Chunks : task[i] \in Settled
        BY <3>2 DEF IInv, PhaseInv, Ended
      <4> QED
        BY <4>1, TaskSets
    <3> QED
      BY <2>2, <3>1, <3>2
  <2>4. permits = Concurrency
    <3>1. Chunk(Holding) = {}
      BY <2>3, TaskSets DEF Chunk, Holding, Calling, Settled
    <3>2. permits \in Int
      BY ConcurrencyAssumption DEF IInv, TypeOK
    <3> QED
      BY <3>1, <3>2, FS_EmptySet DEF IInv, QueueInv
  <2> QED
    BY <2>1, <2>2, <2>3, <2>4 DEF NothingOutlivesRequest, L!NothingOutlivesRequest, MeetInv, Ended
<1> QED
  BY <1>1, RefinesCalls, Invariance, PartsMeet, PTL
===============================================================================
