------------------------ MODULE CompletionStreamProofs ------------------------
(***************************************************************************)
(* What an attempt hands over, for every stream of every length, from one  *)
(* inductive invariant: the assembly says which lines it came from.        *)
(***************************************************************************)
EXTENDS CompletionStream, FiniteSetTheorems, TLAPS

UsageInv ==
    \/ assembly.usage = Absent /\ \A i \in 1..Len(read) : ~HasUsage(i)
    \/ \E i \in 1..Len(read) :
           /\ HasUsage(i)
           /\ \A j \in i + 1..Len(read) : ~HasUsage(j)
           /\ assembly.usage = read[i].chunk.usage

ModelInv ==
    \/ assembly.model = Absent /\ \A i \in 1..Len(read) : ~HasModel(i)
    \/ \E i \in 1..Len(read) :
           /\ HasModel(i)
           /\ \A j \in i + 1..Len(read) : ~HasModel(j)
           /\ assembly.model = read[i].chunk.model

ErrorInv == assembly.choiceError <=> \E i \in 1..Len(read) : HasError(i)

\* [DONE] and a choice error are the last lines read.
ReadInv ==
    \A i \in 1..Len(read) :
        read[i].kind = "done" \/ HasError(i) => i = Len(read) /\ pc # "reading"

EndInv ==
    /\ pc = "reading" => ~assembly.choiceError
    /\ pc = "returned" => ~assembly.choiceError /\ ~Malformed /\ result = Result
    /\ pc = "raised" => assembly.choiceError \/ Malformed

IInv ==
    /\ TypeOK
    /\ UsageInv
    /\ ModelInv
    /\ ErrorInv
    /\ EndInv
    /\ ReadInv

-------------------------------------------------------------------------------

\* A chunk turns an assembly into an assembly.
LEMMA ApplyType ==
    ASSUME NEW a \in Assemblies, NEW chunk \in Chunks
    PROVE  Apply(a, chunk) \in Assemblies
<1>1. chunk \in ChunkType
  BY ChunkAssumption
<1>2. TakeMetadata(a, chunk) \in Assemblies
  <2> DEFINE model == IF chunk.model \in {Absent, Empty} THEN a.model ELSE chunk.model
             provider == IF chunk.provider = Absent THEN a.provider ELSE chunk.provider
             usage == IF chunk.usage = Absent THEN a.usage ELSE chunk.usage
  <2>1. model \in Names \union {Absent}
    BY <1>1 DEF Assemblies, ChunkType, Strings
  <2>2. provider \in Strings
    BY <1>1 DEF Assemblies, ChunkType
  <2>3. usage \in Usages \union {Absent}
    BY <1>1 DEF Assemblies, ChunkType
  <2>4. TakeMetadata(a, chunk)
            = [a EXCEPT !.model = model, !.provider = provider, !.usage = usage]
    BY DEF TakeMetadata
  <2> HIDE DEF model, provider, usage
  <2> QED
    BY <2>1, <2>2, <2>3, <2>4 DEF Assemblies
<1>3. ASSUME NEW b \in Assemblies
      PROVE  TakeDelta(b, chunk) \in Assemblies
  <2>1. chunk.piece # Absent => Append(b.content, chunk.piece) \in Seq(Pieces)
    BY <1>1, <1>3 DEF Assemblies, ChunkType
  <2> QED
    BY <1>1, <1>3, <2>1 DEF TakeDelta, Assemblies, ChunkType
<1>4. ASSUME NEW b \in Assemblies
      PROVE  [b EXCEPT !.choiceError = TRUE] \in Assemblies
  BY <1>4 DEF Assemblies
<1>5. chunk.choice \in {"absent", "error", "delta"}
  BY <1>1 DEF ChunkType
<1> QED
  BY <1>2, <1>3, <1>4, <1>5 DEF Apply

\* What a chunk does to the fields the invariant speaks of.
LEMMA ApplyFields ==
    ASSUME NEW a \in Assemblies, NEW chunk \in Chunks
    PROVE  /\ Apply(a, chunk).usage = IF chunk.usage = Absent THEN a.usage ELSE chunk.usage
           /\ Apply(a, chunk).model = IF chunk.model \in {Absent, Empty} THEN a.model
                                      ELSE chunk.model
           /\ Apply(a, chunk).choiceError = (IF chunk.choice = "error" THEN TRUE
                                             ELSE a.choiceError)
<1>1. chunk.choice \in {"absent", "error", "delta"}
  BY ChunkAssumption DEF ChunkType
<1> DEFINE b == TakeMetadata(a, chunk)
<1>2. /\ b.usage = IF chunk.usage = Absent THEN a.usage ELSE chunk.usage
      /\ b.model = IF chunk.model \in {Absent, Empty} THEN a.model ELSE chunk.model
      /\ b.choiceError = a.choiceError
      /\ b \in Assemblies
  BY ChunkAssumption DEF TakeMetadata, Assemblies, ChunkType, Strings
<1>3. /\ TakeDelta(b, chunk).usage = b.usage
      /\ TakeDelta(b, chunk).model = b.model
      /\ TakeDelta(b, chunk).choiceError = b.choiceError
  BY <1>2 DEF TakeDelta, Assemblies
<1>4. /\ [b EXCEPT !.choiceError = TRUE].usage = b.usage
      /\ [b EXCEPT !.choiceError = TRUE].model = b.model
      /\ [b EXCEPT !.choiceError = TRUE].choiceError = TRUE
  BY <1>2 DEF Assemblies
<1>5. Apply(a, chunk) = CASE chunk.choice = "absent" -> b
                          [] chunk.choice = "error"  -> [b EXCEPT !.choiceError = TRUE]
                          [] chunk.choice = "delta"  -> TakeDelta(b, chunk)
  BY DEF Apply
<1> HIDE DEF b
<1>6. CASE chunk.choice = "absent"
  BY <1>6, <1>5, <1>2
<1>7. CASE chunk.choice = "error"
  BY <1>7, <1>5, <1>2, <1>4
<1>8. CASE chunk.choice = "delta"
  BY <1>8, <1>5, <1>2, <1>3
<1> QED
  BY <1>1, <1>6, <1>7, <1>8

LEMMA InitIInv == Init => IInv
BY DEF Init, IInv, TypeOK, Assemblies, Strings, UsageInv, ModelInv, ErrorInv, EndInv,
       ReadInv

\* A line is read: the lines before it stay what they were.
LEMMA ReceiveKeepsIInv ==
    ASSUME IInv, NEW line \in Lines, Receive(line)
    PROVE  IInv'
<1> DEFINE n == Len(read)
<1>1. /\ n \in Nat /\ Len(read') = n + 1 /\ read' \in Seq(Lines)
      /\ read'[n + 1] = line
      /\ \A i \in 1..n : read'[i] = read[i]
  BY DEF IInv, TypeOK, Receive
\* Primed, Len(read) is the line just read.
<1>2. /\ \A i \in 1..n : /\ HasUsage(i)' <=> HasUsage(i)
                         /\ HasModel(i)' <=> HasModel(i)
                         /\ HasError(i)' <=> HasError(i)
      /\ HasUsage(Len(read))' <=> line.kind = "chunk" /\ line.chunk.usage # Absent
      /\ HasModel(Len(read))' <=> line.kind = "chunk" /\ line.chunk.model \notin {Absent, Empty}
      /\ HasError(Len(read))' <=> line.kind = "chunk" /\ line.chunk.choice = "error"
  BY <1>1 DEF HasUsage, HasModel, HasError, IsChunk
<1>3. /\ pc = "reading" /\ ~assembly.choiceError /\ \A i \in 1..n : ~HasError(i)
      /\ \A i \in 1..n : read[i].kind # "done"
      /\ result' = result
  BY DEF IInv, EndInv, ErrorInv, ReadInv, Receive
<1>4. line.kind = "chunk" => line.chunk \in Chunks
  BY DEF Lines
<1>5. /\ line.kind = "chunk" => /\ assembly' = Apply(assembly, line.chunk)
                                /\ pc' = IF assembly'.choiceError THEN "closing" ELSE "reading"
      /\ line.kind # "chunk" => assembly' = assembly
      /\ line.kind = "done" => pc' = "closing"
      /\ pc' \in {"reading", "closing"}
  BY <1>3 DEF Receive, Skip, Done, Take
<1>6. assembly \in Assemblies
  BY DEF IInv, TypeOK
<1>7. TypeOK'
  BY <1>1, <1>3, <1>4, <1>5, <1>6, ApplyType DEF IInv, TypeOK
<1>8. /\ assembly'.usage = IF HasUsage(Len(read))' THEN line.chunk.usage ELSE assembly.usage
      /\ assembly'.model = IF HasModel(Len(read))' THEN line.chunk.model ELSE assembly.model
      /\ assembly'.choiceError <=> HasError(Len(read))'
  <2>1. CASE line.kind = "chunk"
    <3> DEFINE chunk == line.chunk
    <3>1. /\ assembly'.usage = IF chunk.usage = Absent THEN assembly.usage ELSE chunk.usage
          /\ assembly'.model = IF chunk.model \in {Absent, Empty} THEN assembly.model
                               ELSE chunk.model
          /\ assembly'.choiceError = (IF chunk.choice = "error" THEN TRUE
                                      ELSE assembly.choiceError)
      <4>1. chunk \in Chunks /\ assembly' = Apply(assembly, chunk)
        BY <2>1, <1>4, <1>5
      <4> HIDE DEF chunk
      <4> QED
        BY <4>1, <1>6, ApplyFields
    <3> QED
      BY <2>1, <3>1, <1>2, <1>3
  <2>2. CASE line.kind # "chunk"
    BY <2>2, <1>2, <1>3, <1>5
  <2> QED
    BY <2>1, <2>2
<1>9. UsageInv'
  <2>1. CASE HasUsage(Len(read))'
    BY <2>1, <1>1, <1>8 DEF UsageInv
  <2>2. CASE ~HasUsage(Len(read))'
    <3>1. CASE assembly.usage = Absent /\ \A i \in 1..n : ~HasUsage(i)
      BY <3>1, <2>2, <1>1, <1>2, <1>8 DEF UsageInv
    <3>2. CASE \E i \in 1..n : /\ HasUsage(i)
                               /\ \A j \in i + 1..n : ~HasUsage(j)
                               /\ assembly.usage = read[i].chunk.usage
      <4>1. PICK i \in 1..n : /\ HasUsage(i)
                              /\ \A j \in i + 1..n : ~HasUsage(j)
                              /\ assembly.usage = read[i].chunk.usage
        BY <3>2
      <4>2. /\ i \in 1..Len(read') /\ HasUsage(i)'
            /\ assembly'.usage = read'[i].chunk.usage
            /\ \A j \in i + 1..Len(read') : ~HasUsage(j)'
        BY <4>1, <2>2, <1>1, <1>2, <1>8
      <4> QED
        BY <4>2 DEF UsageInv
    <3> QED
      BY <3>1, <3>2 DEF IInv, UsageInv
  <2> QED
    BY <2>1, <2>2
<1>10. ModelInv'
  <2>1. CASE HasModel(Len(read))'
    BY <2>1, <1>1, <1>8 DEF ModelInv
  <2>2. CASE ~HasModel(Len(read))'
    <3>1. CASE assembly.model = Absent /\ \A i \in 1..n : ~HasModel(i)
      BY <3>1, <2>2, <1>1, <1>2, <1>8 DEF ModelInv
    <3>2. CASE \E i \in 1..n : /\ HasModel(i)
                               /\ \A j \in i + 1..n : ~HasModel(j)
                               /\ assembly.model = read[i].chunk.model
      <4>1. PICK i \in 1..n : /\ HasModel(i)
                              /\ \A j \in i + 1..n : ~HasModel(j)
                              /\ assembly.model = read[i].chunk.model
        BY <3>2
      <4>2. /\ i \in 1..Len(read') /\ HasModel(i)'
            /\ assembly'.model = read'[i].chunk.model
            /\ \A j \in i + 1..Len(read') : ~HasModel(j)'
        BY <4>1, <2>2, <1>1, <1>2, <1>8
      <4> QED
        BY <4>2 DEF ModelInv
    <3> QED
      BY <3>1, <3>2 DEF IInv, ModelInv
  <2> QED
    BY <2>1, <2>2
<1>11. ErrorInv'
  BY <1>1, <1>2, <1>3, <1>8 DEF ErrorInv
<1>12. EndInv'
  BY <1>3, <1>5, <1>8, <1>2 DEF EndInv
<1>13. ReadInv'
  <2> SUFFICES ASSUME NEW i \in 1..Len(read'), read'[i].kind = "done" \/ HasError(i)'
               PROVE  i = Len(read') /\ pc' # "reading"
    BY DEF ReadInv
  <2>1. i = n + 1
    BY <1>1, <1>2, <1>3
  <2> QED
    BY <2>1, <1>1, <1>2, <1>5, <1>8
<1> QED
  BY <1>7, <1>9, <1>10, <1>11, <1>12, <1>13 DEF IInv

\* The handed over result is well typed: its cost was accounted for.
LEMMA ResultType ==
    ASSUME TypeOK, ~Malformed
    PROVE  Result \in Results
<1>1. assembly \in Assemblies
  BY DEF TypeOK
<1>2. CASE assembly.usage = Absent
  BY <1>1, <1>2, ModelAssumption DEF Result, Results, Assemblies
<1>3. CASE assembly.usage # Absent
  <2>1. assembly.usage \in Usages /\ assembly.usage.cost # "malformed"
    BY <1>1, <1>3 DEF Assemblies, Malformed
  <2>2. /\ assembly.usage.cost \in {"none", "known"}
        /\ (IF assembly.usage.tokens = Absent THEN 0 ELSE assembly.usage.tokens) \in Nat
    BY <2>1 DEF Usages
  <2> QED
    BY <1>1, <1>3, <2>2, ModelAssumption DEF Result, Results, Assemblies
<1> QED
  BY <1>2, <1>3

\* A step that leaves the assembly and the lines alone keeps what relates them.
LEMMA SourcesKept ==
    ASSUME IInv, UNCHANGED <<assembly, read>>, pc' # "reading"
    PROVE  UsageInv' /\ ModelInv' /\ ErrorInv' /\ ReadInv'
<1>1. /\ \A i : /\ HasUsage(i)' <=> HasUsage(i)
                /\ HasModel(i)' <=> HasModel(i)
                /\ HasError(i)' <=> HasError(i)
      /\ read' = read /\ assembly' = assembly
  BY DEF HasUsage, HasModel, HasError, IsChunk
<1>2. UsageInv'
  BY <1>1 DEF IInv, UsageInv
<1>3. ModelInv'
  BY <1>1 DEF IInv, ModelInv
<1>4. ErrorInv'
  BY <1>1 DEF IInv, ErrorInv
<1>5. ReadInv'
  BY <1>1 DEF IInv, ReadInv
<1> QED
  BY <1>2, <1>3, <1>4, <1>5

LEMMA NextIInv == IInv /\ [Next]_vars => IInv'
<1> SUFFICES ASSUME IInv, [Next]_vars
             PROVE  IInv'
  OBVIOUS
<1>1. ASSUME NEW line \in Lines, Receive(line)
      PROVE  IInv'
  BY <1>1, ReceiveKeepsIInv
<1>2. CASE EndOfStream
  <2>1. UsageInv' /\ ModelInv' /\ ErrorInv' /\ ReadInv'
    BY <1>2, SourcesKept DEF EndOfStream
  <2>2. TypeOK' /\ EndInv'
    BY <1>2 DEF IInv, EndInv, TypeOK, EndOfStream
  <2> QED
    BY <2>1, <2>2 DEF IInv
<1>3. CASE RaiseUpstreamError
  <2>1. UsageInv' /\ ModelInv' /\ ErrorInv' /\ ReadInv'
    BY <1>3, SourcesKept DEF RaiseUpstreamError
  <2>2. TypeOK' /\ EndInv'
    BY <1>3 DEF IInv, EndInv, TypeOK, RaiseUpstreamError, Malformed
  <2> QED
    BY <2>1, <2>2 DEF IInv
<1>4. CASE Return
  <2>1. UsageInv' /\ ModelInv' /\ ErrorInv' /\ ReadInv'
    BY <1>4, SourcesKept DEF Return
  <2>2. TypeOK'
    BY <1>4, ResultType DEF IInv, TypeOK, Return
  <2>3. EndInv'
    <3>1. Result' = Result /\ (Malformed' <=> Malformed)
      BY <1>4 DEF Return, Result, Malformed
    <3> QED
      BY <1>4, <3>1 DEF EndInv, Return
  <2> QED
    BY <2>1, <2>2, <2>3 DEF IInv
<1>5. CASE Break
  <2>1. UsageInv' /\ ModelInv' /\ ErrorInv' /\ ReadInv'
    BY <1>5, SourcesKept DEF Break
  <2>2. TypeOK' /\ EndInv'
    BY <1>5 DEF IInv, EndInv, TypeOK, Break
  <2> QED
    BY <2>1, <2>2 DEF IInv
<1>6. CASE UNCHANGED vars
  BY <1>6 DEF vars, IInv, TypeOK, UsageInv, ModelInv, ErrorInv, EndInv, ReadInv,
              HasUsage, HasModel, HasError, IsChunk, Malformed, Result
<1> QED
  BY <1>1, <1>2, <1>3, <1>4, <1>5, <1>6 DEF Next

THEOREM Inductive == Spec => []IInv
BY InitIInv, NextIInv, PTL DEF Spec

-------------------------------------------------------------------------------

\* An attempt assembles what it says it does, from any stream: type correctness.
THEOREM TypeCorrect == Spec => []TypeOK
<1>1. IInv => TypeOK
  BY DEF IInv
<1> QED
  BY <1>1, Inductive, PTL

\* Recorded tokens and cost are those of the last usage object of the stream.
THEOREM UsageAlwaysLatest == Spec => []UsageIsLatest
<1>1. IInv => UsageIsLatest
  <2> SUFFICES ASSUME IInv, pc = "returned"
               PROVE  UsageIsLatest
    BY DEF UsageIsLatest
  <2>1. result = Result
    BY DEF IInv, EndInv
  <2>2. CASE assembly.usage = Absent /\ \A i \in 1..Len(read) : ~HasUsage(i)
    BY <2>1, <2>2, AbsentAssumption DEF UsageIsLatest, Result
  <2>3. CASE \E i \in 1..Len(read) :
                 /\ HasUsage(i)
                 /\ \A j \in i + 1..Len(read) : ~HasUsage(j)
                 /\ assembly.usage = read[i].chunk.usage
    <3>1. PICK i \in 1..Len(read) :
                 /\ HasUsage(i)
                 /\ \A j \in i + 1..Len(read) : ~HasUsage(j)
                 /\ assembly.usage = read[i].chunk.usage
      BY <2>3
    <3>2. assembly.usage # Absent
      BY <3>1 DEF HasUsage
    <3>3. /\ result.tokens = (IF read[i].chunk.usage.tokens = Absent THEN 0
                              ELSE read[i].chunk.usage.tokens)
          /\ result.cost = read[i].chunk.usage.cost
      BY <2>1, <3>1, <3>2 DEF Result
    <3> QED
      BY <3>1, <3>3 DEF UsageIsLatest
  <2> QED
    BY <2>2, <2>3 DEF IInv, UsageInv
<1> QED
  BY <1>1, Inductive, PTL

\* A result names the model last named, or the requested one.
THEOREM ModelAlwaysLatest == Spec => []ModelIsLatest
<1>1. IInv => ModelIsLatest
  <2> SUFFICES ASSUME IInv, pc = "returned"
               PROVE  ModelIsLatest
    BY DEF ModelIsLatest
  <2>1. result.model = IF assembly.model = Absent THEN RequestModel ELSE assembly.model
    BY DEF IInv, EndInv, Result
  <2>2. CASE assembly.model = Absent /\ \A i \in 1..Len(read) : ~HasModel(i)
    BY <2>1, <2>2 DEF ModelIsLatest
  <2>3. CASE \E i \in 1..Len(read) :
                 /\ HasModel(i)
                 /\ \A j \in i + 1..Len(read) : ~HasModel(j)
                 /\ assembly.model = read[i].chunk.model
    BY <2>1, <2>3 DEF ModelIsLatest, HasModel
  <2> QED
    BY <2>2, <2>3 DEF IInv, ModelInv
<1> QED
  BY <1>1, Inductive, PTL

\* A stream with a failed choice or an unaccountable cost yields no result.
THEOREM FailuresNeverReturned == Spec => []FailuresAreNotReturned
<1>1. IInv => FailuresAreNotReturned
  <2> SUFFICES ASSUME IInv, pc = "returned"
               PROVE  FailuresAreNotReturned
    BY DEF FailuresAreNotReturned
  <2>1. ~assembly.choiceError /\ ~Malformed /\ result = Result
    BY DEF IInv, EndInv
  <2>2. \A i \in 1..Len(read) : ~HasError(i)
    BY <2>1 DEF IInv, ErrorInv
  <2>3. result \in Results
    BY <2>1, ResultType DEF IInv
  <2> QED
    BY <2>2, <2>3 DEF FailuresAreNotReturned, Results
<1> QED
  BY <1>1, Inductive, PTL

\* UpstreamError is raised only for a reported error or a malformed last cost.
THEOREM AlwaysRaisedForCause == Spec => []RaisedForCause
<1>1. IInv => RaisedForCause
  <2> SUFFICES ASSUME IInv, pc = "raised"
               PROVE  RaisedForCause
    BY DEF RaisedForCause
  <2>1. CASE assembly.choiceError
    BY <2>1 DEF IInv, ErrorInv, RaisedForCause
  <2>2. CASE Malformed
    BY <2>2 DEF IInv, UsageInv, Malformed, RaisedForCause
  <2> QED
    BY <2>1, <2>2 DEF IInv, EndInv
<1> QED
  BY <1>1, Inductive, PTL

\* Whichever chunks brought them, a result has the last usage and model.
THEOREM MetadataAlwaysLatest == Spec => []MetadataIsLatest
BY UsageAlwaysLatest, ModelAlwaysLatest, PTL DEF MetadataIsLatest

\* An attempt fails if the stream says so, and only then.
THEOREM AlwaysFailsWithCause == Spec => []FailsWithCause
BY FailuresNeverReturned, AlwaysRaisedForCause, PTL DEF FailsWithCause

-------------------------------------------------------------------------------
(* The content.                                                             *)

\* The content assembled is what the lines read so far told, in their order.
ContentInv ==
    /\ Len(assembly.content) = Cardinality(Told(Len(read)))
    /\ \A i \in Told(Len(read)) :
          assembly.content[Cardinality(Told(i))] = read[i].chunk.piece

\* Told(i) counts the lines up to i that bring a piece.
LEMMA ToldCount ==
    ASSUME NEW n \in Nat
    PROVE  /\ IsFiniteSet(Told(n)) /\ Cardinality(Told(n)) \in Nat
           /\ \A i \in Told(n) : Cardinality(Told(i)) \in 1..Cardinality(Told(n))
<1>1. \A m \in Nat : IsFiniteSet(Told(m)) /\ Cardinality(Told(m)) \in Nat
  <2> SUFFICES ASSUME NEW m \in Nat
               PROVE  IsFiniteSet(Told(m)) /\ Cardinality(Told(m)) \in Nat
    OBVIOUS
  <2>1. IsFiniteSet(1..m)
    BY FS_Interval
  <2>2. Told(m) \in SUBSET (1..m)
    BY DEF Told
  <2> QED
    BY <2>1, <2>2, FS_Subset, FS_CardinalityType
<1>2. ASSUME NEW i \in Told(n)
      PROVE  Cardinality(Told(i)) \in 1..Cardinality(Told(n))
  <2>1. i \in 1..n /\ i \in Told(i)
    BY DEF Told
  <2>2. Told(i) \in SUBSET Told(n)
    BY <2>1 DEF Told
  <2>3. Cardinality(Told(i)) <= Cardinality(Told(n))
    BY <1>1, <2>2, FS_Subset
  <2>4. Cardinality(Told(i)) # 0
    BY <1>1, <2>1, FS_EmptySet
  <2> QED
    BY <1>1, <2>1, <2>3, <2>4
<1> QED
  BY <1>1, <1>2

\* What a chunk adds to the content.
LEMMA ApplyContent ==
    ASSUME NEW a \in Assemblies, NEW chunk \in Chunks
    PROVE  Apply(a, chunk).content =
               IF chunk.choice = "delta" /\ chunk.piece # Absent
               THEN Append(a.content, chunk.piece) ELSE a.content
<1>1. chunk.choice \in {"absent", "error", "delta"}
  BY ChunkAssumption DEF ChunkType
<1> DEFINE b == TakeMetadata(a, chunk)
<1>2. b \in Assemblies /\ b.content = a.content
  BY ChunkAssumption DEF TakeMetadata, Assemblies, ChunkType, Strings
<1>3. TakeDelta(b, chunk).content = IF chunk.piece = Absent THEN b.content
                                    ELSE Append(b.content, chunk.piece)
  BY <1>2 DEF TakeDelta, Assemblies
<1>4. [b EXCEPT !.choiceError = TRUE].content = b.content
  BY <1>2 DEF Assemblies
<1>5. Apply(a, chunk) = CASE chunk.choice = "absent" -> b
                          [] chunk.choice = "error"  -> [b EXCEPT !.choiceError = TRUE]
                          [] chunk.choice = "delta"  -> TakeDelta(b, chunk)
  BY DEF Apply
<1> HIDE DEF b
<1>6. CASE chunk.choice = "absent"
  BY <1>6, <1>5, <1>2
<1>7. CASE chunk.choice = "error"
  BY <1>7, <1>5, <1>2, <1>4
<1>8. CASE chunk.choice = "delta"
  BY <1>8, <1>5, <1>2, <1>3
<1> QED
  BY <1>1, <1>6, <1>7, <1>8

LEMMA InitContentInv == Init => ContentInv
<1> SUFFICES ASSUME Init PROVE ContentInv
  OBVIOUS
<1>1. read = <<>> /\ assembly.content = <<>>
  BY DEF Init
<1>2. Told(Len(read)) = {}
  BY <1>1 DEF Told
<1> QED
  BY <1>1, <1>2, FS_EmptySet DEF ContentInv

\* A line adds its piece, if it has one, behind those told before.
LEMMA ReceiveKeepsContent ==
    ASSUME TypeOK, ContentInv, NEW line \in Lines, Receive(line)
    PROVE  ContentInv'
<1> DEFINE n == Len(read)
           Tells == line.kind = "chunk" /\ line.chunk.choice = "delta"
                    /\ line.chunk.piece # Absent
           before == assembly.content
<1>1. /\ n \in Nat /\ Len(read') = n + 1 /\ read' \in Seq(Lines)
      /\ read'[n + 1] = line
      /\ \A i \in 1..n : read'[i] = read[i]
  BY DEF TypeOK, Receive
<1>2. before \in Seq(Pieces) /\ Len(before) \in Nat
  BY DEF TypeOK, Assemblies
<1>3. /\ \A i \in 1..n : TellsPiece(i)' <=> TellsPiece(i)
      /\ TellsPiece(Len(read))' <=> Tells
  BY <1>1 DEF TellsPiece, IsChunk
<1>4. /\ assembly'.content = IF Tells THEN Append(before, line.chunk.piece) ELSE before
      /\ Tells => line.chunk.piece \in Pieces
  <2>1. CASE line.kind = "chunk"
    <3>1. line.chunk \in Chunks /\ assembly \in Assemblies
      BY <2>1 DEF Lines, TypeOK
    <3>2. assembly' = Apply(assembly, line.chunk)
      BY <2>1 DEF Receive, Skip, Done, Take
    <3>3. line.chunk.piece \in Pieces \union {Absent}
      BY <3>1, ChunkAssumption DEF ChunkType
    <3>4. assembly'.content =
              IF line.chunk.choice = "delta" /\ line.chunk.piece # Absent
              THEN Append(assembly.content, line.chunk.piece) ELSE assembly.content
      BY <3>1, <3>2, ApplyContent
    <3> QED
      BY <2>1, <3>3, <3>4
  <2>2. CASE line.kind # "chunk"
    BY <2>2 DEF Receive, Skip, Done, Take
  <2> QED
    BY <2>1, <2>2
<1>5. \A m \in 0..n : Told(m)' = Told(m)
  BY <1>1, <1>3 DEF Told
<1>6. Told(Len(read))' = IF Tells THEN Told(n) \union {n + 1} ELSE Told(n)
  <2>1. Told(Len(read))' = {i \in 1..n + 1 : TellsPiece(i)'}
    BY <1>1 DEF Told
  <2>2. \A i \in 1..n + 1 : TellsPiece(i)' <=> IF i = n + 1 THEN Tells ELSE TellsPiece(i)
    BY <1>1 DEF TellsPiece, IsChunk
  <2>3. \A i : i \in 1..n + 1 <=> i \in 1..n \/ i = n + 1
    BY <1>1
  <2> QED
    BY <1>1, <2>1, <2>2, <2>3 DEF Told
<1>7. /\ IsFiniteSet(Told(n)) /\ Cardinality(Told(n)) \in Nat
      /\ \A i \in Told(n) : Cardinality(Told(i)) \in 1..Cardinality(Told(n))
      /\ n + 1 \notin Told(n)
  <2>1. n + 1 \notin Told(n)
    BY <1>1 DEF Told
  <2> QED
    BY <1>1, <2>1, ToldCount
<1>8. /\ Len(before) = Cardinality(Told(n))
      /\ \A i \in Told(n) : before[Cardinality(Told(i))] = read[i].chunk.piece
  BY DEF ContentInv
<1>9. ASSUME NEW i \in Told(n)
      PROVE  /\ read'[i] = read[i] /\ Told(i)' = Told(i)
             /\ assembly'.content[Cardinality(Told(i))] = read[i].chunk.piece
  <2>1. i \in 1..n /\ i \in 0..n
    BY <1>1 DEF Told
  <2>2. Cardinality(Told(i)) \in 1..Len(before)
    BY <1>7, <1>8
  <2>3. assembly'.content[Cardinality(Told(i))] = before[Cardinality(Told(i))]
    BY <1>2, <1>4, <2>2
  <2> QED
    BY <1>1, <1>5, <1>8, <2>1, <2>3
<1>10. CASE ~Tells
  <2>1. Told(Len(read))' = Told(n) /\ assembly'.content = before
    BY <1>4, <1>6, <1>10
  <2>2. \A i \in Told(n) : assembly'.content[Cardinality(Told(i)')] = read'[i].chunk.piece
    BY <1>9
  <2> QED
    BY <1>8, <2>1, <2>2 DEF ContentInv
<1>11. CASE Tells
  <2>1. /\ Told(Len(read))' = Told(n) \union {n + 1}
        /\ assembly'.content = Append(before, line.chunk.piece)
        /\ line.chunk.piece \in Pieces
    BY <1>4, <1>6, <1>11
  <2>2. Cardinality(Told(n) \union {n + 1}) = Cardinality(Told(n)) + 1
    BY <1>7, FS_AddElement
  <2>3. /\ Len(assembly'.content) = Len(before) + 1
        /\ assembly'.content[Len(before) + 1] = line.chunk.piece
    BY <1>2, <2>1
  <2>4. ASSUME NEW i \in Told(n) \union {n + 1}
        PROVE  assembly'.content[Cardinality(Told(i)')] = read'[i].chunk.piece
    <3>1. CASE i \in Told(n)
      BY <1>9, <3>1
    <3>2. CASE i = n + 1
      <4>1. Told(i)' = Told(n) \union {n + 1}
        BY <1>1, <2>1, <3>2
      <4> QED
        BY <1>1, <1>8, <2>2, <2>3, <3>2, <4>1
    <3> QED
      BY <3>1, <3>2
  <2>5. Len(assembly'.content) = Cardinality(Told(Len(read))')
    BY <1>8, <2>1, <2>2, <2>3
  <2> QED
    BY <2>1, <2>4, <2>5 DEF ContentInv
<1> QED
  BY <1>10, <1>11

LEMMA NextContentInv == TypeOK /\ ContentInv /\ [Next]_vars => ContentInv'
<1> SUFFICES ASSUME TypeOK, ContentInv, [Next]_vars PROVE ContentInv'
  OBVIOUS
<1>1. ASSUME NEW line \in Lines, Receive(line) PROVE ContentInv'
  BY <1>1, ReceiveKeepsContent
<1>2. CASE UNCHANGED <<assembly, read>>
  <2>1. \A m : Told(m)' = Told(m)
    BY <1>2 DEF Told, TellsPiece, IsChunk
  <2> QED
    BY <1>2, <2>1 DEF ContentInv
<1> QED
  BY <1>1, <1>2 DEF Next, EndOfStream, RaiseUpstreamError, Return, Break, vars

\* The content handed over is every piece of the stream, once and in order.
THEOREM ContentAlwaysFaithful == Spec => []ContentFaithful
<1>1. ContentInv /\ IInv => ContentFaithful
  <2> SUFFICES ASSUME ContentInv, IInv, pc = "returned" PROVE ContentFaithful
    BY DEF ContentFaithful
  <2>1. result.content = assembly.content
    BY DEF IInv, EndInv, Result
  <2> QED
    BY <2>1 DEF ContentInv, ContentFaithful
<1>2. Spec => []ContentInv
  BY InitContentInv, NextContentInv, TypeCorrect, PTL DEF Spec
<1> QED
  BY <1>1, <1>2, Inductive, PTL
===============================================================================
