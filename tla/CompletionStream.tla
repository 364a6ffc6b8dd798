--------------------------- MODULE CompletionStream ---------------------------
(***************************************************************************)
(* One answer of the provider, from the first line of its event stream to  *)
(* the result an attempt hands to OpenRouterClient.  The provider sends    *)
(* lines in any order, keepalives and unreadable ones between them; the    *)
(* stream ends with [DONE], without it, or breaks.  A text is a sequence   *)
(* of pieces; of a JSON value only what the assembly looks at is kept.     *)
(***************************************************************************)
EXTENDS Integers, Sequences, FiniteSets

CONSTANTS
    Absent,        \* None, null, a missing key, or a value of another type
    Empty,         \* the empty string, as a model or provider
    Names,         \* the other names of models and providers
    Pieces,        \* what a delta may contribute to the content
    RequestModel,  \* request.model
    Chunks,        \* the chunks the provider may send
    MaxLines       \* bound on the lines of one stream

\* The usage object of a chunk: tokens stands for each of its counts.
Usages == [tokens : Nat \union {Absent}, cost : {"none", "known", "malformed"}]

Strings == Names \union {Empty, Absent}

\* What the assembly reads from a chunk; choice is the first of its choices.
ChunkType ==
    [model : Strings, provider : Strings, usage : Usages \union {Absent},
     choice : {"absent", "error", "delta"}, piece : Pieces \union {Absent},
     finish : {"stop", "length", "absent"}]

Lines ==
    [kind : {"blank", "comment", "undecodable", "done"}]
        \union [kind : {"chunk"}, chunk : Chunks]

ASSUME ChunkAssumption == Chunks \subseteq ChunkType
ASSUME AbsentAssumption == Absent \notin Names \union Pieces \union Usages \union {Empty}
ASSUME ModelAssumption == RequestModel \in Names /\ Empty \notin Names

VARIABLES
    pc,         \* "reading", "closing", or how the attempt ended
    assembly,   \* the StreamAssembly
    result,     \* the OpenRouterResult handed over, or Absent
    read        \* the lines taken from the stream, oldest first

vars == <<pc, assembly, result, read>>

Assemblies ==
    [content : Seq(Pieces), model : Names \union {Absent}, provider : Strings,
     usage : Usages \union {Absent}, finish : {"stop", "length", "absent"},
     choiceError : BOOLEAN]

Results ==
    [content : Seq(Pieces), model : Names, provider : Strings, tokens : Nat,
     cost : {"none", "known"}]

TypeOK ==
    /\ pc \in {"reading", "closing", "returned", "raised", "broken"}
    /\ assembly \in Assemblies
    /\ result \in Results \union {Absent}
    /\ read \in Seq(Lines)

Init ==
    /\ pc = "reading"
    /\ assembly = [content |-> <<>>, model |-> Absent, provider |-> Absent,
                   usage |-> Absent, finish |-> "absent", choiceError |-> FALSE]
    /\ result = Absent
    /\ read = <<>>

-------------------------------------------------------------------------------
(* The assembly.                                                            *)

\* Faulty: the first usage object is kept.
TakeMetadataFirstUsage(a, chunk) ==
    [a EXCEPT !.model    = IF chunk.model \in {Absent, Empty} THEN a.model ELSE chunk.model,
              !.provider = IF chunk.provider = Absent THEN a.provider ELSE chunk.provider,
              !.usage    = IF a.usage # Absent THEN a.usage ELSE chunk.usage]

\* A model must be named; a provider need only be there, an empty one too.
TakeMetadata(a, chunk) ==
    [a EXCEPT !.model    = IF chunk.model \in {Absent, Empty} THEN a.model ELSE chunk.model,
              !.provider = IF chunk.provider = Absent THEN a.provider ELSE chunk.provider,
              !.usage    = IF chunk.usage = Absent THEN a.usage ELSE chunk.usage]

\* Faulty: a delta without text is appended all the same.
TakeDeltaUnchecked(a, chunk) ==
    [a EXCEPT !.content = Append(a.content, chunk.piece)]

\* Faulty: the piece that comes with a finish reason is dropped.
TakeDeltaUnlessFinished(a, chunk) ==
    [a EXCEPT !.content = IF chunk.piece = Absent \/ chunk.finish # "absent" THEN a.content
                          ELSE Append(a.content, chunk.piece),
              !.finish = IF chunk.finish = "absent" THEN a.finish ELSE chunk.finish]

TakeDelta(a, chunk) ==
    [a EXCEPT !.content = IF chunk.piece = Absent THEN a.content
                          ELSE Append(a.content, chunk.piece),
              !.finish  = IF chunk.finish = "absent" THEN a.finish ELSE chunk.finish]

\* Faulty: the error of a chunk is passed over.
ApplyIgnoringError(a, chunk) ==
    LET b == TakeMetadata(a, chunk)
    IN IF chunk.choice = "delta" THEN TakeDelta(b, chunk) ELSE b

\* _apply_chunk: metadata first; an error keeps the choice's text out.
Apply(a, chunk) ==
    LET b == TakeMetadata(a, chunk)
    IN CASE chunk.choice = "absent" -> b
         [] chunk.choice = "error"  -> [b EXCEPT !.choiceError = TRUE]
         [] chunk.choice = "delta"  -> TakeDelta(b, chunk)

-------------------------------------------------------------------------------
(* The reader.                                                              *)

\* Keepalives, other fields, and data that is not a JSON object.
Skip(line) ==
    line.kind \in {"blank", "comment", "undecodable"} /\ UNCHANGED <<pc, assembly>>

Done(line) ==
    line.kind = "done" /\ pc' = "closing" /\ UNCHANGED assembly

Take(line) ==
    /\ line.kind = "chunk"
    /\ assembly' = Apply(assembly, line.chunk)
    /\ pc' = IF assembly'.choiceError THEN "closing" ELSE "reading"

Receive(line) ==
    /\ pc = "reading"
    /\ Len(read) < MaxLines
    /\ read' = Append(read, line)
    /\ Skip(line) \/ Done(line) \/ Take(line)
    /\ UNCHANGED result

\* The provider closes the stream without [DONE]: the loop just ends.
EndOfStream ==
    /\ pc = "reading"
    /\ pc' = "closing"
    /\ UNCHANGED <<assembly, result, read>>

\* _decimal_usage_cost raises on it.
Malformed == assembly.usage # Absent /\ assembly.usage.cost = "malformed"

\* The response is closed, then the error of the stream or of its cost goes on.
RaiseUpstreamError ==
    /\ pc = "closing"
    /\ assembly.choiceError \/ Malformed
    /\ pc' = "raised"
    /\ UNCHANGED <<assembly, result, read>>

\* The result of _run_attempt.
Result ==
    LET usage == IF assembly.usage = Absent THEN [tokens |-> 0, cost |-> "none"]
                 ELSE assembly.usage
    IN [content  |-> assembly.content,
        model    |-> IF assembly.model = Absent THEN RequestModel ELSE assembly.model,
        provider |-> assembly.provider,
        tokens   |-> IF usage.tokens = Absent THEN 0 ELSE usage.tokens,
        cost     |-> usage.cost]

Return ==
    /\ pc = "closing"
    /\ ~assembly.choiceError /\ ~Malformed
    /\ pc' = "returned"
    /\ result' = Result
    /\ UNCHANGED <<assembly, read>>

\* At an await: httpx.RequestError, the attempt's timeout, or a cancellation.
\* Whatever was assembled, an error included, is dropped.
Break ==
    /\ pc \in {"reading", "closing"}
    /\ pc' = "broken"
    /\ UNCHANGED <<assembly, result, read>>

Next ==
    \/ \E line \in Lines : Receive(line)
    \/ EndOfStream
    \/ RaiseUpstreamError
    \/ Return
    \/ Break

Spec == Init /\ [][Next]_vars

-------------------------------------------------------------------------------
(* Properties.  Each compares what the attempt hands over with the whole    *)
(* stream that was read, not with the latest line.                          *)

IsChunk(i) == read[i].kind = "chunk"

TellsPiece(i) ==
    IsChunk(i) /\ read[i].chunk.choice = "delta" /\ read[i].chunk.piece # Absent

\* Those of the first n lines that bring a piece of the content.
Told(n) == {i \in 1..n : TellsPiece(i)}

\* The content handed over is every piece the stream brought, once and in
\* order: keepalives, unreadable lines, deltas without text and chunks that
\* only carry usage neither drop nor corrupt any of it.
ContentFaithful ==
    pc = "returned" =>
        /\ Len(result.content) = Cardinality(Told(Len(read)))
        /\ \A i \in Told(Len(read)) :
              result.content[Cardinality(Told(i))] = read[i].chunk.piece

HasUsage(i) == IsChunk(i) /\ read[i].chunk.usage # Absent

\* The tokens and the cost recorded for a completion come from one usage
\* object, the last of the stream, also when chunks without one follow it.
UsageIsLatest ==
    pc = "returned" =>
        \/ /\ \A i \in 1..Len(read) : ~HasUsage(i)
           /\ result.tokens = 0 /\ result.cost = "none"
        \/ \E i \in 1..Len(read) :
               /\ HasUsage(i)
               /\ \A j \in i + 1..Len(read) : ~HasUsage(j)
               /\ result.tokens = (IF read[i].chunk.usage.tokens = Absent THEN 0
                                   ELSE read[i].chunk.usage.tokens)
               /\ result.cost = read[i].chunk.usage.cost

HasModel(i) == IsChunk(i) /\ read[i].chunk.model \notin {Absent, Empty}

\* A result names the model the provider last named, even if it later sends
\* an empty name or none, and the requested model if it never named one.
ModelIsLatest ==
    pc = "returned" =>
        \/ (\A i \in 1..Len(read) : ~HasModel(i)) /\ result.model = RequestModel
        \/ \E i \in 1..Len(read) :
               /\ HasModel(i)
               /\ \A j \in i + 1..Len(read) : ~HasModel(j)
               /\ result.model = read[i].chunk.model

\* What is billed and who is said to have answered: neither depends on which
\* chunk of the stream brought it.
MetadataIsLatest == UsageIsLatest /\ ModelIsLatest

HasError(i) == IsChunk(i) /\ read[i].chunk.choice = "error"

\* A stream in which a choice failed, at any point before [DONE], is never
\* handed over as a result, nor is one whose cost cannot be accounted for.
FailuresAreNotReturned ==
    pc = "returned" =>
        /\ \A i \in 1..Len(read) : ~HasError(i)
        /\ result.cost # "malformed"

\* An attempt raises UpstreamError, which ends the call without a retry, only
\* if the provider reported an error or the last usage object is malformed:
\* an earlier malformed one, an empty answer or a missing usage is no failure.
RaisedForCause ==
    pc = "raised" =>
        \E i \in 1..Len(read) :
            \/ HasError(i)
            \/ /\ HasUsage(i) /\ read[i].chunk.usage.cost = "malformed"
               /\ \A j \in i + 1..Len(read) : ~HasUsage(j)

\* An attempt fails if the stream says so, and only then.
FailsWithCause == FailuresAreNotReturned /\ RaisedForCause
===============================================================================
