-------------------------- MODULE MCCompletionStream --------------------------
(* Chunks for TLC: every field of a chunk is there, empty and missing, and   *)
(* the usage objects can follow each other in either order.                  *)
EXTENDS CompletionStream

CONSTANTS modelA, modelB, textA, textB

MCNames  == {modelA, modelB}
MCPieces == {textA, textB}

Bare == [model |-> Absent, provider |-> Absent, usage |-> Absent,
         choice |-> "absent", piece |-> Absent, finish |-> "absent"]

Delta(piece) == [Bare EXCEPT !.choice = "delta", !.piece = piece]

Usage(tokens, cost) == [tokens |-> tokens, cost |-> cost]

MCChunks == {
    [Delta(textA) EXCEPT !.model = modelA, !.provider = modelA],
    [Delta(textB) EXCEPT !.model = modelB],
    [Delta(textA) EXCEPT !.finish = "length"],
    [Delta(Absent) EXCEPT !.model = Empty, !.provider = Empty, !.finish = "stop"],
    [Bare EXCEPT !.usage = Usage(2, "known")],
    [Bare EXCEPT !.usage = Usage(Absent, "malformed")],
    [Delta(textB) EXCEPT !.usage = Usage(1, "none")],
    [Bare EXCEPT !.choice = "error", !.piece = textA, !.usage = Usage(3, "known")] }
===============================================================================
