---------------------------- MODULE MCChunkedParse ----------------------------
(* Plans as ChunkPlanning cuts them with two rows per chunk.  Row "h" stands  *)
(* for a row a model repeats at a border, "a" for any other.                  *)
EXTENDS ChunkedParse

R(s, e) == [start |-> s, end |-> e]

\* For the order of steps: three chunks, and one kind of answer.
MCPlans   == {<<>>, <<R(0, 2), R(2, 4), R(4, 5)>>}
MCAnswers == {<<"a">>}

\* For the merge, one chunk at a time: up to three chunks, and answers that
\* are empty, repeat the border row, or repeat it within a chunk.
MCMergePlans   == {<<R(0, 2)>>, <<R(0, 2), R(2, 4)>>, <<R(0, 2), R(2, 4), R(4, 6)>>}
MCMergeAnswers == {<<>>, <<"h">>, <<"a", "h">>, <<"h", "h">>}
===============================================================================
