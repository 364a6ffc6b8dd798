---------------------------- MODULE MCChunkPlanning ----------------------------
(* All documents of up to five lines, and all of up to four blocks, where a   *)
(* block is a line of text, a pipe line by itself, or a table of none, one or *)
(* two rows: several tables, apart or touching, ties between the largest, and *)
(* tables of one to four chunks.                                              *)
EXTENDS ChunkPlanning, SequencesExt

MCTable(rows) == <<"row", "delimiter">> \o [n \in 1..rows |-> "row"]

MCBlocks == {<<"text">>, <<"row">>} \union {MCTable(rows) : rows \in 0..2}

MCDocuments == UNION {[1..n -> LineKinds] : n \in 0..5}
               \union {FlattenSeq(bs) : bs \in UNION {[1..n -> MCBlocks] : n \in 0..4}}
===============================================================================
