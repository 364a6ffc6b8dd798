---------------------------- MODULE ChunkPlanning ----------------------------
(***************************************************************************)
(* build_chunk_plan(): find the dominant Markdown table of a document,     *)
(* decide whether the document is parsed in chunks, and cut the table's    *)
(* data rows into row ranges.  Lines and rows are numbered from 0, as in   *)
(* the code.  A line is reduced to what the code asks of it: whether it    *)
(* starts with a pipe, and whether it is a delimiter row.                  *)
(***************************************************************************)
EXTENDS Integers, Sequences

CONSTANTS
    Documents,    \* the Markdown documents: sequences of line kinds
    Properties,   \* the property names a caller's schema may have
    Thresholds,   \* values of chunk_row_threshold
    ChunkSizes    \* values of chunk_rows_per_chunk

LineKinds == {"text", "row", "delimiter"}

ASSUME DocumentsAssumption == Documents \subseteq Seq(LineKinds)
ASSUME LimitsAssumption == Thresholds \subseteq Nat \ {0} /\ ChunkSizes \subseteq Nat \ {0}

VARIABLES
    lines,       \* the document's lines
    properties,  \* the properties of the caller's schema
    rowArrays,   \* the properties locate_row_array() accepts
    threshold,   \* ChunkingConfig.row_threshold
    perChunk,    \* ChunkingConfig.rows_per_chunk
    pc,          \* "scan", "split", or the outcome: "planned", "declined"
    index,       \* the scan's position
    blocks,      \* the tables found, in document order
    table,       \* the dominant table
    start,       \* first row of the next chunk
    chunks       \* the chunks cut so far

inputs == <<lines, properties, rowArrays, threshold, perChunk>>
vars == <<inputs, pc, index, blocks, table, start, chunks>>

Blocks  == [first : Nat, last : Nat, rows : Nat]
NoTable == [first |-> 0, last |-> 0, rows |-> 0]

Line(i)   == lines[i + 1]
IsPipe(i) == Line(i) # "text"          \* _is_pipe_line

TypeOK ==
    /\ lines \in Seq(LineKinds)
    /\ properties \subseteq Properties /\ rowArrays \subseteq properties
    /\ threshold \in Nat \ {0} /\ perChunk \in Nat \ {0}
    /\ pc \in {"scan", "split", "planned", "declined"}
    /\ index \in Nat
    /\ blocks \in Seq(Blocks) /\ table \in Blocks
    /\ start \in Nat
    /\ chunks \in Seq([index : Nat, start : Nat, end : Nat])

Init ==
    /\ lines \in Documents
    /\ properties \in SUBSET Properties
    /\ rowArrays \in SUBSET properties
    /\ threshold \in Thresholds
    /\ perChunk \in ChunkSizes
    /\ pc = "scan"
    /\ index = 0
    /\ blocks = <<>>
    /\ table = NoTable
    /\ start = 0
    /\ chunks = <<>>

-------------------------------------------------------------------------------
(* _find_dominant_table                                                     *)

SkipLine ==
    /\ pc = "scan"
    /\ index < Len(lines)
    /\ ~IsPipe(index)
    /\ index' = index + 1
    /\ UNCHANGED <<inputs, pc, blocks, table, start, chunks>>

\* Faulty: the delimiter's row is subtracted twice.
DataRowsShort(first, last) == last - first - 2

\* data_lines: the run without its header and delimiter.
DataRows(first, last) == last - first - 1

\* The pipe lines from index to last, as many as there are, are a table if
\* the second is a delimiter; the rest are its data rows.
TakeRun ==
    /\ pc = "scan"
    /\ index < Len(lines)
    /\ IsPipe(index)
    /\ \E last \in index .. Len(lines) - 1 :
          /\ \A i \in index..last : IsPipe(i)
          /\ last + 1 < Len(lines) => ~IsPipe(last + 1)
          /\ index' = last + 1
          /\ blocks' = IF last > index /\ Line(index + 1) = "delimiter"
                       THEN Append(blocks, [first |-> index, last |-> last,
                                            rows |-> DataRows(index, last)])
                       ELSE blocks
    /\ UNCHANGED <<inputs, pc, table, start, chunks>>

\* Faulty: the last of the largest tables.
DominantLast(b) ==
    \E n \in 1..Len(blocks) :
        /\ b = blocks[n]
        /\ \A m \in 1..Len(blocks) : blocks[m].rows <= b.rows
        /\ \A m \in n+1..Len(blocks) : blocks[m].rows < b.rows

\* max() returns the first of the largest tables.
Dominant(b) ==
    \E n \in 1..Len(blocks) :
        /\ b = blocks[n]
        /\ \A m \in 1..Len(blocks) : blocks[m].rows <= b.rows
        /\ \A m \in 1..n-1 : blocks[m].rows < b.rows

\* A plan is made when the largest table has enough rows and exactly one
\* property of the schema can hold them.
Decide ==
    /\ pc = "scan"
    /\ index >= Len(lines)
    /\ IF blocks = <<>> THEN table' = NoTable
                        ELSE table' \in {blocks[n] : n \in 1..Len(blocks)} /\ Dominant(table')
    /\ pc' = IF table'.rows >= threshold /\ \E p \in properties : rowArrays = {p}
             THEN "split" ELSE "declined"
    /\ UNCHANGED <<inputs, index, blocks, start, chunks>>

-------------------------------------------------------------------------------
(* The loop over range(0, len(data_lines), rows_per_chunk)                  *)

\* Faulty: the last chunk is not cut to the rows that are left.
EndOfUnclipped(s) == s + perChunk

\* end_row: a slice of data_lines ends with the list.
EndOf(s) == IF s + perChunk < table.rows THEN s + perChunk ELSE table.rows

AddChunk ==
    /\ pc = "split"
    /\ start < table.rows
    /\ chunks' = Append(chunks, [index |-> Len(chunks), start |-> start, end |-> EndOf(start)])
    /\ start' = start + perChunk
    /\ UNCHANGED <<inputs, pc, index, blocks, table>>

Finish ==
    /\ pc = "split"
    /\ start >= table.rows
    /\ pc' = "planned"
    /\ UNCHANGED <<inputs, index, blocks, table, start, chunks>>

Next == SkipLine \/ TakeRun \/ Decide \/ AddChunk \/ Finish

Spec == Init /\ [][Next]_vars

-------------------------------------------------------------------------------
(* What the plan hands to the model calls.                                  *)

\* The lines shown in a chunk's Markdown: header, delimiter and its rows.
ChunkLines(c) == {table.first, table.first + 1}
                 \union {table.first + 2 + r : r \in c.start .. c.end - 1}

\* Faulty: the footer is left out.
SummaryLinesNoFooter ==
    {i \in 0 .. Len(lines) - 1 :
        i < table.first + 2 \/ i < table.first + 2 + perChunk}

\* The lines shown in summary_markdown: everything outside the table, its
\* head, and as many leading rows as a chunk has.
SummaryLines ==
    {i \in 0 .. Len(lines) - 1 :
        \/ i < table.first + 2
        \/ i > table.last
        \/ i < table.first + 2 + perChunk}

\* The properties summary_schema asks for; no summary call when empty.
SummaryProperties == properties \ rowArrays

-------------------------------------------------------------------------------
(* Properties.                                                              *)

\* The chunks cut so far are numbered in order, none is empty or larger than
\* perChunk, and they tile the rows below start: no row is skipped and none
\* is extracted twice.
ChunksTile ==
    /\ \A n \in 1..Len(chunks) :
          /\ chunks[n].index = n - 1
          /\ chunks[n].start < chunks[n].end
          /\ chunks[n].end - chunks[n].start <= perChunk
          /\ chunks[n].start = IF n = 1 THEN 0 ELSE chunks[n - 1].end
    /\ pc = "planned" =>
          chunks # <<>> /\ chunks[Len(chunks)].end = table.rows

\* Every data row of the dominant table lies in exactly one chunk.
EveryRowOnce ==
    pc = "planned" =>
        \A r \in 0 .. table.rows - 1 :
            \E n \in 1..Len(chunks) :
                /\ r \in chunks[n].start .. chunks[n].end - 1
                /\ \A m \in 1..Len(chunks) \ {n} :
                      r \notin chunks[m].start .. chunks[m].end - 1

\* A reference definition of the tables of a document.
IsTable(s, e) ==
    /\ s + 1 <= e
    /\ \A i \in s..e : IsPipe(i)
    /\ s > 0 => ~IsPipe(s - 1)
    /\ e + 1 < Len(lines) => ~IsPipe(e + 1)
    /\ Line(s + 1) = "delimiter"

\* The table a plan cuts is a table of the document, the earliest of the
\* largest; a document is declined only when no table is large enough or
\* the schema has not exactly one place for rows.
TableIsDominant ==
    LET Positions == 0 .. Len(lines) - 1
    IN  /\ pc \in {"split", "planned"} =>
              /\ IsTable(table.first, table.last)
              /\ table.rows = table.last - table.first - 1
              /\ \A s, e \in Positions : IsTable(s, e) =>
                    IF s < table.first THEN e - s - 1 < table.rows
                                       ELSE e - s - 1 <= table.rows
        /\ pc = "declined" /\ (\E p \in properties : rowArrays = {p}) =>
              \A s, e \in Positions : IsTable(s, e) => e - s - 1 < threshold

\* Every line of the table is shown to some chunk's call, and every other
\* line to the summary call when the schema leaves it something to extract.
NoLineLost ==
    pc = "planned" =>
        \A i \in 0 .. Len(lines) - 1 :
            \/ \E n \in 1..Len(chunks) : i \in ChunkLines(chunks[n])
            \/ i \notin table.first .. table.last
               /\ (SummaryProperties # {} => i \in SummaryLines)
===============================================================================
