-------------------------- MODULE ChunkPlanningProofs --------------------------
(***************************************************************************)
(* For every document, schema, threshold and chunk size, the chunks of a   *)
(* plan tile the rows of the dominant table: the loop that cuts them is    *)
(* proved correct by its loop invariant.                                   *)
(***************************************************************************)
EXTENDS ChunkPlanning, TLAPS

\* How far the rows are covered.
Covered == IF start < table.rows THEN start ELSE table.rows

\* The cutting loop has not begun, or cuts a table that has rows.
PhaseInv ==
    /\ pc \in {"scan", "declined"} => chunks = <<>> /\ start = 0
    /\ pc \in {"split", "planned"} => table.rows > 0
    /\ pc = "planned" => start >= table.rows

\* The chunks cut so far are well formed and adjacent, and end at Covered.
TileInv ==
    /\ \A n \in 1..Len(chunks) :
          /\ chunks[n].index = n - 1
          /\ chunks[n].start < chunks[n].end
          /\ chunks[n].end - chunks[n].start <= perChunk
          /\ chunks[n].end <= Covered
          /\ chunks[n].start = IF n = 1 THEN 0 ELSE chunks[n - 1].end
    /\ chunks = <<>> => start = 0
    /\ chunks # <<>> => chunks[Len(chunks)].end = Covered

\* They are disjoint and cover the rows below Covered.
CoverInv ==
    /\ \A m, n \in 1..Len(chunks) : m < n => chunks[m].end <= chunks[n].start
    /\ \A r \in 0 .. Covered - 1 :
          \E n \in 1..Len(chunks) : r \in chunks[n].start .. chunks[n].end - 1

IInv == TypeOK /\ PhaseInv /\ TileInv /\ CoverInv

\* The fields of the chunks cut so far.
LEMMA ChunkFields ==
    ASSUME TypeOK
    PROVE  \A n \in 1..Len(chunks) :
               chunks[n].start \in Nat /\ chunks[n].end \in Nat
<1> DEFINE R == [index : Nat, start : Nat, end : Nat]
<1>1. chunks \in Seq(R)
  BY DEF TypeOK
<1>2. \A c \in R : c.start \in Nat /\ c.end \in Nat
  OBVIOUS
<1> HIDE DEF R
<1>3. \A n \in 1..Len(chunks) : chunks[n] \in R
  BY <1>1
<1>4. \A n \in 1..Len(chunks) : chunks[n].start \in Nat /\ chunks[n].end \in Nat
  BY <1>2, <1>3
<1> QED
  BY <1>4

LEMMA InitIInv == Init => IInv
<1> SUFFICES ASSUME Init PROVE IInv
  OBVIOUS
<1>1. TypeOK
  BY DocumentsAssumption, LimitsAssumption DEF Init, TypeOK, NoTable, Blocks
<1>2. PhaseInv /\ TileInv /\ CoverInv
  BY <1>1 DEF Init, PhaseInv, TileInv, CoverInv, Covered, TypeOK, Blocks, NoTable
<1> QED
  BY <1>1, <1>2 DEF IInv

\* Cutting one more chunk extends the tiling.
LEMMA AddChunkIInv == IInv /\ AddChunk => IInv'
<1> SUFFICES ASSUME IInv, AddChunk PROVE IInv'
  OBVIOUS
<1> DEFINE end == EndOf(start)
           c   == [index |-> Len(chunks), start |-> start, end |-> end]
           N   == Len(chunks)
<1>0. TypeOK /\ PhaseInv /\ TileInv /\ CoverInv
  BY DEF IInv
<1>1. /\ start \in Nat /\ perChunk \in Nat \ {0} /\ table.rows \in Nat
      /\ chunks \in Seq([index : Nat, start : Nat, end : Nat]) /\ N \in Nat
      /\ pc = "split" /\ start < table.rows /\ pc' = "split"
      /\ table' = table /\ perChunk' = perChunk /\ start' = start + perChunk
  BY <1>0 DEF TypeOK, Blocks, AddChunk, inputs
<1>2. /\ chunks' = Append(chunks, c) /\ c \in [index : Nat, start : Nat, end : Nat]
      /\ end \in Nat /\ start < end /\ end - start <= perChunk
  BY <1>1 DEF AddChunk, EndOf
<1>3. /\ chunks' \in Seq([index : Nat, start : Nat, end : Nat])
      /\ Len(chunks') = N + 1 /\ chunks'[N + 1] = c
      /\ \A n \in 1..N : chunks'[n] = chunks[n]
  BY <1>1, <1>2
<1>4. Covered = start /\ Covered' = end
  BY <1>1 DEF Covered, EndOf
<1>5. TypeOK'
  BY <1>0, <1>1, <1>3 DEF TypeOK, AddChunk, inputs
<1>6. PhaseInv'
  BY <1>0, <1>1 DEF PhaseInv
<1>7. \A n \in 1..N : /\ chunks[n].index = n - 1
                      /\ chunks[n].start < chunks[n].end
                      /\ chunks[n].end - chunks[n].start <= perChunk
                      /\ chunks[n].end <= start
                      /\ chunks[n].start = IF n = 1 THEN 0 ELSE chunks[n - 1].end
  BY <1>0, <1>4 DEF TileInv
<1>8. /\ N = 0 => start = 0
      /\ N # 0 => chunks[N].end = start
  BY <1>0, <1>1, <1>4 DEF TileInv
<1>9. \A n \in 1..N : chunks[n].start \in Nat /\ chunks[n].end \in Nat
  BY <1>0, ChunkFields
<1>10. /\ \A m, n \in 1..N : m < n => chunks[m].end <= chunks[n].start
       /\ \A r \in 0 .. start - 1 :
             \E n \in 1..N : r \in chunks[n].start .. chunks[n].end - 1
  BY <1>0, <1>4 DEF CoverInv
<1>11. c.index = N /\ c.start = start /\ c.end = end
  OBVIOUS
<1> HIDE DEF end, c, N
<1>12. TileInv'
  <2>1. ASSUME NEW n \in 1..N + 1
        PROVE  /\ chunks'[n].index = n - 1
               /\ chunks'[n].start < chunks'[n].end
               /\ chunks'[n].end - chunks'[n].start <= perChunk
               /\ chunks'[n].end <= end
               /\ chunks'[n].start = IF n = 1 THEN 0 ELSE chunks'[n - 1].end
    <3>1. CASE n \in 1..N
      <4>1. chunks'[n] = chunks[n] /\ (n # 1 => chunks'[n - 1] = chunks[n - 1])
        <5>1. n # 1 => n - 1 \in 1..N
          BY <1>1, <3>1
        <5> QED
          BY <1>3, <3>1, <5>1
      <4>2. chunks[n].end <= end
        <5>1. chunks[n].end \in Nat /\ chunks[n].end <= start
          BY <1>7, <1>9, <3>1
        <5>2. start \in Nat /\ end \in Nat /\ start < end
          BY <1>1, <1>2
        <5> QED
          BY <5>1, <5>2
      <4> QED
        BY <1>7, <3>1, <4>1, <4>2
    <3>2. CASE n = N + 1
      <4>1. chunks'[n] = c /\ n - 1 = N
        BY <1>1, <1>3, <3>2
      <4>2. start = IF n = 1 THEN 0 ELSE chunks'[n - 1].end
        <5>1. CASE N = 0
          BY <1>8, <3>2, <5>1
        <5>2. CASE N # 0
          <6>1. N \in 1..N /\ n # 1
            BY <1>1, <3>2, <5>2
          <6> QED
            BY <1>3, <1>8, <4>1, <5>2, <6>1
        <5> QED
          BY <5>1, <5>2
      <4>3. N = n - 1 /\ end \in Nat
        BY <1>2, <4>1
      <4>4. start < end /\ end - start <= perChunk /\ end <= end
        BY <1>2, <4>3
      <4> QED
        BY <1>11, <4>1, <4>2, <4>3, <4>4
    <3> QED
      BY <1>1, <3>1, <3>2
  <2>2. chunks' # <<>> /\ chunks'[Len(chunks')].end = end
    BY <1>1, <1>3, <1>11
  <2> QED
    BY <1>1, <1>3, <1>4, <2>1, <2>2 DEF TileInv
<1>13. CoverInv'
  <2>1. ASSUME NEW m \in 1..N + 1, NEW n \in 1..N + 1, m < n
        PROVE  chunks'[m].end <= chunks'[n].start
    <3>1. m \in 1..N
      BY <1>1, <2>1
    <3>2. CASE n = N + 1
      BY <1>3, <1>7, <1>11, <3>1, <3>2
    <3>3. CASE n \in 1..N
      BY <1>3, <1>10, <2>1, <3>1, <3>3
    <3> QED
      BY <1>1, <3>2, <3>3
  <2>2. ASSUME NEW r \in 0 .. end - 1
        PROVE  \E n \in 1..N + 1 : r \in chunks'[n].start .. chunks'[n].end - 1
    <3>1. CASE r < start
      <4>1. r \in 0 .. start - 1
        BY <1>1, <1>2, <3>1
      <4>2. PICK n \in 1..N : r \in chunks[n].start .. chunks[n].end - 1
        BY <1>10, <4>1
      <4>3. n \in 1..N + 1 /\ chunks'[n] = chunks[n]
        BY <1>1, <1>3
      <4> QED
        BY <4>2, <4>3
    <3>2. CASE r >= start
      <4>1. r \in c.start .. c.end - 1
        BY <1>1, <1>2, <1>11, <3>2
      <4>2. N + 1 \in 1..N + 1
        BY <1>1
      <4> QED
        BY <1>3, <4>1, <4>2
    <3>3. r < start \/ r >= start
      <4>1. start \in Nat /\ end \in Nat
        BY <1>1, <1>2
      <4> QED
        BY <4>1
    <3> QED
      BY <3>1, <3>2, <3>3
  <2> QED
    BY <1>3, <1>4, <2>1, <2>2 DEF CoverInv
<1> QED
  BY <1>5, <1>6, <1>12, <1>13 DEF IInv

\* Steps that leave the cutting loop alone keep its invariant.
LEMMA FrameIInv ==
    ASSUME IInv, TypeOK', PhaseInv', UNCHANGED <<perChunk, table, start, chunks>>
    PROVE  IInv'
<1>1. Covered' = Covered
  BY DEF Covered
<1>2. TileInv' /\ CoverInv'
  BY <1>1 DEF IInv, TileInv, CoverInv
<1> QED
  BY <1>2 DEF IInv

LEMMA NextIInv == IInv /\ [Next]_vars => IInv'
<1> SUFFICES ASSUME IInv, [Next]_vars PROVE IInv'
  OBVIOUS
<1>0. TypeOK /\ PhaseInv /\ TileInv /\ CoverInv
  BY DEF IInv
<1>1. CASE SkipLine
  <2>1. TypeOK' /\ PhaseInv'
    BY <1>0, <1>1 DEF SkipLine, TypeOK, PhaseInv, inputs
  <2> QED
    BY <1>1, <2>1, FrameIInv DEF SkipLine, inputs
<1>2. CASE TakeRun
  <2>1. PICK last \in index .. Len(lines) - 1 :
            /\ index' = last + 1
            /\ blocks' = IF last > index /\ Line(index + 1) = "delimiter"
                         THEN Append(blocks, [first |-> index, last |-> last,
                                              rows |-> DataRows(index, last)])
                         ELSE blocks
    BY <1>2 DEF TakeRun
  <2>2. index \in Nat /\ last \in Nat /\ (last > index => last - index - 1 \in Nat)
    BY <1>0, <2>1 DEF TypeOK
  <2>3. last > index => [first |-> index, last |-> last, rows |-> DataRows(index, last)] \in Blocks
    BY <2>2 DEF Blocks, DataRows
  <2>4. blocks' \in Seq(Blocks)
    <3>1. blocks \in Seq(Blocks)
      BY <1>0 DEF TypeOK
    <3> QED
      BY <2>1, <2>3, <3>1
  <2>5. index' \in Nat
    BY <2>1, <2>2
  <2>6. UNCHANGED <<inputs, pc, table, start, chunks>>
    BY <1>2 DEF TakeRun
  <2>7. TypeOK' /\ PhaseInv'
    BY <1>0, <2>4, <2>5, <2>6 DEF TypeOK, PhaseInv, inputs
  <2> QED
    BY <2>6, <2>7, FrameIInv DEF inputs
<1>3. CASE Decide
  <2>1. table' \in Blocks
    <3>1. \A n \in 1..Len(blocks) : blocks[n] \in Blocks
      BY <1>0 DEF TypeOK
    <3>2. NoTable \in Blocks
      BY DEF NoTable, Blocks
    <3> QED
      BY <1>3, <3>1, <3>2 DEF Decide
  <2>2. table'.rows \in Nat
    BY <2>1 DEF Blocks
  <2>3. /\ pc = "scan" /\ UNCHANGED <<inputs, index, blocks, start, chunks>>
        /\ pc' = "split" \/ pc' = "declined"
        /\ pc' = "split" => table'.rows >= threshold
    BY <1>3 DEF Decide
  <2>4. TypeOK'
    BY <1>0, <2>1, <2>3 DEF TypeOK, inputs
  <2>5. chunks' = <<>> /\ start' = 0
    BY <1>0, <2>3 DEF PhaseInv
  <2>6. PhaseInv'
    <3>1. threshold \in Nat \ {0}
      BY <1>0 DEF TypeOK
    <3> QED
      BY <2>2, <2>3, <2>5, <3>1 DEF PhaseInv
  <2>7. Covered' = 0
    BY <2>2, <2>5 DEF Covered
  <2>8. TileInv' /\ CoverInv'
    BY <2>5, <2>7 DEF TileInv, CoverInv
  <2> QED
    BY <2>4, <2>6, <2>8 DEF IInv
<1>4. CASE AddChunk
  BY <1>4, AddChunkIInv
<1>5. CASE Finish
  <2>1. TypeOK' /\ PhaseInv'
    BY <1>0, <1>5 DEF Finish, TypeOK, PhaseInv, inputs
  <2> QED
    BY <1>5, <2>1, FrameIInv DEF Finish, inputs
<1>6. CASE UNCHANGED vars
  <2>1. TypeOK' /\ PhaseInv'
    BY <1>0, <1>6 DEF vars, inputs, TypeOK, PhaseInv
  <2> QED
    BY <1>6, <2>1, FrameIInv DEF vars, inputs
<1> QED
  BY <1>1, <1>2, <1>3, <1>4, <1>5, <1>6 DEF Next

LEMMA SpecIInv == Spec => []IInv
BY InitIInv, NextIInv, PTL DEF Spec

-------------------------------------------------------------------------------

\* Every variable keeps the type the code gives it.
THEOREM TypeCorrect == Spec => []TypeOK
BY SpecIInv, PTL DEF IInv

\* The chunks of a plan tile the rows of its table.
THEOREM ChunksAlwaysTile == Spec => []ChunksTile
<1>1. IInv => ChunksTile
  <2> SUFFICES ASSUME IInv PROVE ChunksTile
    OBVIOUS
  <2>1. ASSUME pc = "planned"
        PROVE  chunks # <<>> /\ chunks[Len(chunks)].end = table.rows
    BY <2>1 DEF IInv, TypeOK, Blocks, PhaseInv, TileInv, Covered
  <2> QED
    BY <2>1 DEF IInv, TileInv, ChunksTile
<1> QED
  BY <1>1, SpecIInv, PTL

\* Every row of the table is extracted by exactly one chunk of its plan.
THEOREM RowsExtractedOnce == Spec => []EveryRowOnce
<1>1. IInv => EveryRowOnce
  <2> SUFFICES ASSUME IInv, pc = "planned", NEW r \in 0 .. table.rows - 1
               PROVE  \E n \in 1..Len(chunks) :
                          /\ r \in chunks[n].start .. chunks[n].end - 1
                          /\ \A m \in 1..Len(chunks) \ {n} :
                                r \notin chunks[m].start .. chunks[m].end - 1
    BY DEF EveryRowOnce
  <2>1. Covered = table.rows
    BY DEF IInv, TypeOK, Blocks, PhaseInv, Covered
  <2>2. PICK n \in 1..Len(chunks) : r \in chunks[n].start .. chunks[n].end - 1
    BY <2>1 DEF IInv, CoverInv
  <2>3. ASSUME NEW m \in 1..Len(chunks), m # n
        PROVE  r \notin chunks[m].start .. chunks[m].end - 1
    <3>1. /\ chunks[m].start \in Nat /\ chunks[m].end \in Nat
          /\ chunks[n].start \in Nat /\ chunks[n].end \in Nat
      BY ChunkFields DEF IInv
    <3>2. m < n \/ n < m
      BY <2>3
    <3>3. chunks[m].end <= chunks[n].start \/ chunks[n].end <= chunks[m].start
      BY <3>2 DEF IInv, CoverInv
    <3> QED
      BY <2>2, <3>1, <3>3
  <2> QED
    BY <2>2, <2>3
<1> QED
  BY <1>1, SpecIInv, PTL

-------------------------------------------------------------------------------
(* The scan.                                                                *)

\* The scan never stops inside a run of pipe lines.
AtBoundary ==
    index = 0 \/ index >= Len(lines) \/ ~IsPipe(index) \/ ~IsPipe(index - 1)

\* The blocks are tables above index, in document order.
BlocksSound ==
    /\ \A n \in 1..Len(blocks) :
          /\ blocks[n].last < index
          /\ IsTable(blocks[n].first, blocks[n].last)
          /\ blocks[n].rows = blocks[n].last - blocks[n].first - 1
    /\ \A m, n \in 1..Len(blocks) : m < n => blocks[m].first < blocks[n].first

\* Every table above index is a block.
BlocksComplete ==
    \A s, e \in Nat :
        e < index /\ IsTable(s, e) =>
            \E n \in 1..Len(blocks) : blocks[n].first = s /\ blocks[n].last = e

\* The table that is cut lies within the document.
TableWithin == pc \in {"split", "planned"} => table.last < Len(lines)

ScanInv ==
    /\ index <= Len(lines) /\ AtBoundary
    /\ BlocksSound /\ BlocksComplete
    /\ TableWithin /\ TableIsDominant

\* The fields of the blocks.
LEMMA BlockFields ==
    ASSUME TypeOK
    PROVE  \A n \in 1..Len(blocks) :
               blocks[n].first \in Nat /\ blocks[n].last \in Nat /\ blocks[n].rows \in Nat
<1>1. blocks \in Seq(Blocks)
  BY DEF TypeOK
<1>2. \A b \in Blocks : b.first \in Nat /\ b.last \in Nat /\ b.rows \in Nat
  BY DEF Blocks
<1>3. \A n \in 1..Len(blocks) : blocks[n] \in Blocks
  BY <1>1
<1> QED
  BY <1>2, <1>3

LEMMA InitScanInv == Init => ScanInv
<1> SUFFICES ASSUME Init PROVE ScanInv
  OBVIOUS
<1>1. /\ index = 0 /\ blocks = <<>> /\ pc = "scan" /\ Len(lines) \in Nat
  BY DocumentsAssumption DEF Init
<1> QED
  BY <1>1 DEF ScanInv, AtBoundary, BlocksSound, BlocksComplete, TableWithin, TableIsDominant

\* A step past a line that is no pipe line finds no table.
LEMMA SkipLineScanInv == TypeOK /\ ScanInv /\ SkipLine => ScanInv'
<1> SUFFICES ASSUME TypeOK, ScanInv, SkipLine PROVE ScanInv'
  OBVIOUS
<1>1. /\ index \in Nat /\ index < Len(lines) /\ ~IsPipe(index) /\ Len(lines) \in Nat
      /\ index' = index + 1 /\ pc = "scan" /\ pc' = pc /\ lines' = lines
      /\ blocks' = blocks /\ table' = table
  BY DEF SkipLine, TypeOK, inputs
<1>2. AtBoundary'
  <2>1. index' - 1 = index
    BY <1>1
  <2>2. ~IsPipe(index - 1)'
    BY <1>1, <2>1 DEF IsPipe, Line
  <2> QED
    BY <2>2 DEF AtBoundary
<1>3. \A s, e : IsTable(s, e)' <=> IsTable(s, e)
  BY <1>1 DEF IsTable, IsPipe, Line
<1>4. BlocksSound'
  <2>1. \A n \in 1..Len(blocks) : blocks[n].last \in Nat
    BY BlockFields
  <2>2. \A n \in 1..Len(blocks) : blocks[n].last < index'
    BY <1>1, <2>1 DEF ScanInv, BlocksSound
  <2> QED
    BY <1>1, <1>3, <2>2 DEF ScanInv, BlocksSound
<1>5. BlocksComplete'
  <2>1. ASSUME NEW s \in Nat, NEW e \in Nat, e < index', IsTable(s, e)
        PROVE  e < index
    <3>1. e \in s..e
      BY <2>1 DEF IsTable
    <3>2. IsPipe(e)
      BY <2>1, <3>1 DEF IsTable
    <3>3. e # index
      BY <1>1, <3>2
    <3> QED
      BY <1>1, <2>1, <3>3
  <2> QED
    BY <1>1, <1>3, <2>1 DEF ScanInv, BlocksComplete
<1> QED
  BY <1>1, <1>2, <1>4, <1>5 DEF ScanInv, TableWithin, TableIsDominant

\* A run of pipe lines is taken whole: it holds one table or none.
LEMMA TakeRunScanInv == TypeOK /\ ScanInv /\ TakeRun => ScanInv'
<1> SUFFICES ASSUME TypeOK, ScanInv, TakeRun PROVE ScanInv'
  OBVIOUS
<1>1. /\ index \in Nat /\ index < Len(lines) /\ IsPipe(index) /\ Len(lines) \in Nat
      /\ pc = "scan" /\ pc' = pc /\ lines' = lines /\ table' = table
      /\ blocks \in Seq(Blocks)
  BY DEF TakeRun, TypeOK, inputs
<1>2. PICK last \in index .. Len(lines) - 1 :
          /\ \A i \in index..last : IsPipe(i)
          /\ last + 1 < Len(lines) => ~IsPipe(last + 1)
          /\ index' = last + 1
          /\ blocks' = IF last > index /\ Line(index + 1) = "delimiter"
                       THEN Append(blocks, [first |-> index, last |-> last,
                                            rows |-> DataRows(index, last)])
                       ELSE blocks
  BY DEF TakeRun
<1> DEFINE b == [first |-> index, last |-> last, rows |-> DataRows(index, last)]
           Found == last > index /\ Line(index + 1) = "delimiter"
           N == Len(blocks)
<1>3. /\ last \in Nat /\ index <= last /\ last < Len(lines) /\ index' = last + 1
      /\ N \in Nat
  BY <1>1, <1>2
<1>4. index = 0 \/ ~IsPipe(index - 1)
  BY <1>1 DEF ScanInv, AtBoundary
<1>5. \A s, e : IsTable(s, e)' <=> IsTable(s, e)
  BY <1>1 DEF IsTable, IsPipe, Line
<1>6. AtBoundary'
  <2>1. index' < Len(lines) => ~IsPipe(index)'
    BY <1>1, <1>2 DEF IsPipe, Line
  <2> QED
    BY <1>1, <1>3, <2>1 DEF AtBoundary
<1>7. Found => IsTable(index, last)
  BY <1>1, <1>2, <1>3, <1>4 DEF IsTable
<1>8. ASSUME NEW s \in Nat, NEW e \in Nat, index <= e, e <= last, IsTable(s, e)
      PROVE  s = index /\ e = last /\ Found
  <2>1. /\ s + 1 <= e /\ \A i \in s..e : IsPipe(i)
        /\ s > 0 => ~IsPipe(s - 1)
        /\ e + 1 < Len(lines) => ~IsPipe(e + 1)
        /\ Line(s + 1) = "delimiter"
    BY <1>8 DEF IsTable
  <2>2. ~(s < index)
    <3>1. SUFFICES ASSUME s < index PROVE FALSE
      OBVIOUS
    <3>2. index - 1 \in s..e /\ index # 0
      BY <1>1, <1>8, <3>1
    <3> QED
      BY <1>4, <2>1, <3>2
  <2>3. ~(s > index)
    <3>1. SUFFICES ASSUME s > index PROVE FALSE
      OBVIOUS
    <3>2. s - 1 \in index..last /\ s > 0
      BY <1>1, <1>3, <1>8, <2>1, <3>1
    <3> QED
      BY <1>2, <2>1, <3>2
  <2>4. s = index
    BY <1>1, <2>2, <2>3
  <2>5. ~(e < last)
    <3>1. SUFFICES ASSUME e < last PROVE FALSE
      OBVIOUS
    <3>2. e + 1 \in index..last /\ e + 1 < Len(lines)
      BY <1>1, <1>3, <1>8, <3>1
    <3> QED
      BY <1>2, <2>1, <3>2
  <2>6. e = last
    BY <1>3, <1>8, <2>5
  <2> QED
    BY <1>1, <1>3, <2>1, <2>4, <2>6
<1>9. \A n \in 1..N : /\ blocks[n].first \in Nat /\ blocks[n].last \in Nat
                      /\ blocks[n].last < index /\ blocks[n].first < index
  <2>1. ASSUME NEW n \in 1..N
        PROVE  /\ blocks[n].first \in Nat /\ blocks[n].last \in Nat
               /\ blocks[n].last < index /\ blocks[n].first + 1 <= blocks[n].last
    BY BlockFields DEF ScanInv, BlocksSound, IsTable
  <2> QED
    BY <1>1, <2>1
<1>10. ASSUME ~Found PROVE BlocksSound' /\ BlocksComplete'
  <2>1. blocks' = blocks
    BY <1>2, <1>10
  <2>2. \A n \in 1..N : blocks[n].last < index'
    BY <1>1, <1>3, <1>9
  <2>3. BlocksSound'
    BY <1>5, <2>1, <2>2 DEF ScanInv, BlocksSound
  <2>4. ASSUME NEW s \in Nat, NEW e \in Nat, e < index', IsTable(s, e)
        PROVE  e < index
    <3>1. e < index \/ (index <= e /\ e <= last)
      BY <1>1, <1>3, <2>4
    <3>2. ~(index <= e /\ e <= last)
      BY <1>8, <1>10, <2>4
    <3> QED
      BY <3>1, <3>2
  <2>5. BlocksComplete'
    BY <1>1, <1>5, <2>1, <2>4 DEF ScanInv, BlocksComplete
  <2> QED
    BY <2>3, <2>5
<1>11. ASSUME Found PROVE BlocksSound' /\ BlocksComplete'
  <2>0. b \in Blocks
    BY <1>1, <1>3, <1>11 DEF Blocks, DataRows
  <2>1. blocks' = Append(blocks, b)
    BY <1>2, <1>11
  <2>2. /\ Len(blocks') = N + 1 /\ blocks'[N + 1] = b
        /\ \A n \in 1..N : blocks'[n] = blocks[n]
    BY <1>1, <2>0, <2>1
  <2>3. b.first = index /\ b.last = last /\ b.rows = last - index - 1
    BY DEF DataRows
  <2> HIDE DEF b, N
  <2>4. ASSUME NEW n \in 1..N + 1
        PROVE  /\ blocks'[n].last < index'
               /\ IsTable(blocks'[n].first, blocks'[n].last)
               /\ blocks'[n].rows = blocks'[n].last - blocks'[n].first - 1
    <3>1. CASE n \in 1..N
      <4>1. blocks'[n] = blocks[n] /\ blocks[n].last < index'
        BY <1>1, <1>3, <1>9, <2>2, <3>1
      <4> QED
        BY <3>1, <4>1 DEF ScanInv, BlocksSound, N
    <3>2. CASE n = N + 1
      BY <1>3, <1>7, <1>11, <2>2, <2>3, <3>2
    <3> QED
      BY <1>3, <3>1, <3>2
  <2>5. ASSUME NEW m \in 1..N + 1, NEW n \in 1..N + 1, m < n
        PROVE  blocks'[m].first < blocks'[n].first
    <3>1. m \in 1..N
      BY <1>3, <2>5
    <3>2. CASE n \in 1..N
      BY <2>2, <2>5, <3>1, <3>2 DEF ScanInv, BlocksSound, N
    <3>3. CASE n = N + 1
      BY <1>9, <2>2, <2>3, <3>1, <3>3
    <3> QED
      BY <1>3, <3>2, <3>3
  <2>6. BlocksSound'
    BY <1>5, <2>2, <2>4, <2>5 DEF BlocksSound
  <2>7. ASSUME NEW s \in Nat, NEW e \in Nat, e < index', IsTable(s, e)
        PROVE  \E n \in 1..N + 1 : blocks'[n].first = s /\ blocks'[n].last = e
    <3>1. CASE e < index
      <4>1. PICK n \in 1..N : blocks[n].first = s /\ blocks[n].last = e
        BY <2>7, <3>1 DEF ScanInv, BlocksComplete, N
      <4>2. n \in 1..N + 1 /\ blocks'[n] = blocks[n]
        BY <1>3, <2>2
      <4> QED
        BY <4>1, <4>2
    <3>2. CASE index <= e
      <4>1. s = index /\ e = last
        BY <1>3, <1>8, <2>7, <3>2
      <4>2. N + 1 \in 1..N + 1
        BY <1>3
      <4> QED
        BY <2>2, <2>3, <4>1, <4>2
    <3> QED
      BY <1>1, <3>1, <3>2
  <2>8. BlocksComplete'
    BY <1>5, <2>2, <2>7 DEF BlocksComplete
  <2> QED
    BY <2>6, <2>8
<1>12. index' <= Len(lines')
  BY <1>1, <1>3
<1> QED
  BY <1>1, <1>6, <1>10, <1>11, <1>12 DEF ScanInv, TableWithin, TableIsDominant

\* The largest block is the largest table.
LEMMA DecideScanInv == TypeOK /\ ScanInv /\ Decide => ScanInv'
<1> SUFFICES ASSUME TypeOK, ScanInv, Decide PROVE ScanInv'
  OBVIOUS
<1>1. /\ index \in Nat /\ index >= Len(lines) /\ Len(lines) \in Nat /\ index <= Len(lines)
      /\ pc = "scan" /\ lines' = lines /\ blocks' = blocks /\ index' = index
      /\ properties' = properties /\ rowArrays' = rowArrays /\ threshold' = threshold
      /\ threshold \in Nat \ {0}
  BY DEF Decide, TypeOK, inputs, ScanInv
<1>2. \A s, e : IsTable(s, e)' <=> IsTable(s, e)
  BY <1>1 DEF IsTable, IsPipe, Line
<1>3. ASSUME NEW s \in 0 .. Len(lines) - 1, NEW e \in 0 .. Len(lines) - 1, IsTable(s, e)
      PROVE  \E n \in 1..Len(blocks) :
                 /\ blocks[n].first = s /\ blocks[n].last = e /\ blocks[n].rows = e - s - 1
  <2>1. s \in Nat /\ e \in Nat /\ e < index
    BY <1>1
  <2>2. PICK n \in 1..Len(blocks) : blocks[n].first = s /\ blocks[n].last = e
    BY <1>3, <2>1 DEF ScanInv, BlocksComplete
  <2> QED
    BY <2>2 DEF ScanInv, BlocksSound
<1>4. CASE blocks = <<>>
  <2>1. table'.rows = 0
    BY <1>4 DEF Decide, NoTable
  <2>2. pc' = "declined"
    BY <1>1, <2>1 DEF Decide
  <2>3. Len(blocks) = 0
    BY <1>4
  <2>4. TableIsDominant'
    BY <1>1, <1>2, <1>3, <2>2, <2>3 DEF TableIsDominant
  <2> QED
    BY <1>1, <1>2, <2>2, <2>4
       DEF ScanInv, AtBoundary, BlocksSound, BlocksComplete, TableWithin, IsPipe, Line
<1>5. CASE blocks # <<>>
  <2>1. PICK n \in 1..Len(blocks) :
            /\ table' = blocks[n]
            /\ \A m \in 1..Len(blocks) : blocks[m].rows <= table'.rows
            /\ \A m \in 1..n-1 : blocks[m].rows < table'.rows
    BY <1>5 DEF Decide, Dominant
  <2>2. /\ table'.first \in Nat /\ table'.last \in Nat /\ table'.rows \in Nat
        /\ \A m \in 1..Len(blocks) : /\ blocks[m].first \in Nat /\ blocks[m].last \in Nat
                                     /\ blocks[m].rows \in Nat
        /\ Len(blocks) \in Nat
    <3>1. Len(blocks) \in Nat
      BY DEF TypeOK
    <3> QED
      BY <2>1, <3>1, BlockFields
  <2>3. /\ IsTable(table'.first, table'.last) /\ table'.last < Len(lines)
        /\ table'.rows = table'.last - table'.first - 1
    <3>1. /\ IsTable(table'.first, table'.last) /\ table'.last < index
          /\ table'.rows = table'.last - table'.first - 1
      BY <2>1 DEF ScanInv, BlocksSound
    <3> QED
      BY <1>1, <2>2, <3>1
  <2>4. ASSUME NEW s \in 0 .. Len(lines) - 1, NEW e \in 0 .. Len(lines) - 1, IsTable(s, e)
        PROVE  /\ e - s - 1 <= table'.rows
               /\ s < table'.first => e - s - 1 < table'.rows
    <3>1. PICK m \in 1..Len(blocks) :
              /\ blocks[m].first = s /\ blocks[m].last = e /\ blocks[m].rows = e - s - 1
      BY <1>3, <2>4
    <3>2. ASSUME s < table'.first PROVE m \in 1..n-1
      <4>1. n < m => blocks[n].first < blocks[m].first
        BY <2>1, <3>1 DEF ScanInv, BlocksSound
      <4>2. n # m
        BY <2>1, <2>2, <3>1, <3>2
      <4> QED
        BY <2>1, <2>2, <3>1, <3>2, <4>1, <4>2
    <3> QED
      BY <2>1, <3>1, <3>2
  <2>5. pc' \in {"split", "declined"} /\
        (pc' = "declined" /\ (\E p \in properties : rowArrays = {p}) => ~(table'.rows >= threshold))
    BY DEF Decide
  <2>6. TableIsDominant'
    <3>1. /\ IsTable(table.first, table.last)'
          /\ table'.rows = table'.last - table'.first - 1
      BY <1>1, <2>3 DEF IsTable, IsPipe, Line
    <3>2. \A s, e \in 0 .. Len(lines') - 1 : IsTable(s, e)' =>
              IF s < table'.first THEN e - s - 1 < table'.rows
                                  ELSE e - s - 1 <= table'.rows
      BY <1>1, <1>2, <2>4
    <3>3. ASSUME pc' = "declined", \E p \in properties' : rowArrays' = {p},
                 NEW s \in 0 .. Len(lines') - 1, NEW e \in 0 .. Len(lines') - 1, IsTable(s, e)'
          PROVE  e - s - 1 < threshold'
      <4>1. ~(table'.rows >= threshold)
        BY <1>1, <2>5, <3>3
      <4>2. e - s - 1 <= table'.rows
        BY <1>1, <1>2, <2>4, <3>3
      <4> QED
        BY <1>1, <2>2, <4>1, <4>2
    <3> QED
      BY <3>1, <3>2, <3>3 DEF TableIsDominant
  <2>7. BlocksSound' /\ BlocksComplete'
    BY <1>1, <1>2 DEF ScanInv, BlocksSound, BlocksComplete
  <2> QED
    BY <1>1, <2>3, <2>6, <2>7 DEF ScanInv, AtBoundary, TableWithin
<1> QED
  BY <1>4, <1>5

\* Later steps leave the scan's results alone.
LEMMA FrameScanInv ==
    ASSUME ScanInv, UNCHANGED <<inputs, index, blocks, table>>,
           pc' = pc \/ (pc = "split" /\ pc' = "planned")
    PROVE  ScanInv'
<1>1. \A s, e : IsTable(s, e)' <=> IsTable(s, e)
  BY DEF IsTable, IsPipe, Line, inputs
<1>2. IsTable(table.first, table.last)' <=> IsTable(table.first, table.last)
  BY DEF IsTable, IsPipe, Line, inputs
<1>3. AtBoundary' /\ BlocksSound' /\ BlocksComplete' /\ TableWithin'
  BY <1>1 DEF ScanInv, AtBoundary, BlocksSound, BlocksComplete, TableWithin, IsPipe, Line, inputs
<1>4. TableIsDominant'
  BY <1>1, <1>2 DEF ScanInv, TableIsDominant, inputs
<1> QED
  BY <1>3, <1>4 DEF ScanInv, inputs

LEMMA NextScanInv == TypeOK /\ ScanInv /\ [Next]_vars => ScanInv'
<1> SUFFICES ASSUME TypeOK, ScanInv, [Next]_vars PROVE ScanInv'
  OBVIOUS
<1>1. CASE SkipLine
  BY <1>1, SkipLineScanInv
<1>2. CASE TakeRun
  BY <1>2, TakeRunScanInv
<1>3. CASE Decide
  BY <1>3, DecideScanInv
<1>4. CASE AddChunk
  BY <1>4, FrameScanInv DEF AddChunk
<1>5. CASE Finish
  BY <1>5, FrameScanInv DEF Finish
<1>6. CASE UNCHANGED vars
  BY <1>6, FrameScanInv DEF vars
<1> QED
  BY <1>1, <1>2, <1>3, <1>4, <1>5, <1>6 DEF Next

LEMMA SpecScanInv == Spec => []ScanInv
BY InitScanInv, NextScanInv, TypeCorrect, PTL DEF Spec

\* The table a plan cuts is the earliest of the document's largest tables, and
\* a document is declined only for want of rows or of one place for them.
THEOREM DominantTableFound == Spec => []TableIsDominant
BY SpecScanInv, PTL DEF ScanInv

\* Every line of a planned document is shown to a chunk's call, or to the
\* summary call when there is one.
THEOREM EveryLineShown == Spec => []NoLineLost
<1>1. IInv /\ ScanInv => NoLineLost
  <2> SUFFICES ASSUME IInv, ScanInv, pc = "planned", NEW i \in 0 .. Len(lines) - 1
               PROVE  \/ \E n \in 1..Len(chunks) : i \in ChunkLines(chunks[n])
                      \/ i \notin table.first .. table.last
                         /\ (SummaryProperties # {} => i \in SummaryLines)
    BY DEF NoLineLost
  <2>1. /\ table.first \in Nat /\ table.last \in Nat /\ table.rows \in Nat
        /\ table.rows = table.last - table.first - 1 /\ table.rows > 0
        /\ Len(lines) \in Nat /\ Covered = table.rows
    BY DEF IInv, TypeOK, Blocks, PhaseInv, ScanInv, TableIsDominant, Covered
  <2>2. ASSUME NEW r \in 0 .. table.rows - 1
        PROVE  \E n \in 1..Len(chunks) : r \in chunks[n].start .. chunks[n].end - 1
    BY <2>1 DEF IInv, CoverInv
  <2>3. CASE i < table.first \/ i > table.last
    BY <2>1, <2>3 DEF SummaryLines
  <2>4. CASE i = table.first \/ i = table.first + 1
    <3>1. PICK n \in 1..Len(chunks) : 0 \in chunks[n].start .. chunks[n].end - 1
      BY <2>1, <2>2
    <3> QED
      BY <2>4, <3>1 DEF ChunkLines
  <2>5. CASE i >= table.first + 2 /\ i <= table.last
    <3>1. i - table.first - 2 \in 0 .. table.rows - 1
      BY <2>1, <2>5
    <3>2. PICK n \in 1..Len(chunks) :
              i - table.first - 2 \in chunks[n].start .. chunks[n].end - 1
      BY <2>2, <3>1
    <3>3. i = table.first + 2 + (i - table.first - 2)
      BY <2>1
    <3> QED
      BY <3>2, <3>3 DEF ChunkLines
  <2> QED
    BY <2>1, <2>3, <2>4, <2>5
<1> QED
  BY <1>1, SpecIInv, SpecScanInv, PTL
===============================================================================
