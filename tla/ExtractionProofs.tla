--------------------------- MODULE ExtractionProofs ---------------------------
(***************************************************************************)
(* The verdict on a PDF is that of all its pages, for documents of any     *)
(* length and every limit.  The invariant counts the pages looked at.      *)
(***************************************************************************)
EXTENDS Extraction, FiniteSetTheorems, TLAPS

ScannedUpTo(n) == {i \in 1..n : Scanned(i)}

PageInv ==
    pc = "pages" \/ mode # "none" =>
        /\ source.state = "readable" /\ Len(pages) <= MaxPages
        /\ native + scan + empty = page
        /\ native > 0 <=> \E i \in 1..page : Native(i)
        /\ scan = Cardinality(ScannedUpTo(page))
        /\ \A i \in ScannedUpTo(page) : ~TooManyPixels(pages[i])

StageInv ==
    /\ pc = "start" => page = 0 /\ native = 0 /\ scan = 0 /\ empty = 0
    /\ pc \in {"start", "pages"} => mode = "none"
    /\ mode # "none" => page = Len(pages) /\ scan <= MaxOcrPages /\ mode = ModeOf
    /\ source.kind = "pdf" /\ pc \in {"convert", "extracted"} => mode # "none"
    /\ source.kind = "pdf" /\ pc = "convert" => mode # "native"
    /\ source.kind = "other" => pc \in {"start", "convert", "extracted", "rejected"} /\ mode = "none"
    /\ markdown = "text" <=> pc = "extracted" /\ mode = "native"
    /\ pc # "pages" => handle # "open"

CauseInv == pc = "rejected" /\ source.kind = "pdf" /\ WithinLimits => mode \in Modes \ {"native"}

IInv == TypeOK /\ PageInv /\ StageInv /\ CauseInv

LEMMA PageTypes ==
    ASSUME source \in Documents
    PROVE  /\ Len(pages) \in Nat /\ \A i \in 1..Len(pages) : pages[i] \in Pages
           /\ source.kind \in {"pdf", "other"}
           /\ source.state \in {"readable", "encrypted", "corrupt"}
<1>1. /\ pages \in Seq(Pages) /\ source.kind \in {"pdf", "other"}
      /\ source.state \in {"readable", "encrypted", "corrupt"}
  BY DocumentsAssumption DEF pages
<1> QED
  BY <1>1

\* The scanned pages among the first n can be counted.
LEMMA ScannedFinite ==
    ASSUME NEW n \in Nat
    PROVE  IsFiniteSet(ScannedUpTo(n)) /\ Cardinality(ScannedUpTo(n)) \in Nat
<1>1. IsFiniteSet(1..n)
  BY FS_Interval
<1>2. ScannedUpTo(n) \subseteq 1..n
  BY DEF ScannedUpTo
<1> QED
  BY <1>1, <1>2, FS_Subset, FS_CardinalityType

\* One more page is one more scan, or none.
LEMMA ScannedGrows ==
    ASSUME NEW n \in Nat
    PROVE  Cardinality(ScannedUpTo(n + 1)) =
              IF Scanned(n + 1) THEN Cardinality(ScannedUpTo(n)) + 1
                                ELSE Cardinality(ScannedUpTo(n))
<1> DEFINE S == ScannedUpTo(n)
<1>1. IsFiniteSet(S) /\ n + 1 \notin S
  BY ScannedFinite DEF ScannedUpTo
<1>2. ScannedUpTo(n + 1) = IF Scanned(n + 1) THEN S \union {n + 1} ELSE S
  BY DEF ScannedUpTo
<1> HIDE DEF S
<1>3. Cardinality(S \union {n + 1}) = Cardinality(S) + 1
  BY <1>1, FS_AddElement
<1> QED
  BY <1>2, <1>3 DEF S

LEMMA ScannedNone == Cardinality(ScannedUpTo(0)) = 0 /\ ScannedUpTo(0) = {}
<1>1. ScannedUpTo(0) = {}
  BY DEF ScannedUpTo
<1> QED
  BY <1>1, FS_EmptySet

\* The document does not change, so neither does what is said of its pages.
LEMMA SourceIsFixed ==
    ASSUME source' = source
    PROVE  /\ pages' = pages /\ WithinLimits' = WithinLimits
           /\ \A n : ScannedUpTo(n)' = ScannedUpTo(n) /\ Native(n)' = Native(n)
BY DEF pages, WithinLimits, ScannedUpTo, Scanned, Native, ScannedPages

LEMMA InitIInv == Init => IInv
BY PageTypes DEF Init, IInv, TypeOK, PageInv, StageInv, CauseInv

LEMMA NextIInv == IInv /\ [Next]_vars => IInv'
<1> SUFFICES ASSUME IInv, [Next]_vars PROVE IInv'
  OBVIOUS
<1>1. source' = source
  BY DEF Next, vars, Start, LookAtPage, PageFails, Decide, Convert
<1>2. /\ source \in Documents /\ Len(pages) \in Nat
      /\ source.kind \in {"pdf", "other"}
      /\ source.state \in {"readable", "encrypted", "corrupt"}
      /\ page \in 0..Len(pages) /\ native \in Nat /\ scan \in Nat /\ empty \in Nat
      /\ MaxPages \in Nat /\ MaxOcrPages \in Nat
  BY PageTypes, LimitsAssumption DEF IInv, TypeOK
<1>3. /\ pages' = pages /\ WithinLimits' = WithinLimits
      /\ \A n : ScannedUpTo(n)' = ScannedUpTo(n) /\ Native(n)' = Native(n)
  BY <1>1, SourceIsFixed
<1>4. CASE Start
  <2>1. TypeOK'
    BY <1>1, <1>3, <1>4 DEF Start, EndPreflight, counts, IInv, TypeOK
  <2>2. page = 0 /\ native = 0 /\ scan = 0 /\ empty = 0 /\ mode = "none" /\ mode' = "none"
        /\ page' = 0 /\ native' = 0 /\ scan' = 0 /\ empty' = 0
    BY <1>4 DEF Start, counts, IInv, StageInv
  <2>3. PageInv'
    <3>1. ScannedUpTo(0)' = {} /\ Cardinality(ScannedUpTo(0)') = 0
      BY <1>3, ScannedNone
    <3>2. pc' = "pages" => source.state = "readable" /\ Len(pages) <= MaxPages
      BY <1>4 DEF Start, EndPreflight
    <3> QED
      BY <1>1, <1>3, <2>2, <3>1, <3>2, ScannedNone DEF PageInv
  <2>4. StageInv'
    BY <1>1, <1>2, <1>3, <1>4, <2>2 DEF Start, EndPreflight, IInv, StageInv
  <2>5. CauseInv'
    BY <1>1, <1>2, <1>3, <1>4 DEF Start, EndPreflight, IInv, CauseInv, WithinLimits
  <2> QED
    BY <2>1, <2>3, <2>4, <2>5 DEF IInv
<1>5. CASE LookAtPage
  <2> DEFINE n == page + 1
             p == pages[n]
  <2>1. /\ pc = "pages" /\ n \in 1..Len(pages) /\ page \in Nat
        /\ p \in Pages /\ mode' = mode /\ markdown' = markdown /\ mode = "none"
    BY <1>2, <1>5, PageTypes DEF LookAtPage, IInv, StageInv
  <2>2. source.kind = "pdf"
    BY <1>2, <2>1 DEF IInv, StageInv
  <2>3. CASE p.text # "native" /\ p.image /\ TooManyPixels(p)
    <3>1. EndPreflight("rejected") /\ UNCHANGED counts
      BY <1>5, <2>3 DEF LookAtPage
    <3>2. ~WithinLimits
      BY <2>1, <2>3 DEF WithinLimits, ScannedPages, Scanned
    <3> QED
      BY <1>1, <1>2, <1>3, <2>1, <2>2, <3>1, <3>2
      DEF EndPreflight, counts, IInv, TypeOK, PageInv, StageInv, CauseInv
  <2>4. CASE ~(p.text # "native" /\ p.image /\ TooManyPixels(p))
    <3>1. CountPage(p) /\ page' = n /\ pc' = pc /\ handle' = handle
      BY <1>5, <2>4 DEF LookAtPage
    <3>2. p.text \in {"none", "short", "native"} /\ p.image \in BOOLEAN
      BY <2>1 DEF Pages
    <3>3. /\ native' \in Nat /\ scan' \in Nat /\ empty' \in Nat
          /\ native' + scan' + empty' = native + scan + empty + 1
      BY <1>2, <3>1, <3>2 DEF CountPage
    <3>4. scan' = Cardinality(ScannedUpTo(n))
      <4>1. scan = Cardinality(ScannedUpTo(page))
        BY <2>1 DEF IInv, PageInv
      <4>2. Scanned(n) <=> p.text # "native" /\ p.image
        BY DEF Scanned
      <4> QED
        BY <2>1, <3>1, <4>1, <4>2, ScannedGrows DEF CountPage
    <3>5. native' > 0 <=> \E i \in 1..n : Native(i)
      <4>1. native > 0 <=> \E i \in 1..page : Native(i)
        BY <2>1 DEF IInv, PageInv
      <4>2. (\E i \in 1..n : Native(i)) <=> (\E i \in 1..page : Native(i)) \/ Native(n)
        BY <2>1
      <4>3. Native(n) <=> p.text = "native"
        BY DEF Native
      <4> QED
        BY <1>2, <3>1, <4>1, <4>2, <4>3 DEF CountPage
    <3>6. \A i \in ScannedUpTo(n) : ~TooManyPixels(pages[i])
      BY <2>1, <2>4 DEF IInv, PageInv, ScannedUpTo, Scanned
    <3>7. PageInv'
      <4>1. source.state = "readable" /\ Len(pages) <= MaxPages /\ native + scan + empty = page
        BY <2>1 DEF IInv, PageInv
      <4>2. ScannedUpTo(page)' = ScannedUpTo(n)
        BY <1>3, <3>1 DEF ScannedUpTo, Scanned
      <4>3. (\E i \in 1..page : Native(i))' <=> \E i \in 1..n : Native(i)
        BY <1>3, <3>1 DEF Native
      <4>4. (\A i \in ScannedUpTo(page) : ~TooManyPixels(pages[i]))'
        BY <1>3, <3>6, <4>2 DEF TooManyPixels
      <4> QED
        BY <1>1, <1>2, <1>3, <3>1, <3>3, <3>4, <3>5, <4>1, <4>2, <4>3, <4>4 DEF PageInv
    <3>8. TypeOK'
      BY <1>1, <1>3, <2>1, <3>1, <3>3 DEF IInv, TypeOK
    <3>9. StageInv' /\ CauseInv'
      BY <1>1, <2>1, <2>2, <3>1 DEF IInv, StageInv, CauseInv
    <3> QED
      BY <3>7, <3>8, <3>9 DEF IInv
  <2> QED
    BY <2>3, <2>4
<1>6. CASE PageFails
  <2>1. source.kind = "pdf" /\ mode = "none"
    BY <1>2, <1>6 DEF PageFails, IInv, StageInv
  <2> QED
    BY <1>1, <1>3, <1>6, <2>1
    DEF PageFails, EndPreflight, counts, IInv, TypeOK, PageInv, StageInv, CauseInv
<1>7. CASE Decide
  <2>1. /\ pc = "pages" /\ page = Len(pages) /\ mode = "none"
        /\ page' = page /\ native' = native /\ scan' = scan /\ empty' = empty
    BY <1>7 DEF Decide, counts, IInv, StageInv
  <2>2. source.kind = "pdf"
    BY <1>2, <2>1 DEF IInv, StageInv
  <2>3. ModeOf \in Modes /\ ModeOf' = ModeOf
    BY <1>2, <1>3, <2>1 DEF ModeOf, Modes
  <2>4. TypeOK'
    BY <1>1, <1>3, <1>7, <2>1, <2>3 DEF Decide, EndPreflight, IInv, TypeOK
  <2>5. PageInv'
    <3>1. ScannedUpTo(page)' = ScannedUpTo(page)
      BY <1>3, <2>1 DEF ScannedUpTo, Scanned
    <3>2. (\E i \in 1..page : Native(i))' <=> \E i \in 1..page : Native(i)
      BY <1>3, <2>1 DEF Native
    <3> QED
      BY <1>1, <1>3, <2>1, <3>1, <3>2 DEF IInv, PageInv, TooManyPixels
  <2>6. StageInv'
    BY <1>1, <1>2, <1>3, <1>7, <2>1, <2>2, <2>3
    DEF Decide, EndPreflight, IInv, TypeOK, StageInv, Modes
  <2>7. CauseInv'
    <3>1. ScannedPages = ScannedUpTo(page)
      BY <2>1 DEF ScannedPages, ScannedUpTo
    <3>2. scan > MaxOcrPages => ~WithinLimits
      BY <1>2, <2>1, <3>1 DEF IInv, PageInv, WithinLimits
    <3> QED
      BY <1>3, <1>7, <3>2 DEF Decide, EndPreflight, CauseInv
  <2> QED
    BY <2>4, <2>5, <2>6, <2>7 DEF IInv
<1>8. CASE Convert
  <2>1. /\ page' = page /\ native' = native /\ scan' = scan /\ empty' = empty /\ mode' = mode
        /\ handle' = handle /\ pc = "convert" /\ pc' \in {"extracted", "rejected"}
        /\ markdown' = IF pc' = "extracted" THEN "converter" ELSE markdown
    BY <1>8 DEF Convert, counts
  <2>2. ModeOf' = ModeOf
    BY <1>3, <2>1 DEF ModeOf
  <2>3. TypeOK'
    BY <1>1, <1>3, <2>1 DEF IInv, TypeOK
  <2>4. PageInv'
    <3>1. ScannedUpTo(page)' = ScannedUpTo(page)
      BY <1>3, <2>1 DEF ScannedUpTo, Scanned
    <3>2. (\E i \in 1..page : Native(i))' <=> \E i \in 1..page : Native(i)
      BY <1>3, <2>1 DEF Native
    <3> QED
      BY <1>1, <1>3, <2>1, <3>1, <3>2 DEF IInv, PageInv, TooManyPixels
  <2>5. StageInv'
    BY <1>1, <1>2, <1>3, <2>1, <2>2 DEF IInv, StageInv
  <2>6. CauseInv'
    BY <1>1, <2>1 DEF IInv, TypeOK, StageInv, CauseInv
  <2> QED
    BY <2>3, <2>4, <2>5, <2>6 DEF IInv
<1>9. CASE UNCHANGED vars
  BY <1>1, <1>3, <1>9
  DEF vars, counts, IInv, TypeOK, PageInv, StageInv, CauseInv, ModeOf, ScannedUpTo,
      Scanned, Native, TooManyPixels
<1> QED
  BY <1>4, <1>5, <1>6, <1>7, <1>8, <1>9 DEF Next

-------------------------------------------------------------------------------

\* Every variable keeps its type.
THEOREM TypeCorrect == Spec => []TypeOK
BY InitIInv, NextIInv, PTL DEF Spec, IInv

\* The pages decide, however many there are and in whatever order they come.
THEOREM PagesAlwaysDecide == Spec => []PagesDecide
<1>1. IInv => PagesDecide
  <2> SUFFICES ASSUME IInv, source.kind = "pdf"
               PROVE  PagesDecide
    BY DEF PagesDecide
  <2>1. /\ Len(pages) \in Nat /\ source \in Documents
        /\ native \in Nat /\ scan \in Nat /\ empty \in Nat
    BY PageTypes DEF IInv, TypeOK
  <2>2. ASSUME mode # "none"
        PROVE  /\ WithinLimits /\ scan = Cardinality(ScannedPages)
               /\ native + scan + empty = Len(pages)
               /\ mode = "native" <=> ScannedPages = {} /\ \E i \in 1..Len(pages) : Native(i)
    <3>1. page = Len(pages) /\ scan <= MaxOcrPages /\ mode = ModeOf
      BY <2>2 DEF IInv, StageInv
    <3>2. ScannedPages = ScannedUpTo(page)
      BY <3>1 DEF ScannedPages, ScannedUpTo
    <3>3. /\ native + scan + empty = page /\ scan = Cardinality(ScannedUpTo(page))
          /\ native > 0 <=> \E i \in 1..page : Native(i)
          /\ source.state = "readable" /\ Len(pages) <= MaxPages
          /\ \A i \in ScannedUpTo(page) : ~TooManyPixels(pages[i])
      BY <2>2 DEF IInv, PageInv
    <3>4. scan = 0 <=> ScannedPages = {}
      BY <2>1, <3>1, <3>2, <3>3, ScannedFinite, FS_EmptySet
    <3>5. mode = "native" <=> native > 0 /\ scan = 0
      BY <2>1, <3>1, <3>3 DEF ModeOf
    <3> QED
      BY <3>1, <3>2, <3>3, <3>4, <3>5 DEF WithinLimits
  <2> QED
    BY <2>2 DEF IInv, TypeOK, StageInv, CauseInv, PagesDecide
<1> QED
  BY <1>1, InitIInv, NextIInv, PTL DEF Spec
===============================================================================
