------------------------------ MODULE Extraction ------------------------------
(***************************************************************************)
(* What becomes of the pages of a document: the preflight of a PDF, which  *)
(* counts its pages by what they hold and enforces the limits, and the     *)
(* choice between the text PyMuPDF finds and the converter, which reads    *)
(* scanned pages with the help of a model.  The files this needs are       *)
(* ParseLifecycle's; PyMuPDF and the converter are external.               *)
(***************************************************************************)
EXTENDS Integers, Sequences, FiniteSets

CONSTANTS
    Documents,     \* the documents to extract
    MaxPages,      \* max_pdf_pages
    MaxOcrPages,   \* max_ocr_pages
    MaxPixels,     \* max_ocr_rendered_pixels
    Dpi            \* ocr_render_dpi

ASSUME LimitsAssumption ==
    MaxPages \in Nat /\ MaxOcrPages \in Nat /\ MaxPixels \in Nat /\ Dpi \in Nat

\* A page: what its text amounts to once white space is stripped (at least 20
\* characters are native text), whether it has an image, and its size in points.
Pages == [text : {"none", "short", "native"}, image : BOOLEAN, width : Nat, height : Nat]

ASSUME DocumentsAssumption ==
    \A d \in Documents :
        /\ d.kind \in {"pdf", "other"}
        /\ d.state \in {"readable", "encrypted", "corrupt"}
        /\ d.pages \in Seq(Pages)

VARIABLES
    source,     \* the document
    pc,         \* where extract() is
    handle,     \* the PDF as PyMuPDF has opened it
    page,       \* pages looked at
    native,     \* native_text_pages
    scan,       \* scan_like_pages
    empty,      \* empty_pages
    mode,       \* extraction_mode, or "none"
    markdown    \* where the Markdown comes from, or "none"

vars == <<source, pc, handle, page, native, scan, empty, mode, markdown>>

pages  == source.pages
counts == <<page, native, scan, empty>>

Modes == {"native", "mixed", "scan", "empty"}

TypeOK ==
    /\ source \in Documents
    /\ pc \in {"start", "pages", "convert", "extracted", "rejected", "failed"}
    /\ handle \in {"none", "open", "closed"}
    /\ page \in 0..Len(pages)
    /\ native \in Nat /\ scan \in Nat /\ empty \in Nat
    /\ mode \in Modes \union {"none"}
    /\ markdown \in {"none", "text", "converter"}

Init ==
    /\ source \in Documents
    /\ pc = "start"
    /\ handle = "none"
    /\ page = 0 /\ native = 0 /\ scan = 0 /\ empty = 0
    /\ mode = "none" /\ markdown = "none"

-------------------------------------------------------------------------------

\* The finally clause of _preflight_pdf().
EndPreflight(end) == pc' = end /\ handle' = "closed"

\* A PDF is opened and looked at before any page is; every other document
\* goes to the converter as it is.
Start ==
    /\ pc = "start"
    /\ \/ /\ source.kind = "other"
          /\ pc' = "convert" /\ UNCHANGED handle
       \/ /\ source.kind = "pdf" /\ source.state = "corrupt"
          /\ pc' = "rejected" /\ UNCHANGED handle
       \/ /\ source.kind = "pdf" /\ source.state # "corrupt"
          /\ source.state = "encrypted" \/ Len(pages) > MaxPages
          /\ EndPreflight("rejected")
       \/ /\ source.kind = "pdf" /\ source.state = "readable"
          /\ Len(pages) <= MaxPages
          /\ pc' = "pages" /\ handle' = "open"
    /\ UNCHANGED <<source, counts, mode, markdown>>

\* _enforce_ocr_pixel_budget(): a page as large as the OCR would render it.
Rendered(points) == (points * Dpi) \div 72

TooManyPixels(p) == Rendered(p.width) * Rendered(p.height) > MaxPixels

\* Text decides before images do.
CountPage(p) ==
    /\ native' = IF p.text = "native" THEN native + 1 ELSE native
    /\ scan' = IF p.text # "native" /\ p.image THEN scan + 1 ELSE scan
    /\ empty' = IF p.text # "native" /\ ~p.image THEN empty + 1 ELSE empty

\* One turn of the loop over the pages.
LookAtPage ==
    /\ pc = "pages" /\ page < Len(pages)
    /\ LET p == pages[page + 1]
       IN  IF p.text # "native" /\ p.image /\ TooManyPixels(p)
           THEN /\ EndPreflight("rejected")
                /\ UNCHANGED counts
           ELSE /\ CountPage(p)
                /\ page' = page + 1
                /\ UNCHANGED <<pc, handle>>
    /\ UNCHANGED <<source, mode, markdown>>

\* A page that cannot be read: no error of this module's own.
PageFails ==
    /\ pc = "pages" /\ page < Len(pages)
    /\ EndPreflight("failed")
    /\ UNCHANGED <<source, counts, mode, markdown>>

\* Faulty: a document with any native text is native.
ModeOfNativeFirst == IF native > 0 THEN "native" ELSE IF scan > 0 THEN "scan" ELSE "empty"

ModeOf ==
    CASE native > 0 /\ scan > 0 -> "mixed"
      [] native = 0 /\ scan > 0 -> "scan"
      [] native > 0 /\ scan = 0 -> "native"
      [] native = 0 /\ scan = 0 -> IF empty = Len(pages) THEN "empty" ELSE "native"

\* All pages are counted: the OCR limit, the mode, and the text of every page
\* if that is all there is to read.
Decide ==
    /\ pc = "pages" /\ page = Len(pages)
    /\ IF scan > MaxOcrPages
       THEN EndPreflight("rejected") /\ UNCHANGED <<mode, markdown>>
       ELSE /\ mode' = ModeOf
            /\ IF ModeOf = "native"
               THEN EndPreflight("extracted") /\ markdown' = "text"
               ELSE EndPreflight("convert") /\ UNCHANGED markdown
    /\ UNCHANGED <<source, counts>>

\* convert_local() returns text, nothing but white space, or raises.
Convert ==
    /\ pc = "convert"
    /\ \/ pc' = "extracted" /\ markdown' = "converter"
       \/ pc' = "rejected" /\ UNCHANGED markdown
    /\ UNCHANGED <<source, handle, counts, mode>>

-------------------------------------------------------------------------------

Next == Start \/ LookAtPage \/ PageFails \/ Decide \/ Convert

Spec == Init /\ [][Next]_vars

-------------------------------------------------------------------------------
(* Properties.                                                              *)

Native(i) == pages[i].text = "native"
Scanned(i) == pages[i].text # "native" /\ pages[i].image

ScannedPages == {i \in 1..Len(pages) : Scanned(i)}

\* The limits of a PDF, all pages taken together.
WithinLimits ==
    /\ source.state = "readable"
    /\ Len(pages) <= MaxPages
    /\ Cardinality(ScannedPages) <= MaxOcrPages
    /\ \A i \in ScannedPages : ~TooManyPixels(pages[i])

\* What a PDF becomes is decided by all of its pages, in any order.  No page
\* is sent to the OCR beyond the limits, and none is refused within them; the
\* text layer stands for the document only when no page is a scan and some
\* page has text; and the page counts in the response are those of the pages.
PagesDecide ==
    source.kind = "pdf" =>
        /\ pc \in {"convert", "extracted"} =>
              /\ WithinLimits
              /\ scan = Cardinality(ScannedPages)
              /\ native + scan + empty = Len(pages)
        /\ pc = "rejected" /\ WithinLimits => mode \in Modes \ {"native"}
        /\ markdown = "text" <=>
              pc = "extracted" /\ ScannedPages = {} /\ \E i \in 1..Len(pages) : Native(i)
        /\ pc \in {"convert", "extracted", "rejected", "failed"} => handle # "open"
===============================================================================
