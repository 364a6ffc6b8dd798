----------------------------- MODULE MCExtraction -----------------------------
\* PDFs of up to four pages around each limit; 144 points render to two pixels.
EXTENDS Extraction, SequencesExt

Page(text, image, width) == [text |-> text, image |-> image, width |-> width, height |-> 144]

MCPages ==
    {Page("none", FALSE, 144), Page("short", FALSE, 144), Page("native", FALSE, 144),
     Page("native", TRUE, 216), Page("short", TRUE, 144), Page("none", TRUE, 215),
     Page("none", TRUE, 216)}

MCDocuments ==
    {[kind |-> "pdf", state |-> "readable", pages |-> p] : p \in BoundedSeq(MCPages, 4)}
        \union {[kind |-> "pdf", state |-> s, pages |-> <<>>] : s \in {"encrypted", "corrupt"}}
        \union {[kind |-> "other", state |-> "readable", pages |-> <<>>]}
===============================================================================
