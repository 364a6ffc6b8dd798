------------------------------ MODULE MCIntake ------------------------------
\* Every order of up to two parts, and of three out of fewer, around each
\* limit, with one document; and every document in one well-formed request.
EXTENDS Intake, SequencesExt

Part(file, name, value, size) ==
    [file |-> file, name |-> name, value |-> value, size |-> size]

Field(name, value, size) == Part(FALSE, name, value, size)

MCFiles == {Part(TRUE, "file", "good", s) : s \in {0, 1, 3, 4, 5}}
               \union {Part(TRUE, "schema", "good", 1)}

MCFields ==
    {Field("schema", v, 1) : v \in Values} \union {Field("schema", "good", s) : s \in {2, 3}}
        \union {Field("checks", v, 1) : v \in Values} \union {Field("checks", "good", 2)}
        \union {Field("models", v, 1) : v \in {"bad", "raises"}}
        \union {Field("file", "good", 1), Field("text", "blank", 0), Field("text", "good", 3)}

\* The place of part i of s.
MCAt(s, i) == FoldLeft(LAMBDA n, p : n + 1 + p.size, 0, SubSeq(s, 1, i - 1))

MCRequest(length, s, doc) ==
    [length |-> length, document |-> doc,
     body |-> MCAt(s, Len(s) + 1) + 1,
     parts |-> [i \in 1..Len(s) |->
                  [file |-> s[i].file, name |-> s[i].name, value |-> s[i].value,
                   size |-> s[i].size, at |-> MCAt(s, i)]]]

MCDocument == [magic |-> "none", zip |-> FALSE, html |-> FALSE, suffix |-> "none",
               mime |-> "none", pixels |-> Unreadable, entries |-> <<>>]

MCPdf == [MCDocument EXCEPT !.magic = "pdf"]

MCFew ==
    {Part(TRUE, "file", "good", s) : s \in {0, 3, 4}}
        \union {Field("schema", v, 1) : v \in {"blank", "good", "bad"}}
        \union {Field("schema", "good", s) : s \in {2, 3}}
        \union {Field("checks", "good", 2), Field("checks", "bad", 1),
                 Field("models", "raises", 1), Field("file", "good", 1)}

MCBodies ==
    BoundedSeq(MCFiles \union MCFields, 2) \union [1..3 -> MCFew]
        \union [1..4 -> {Part(TRUE, "file", "good", 1), Field("schema", "good", 1),
                         Field("text", "blank", 0)}]

Entry(unsafe, role, size, packed) ==
    [unsafe |-> unsafe, role |-> role, size |-> size, packed |-> packed]

MCEntries ==
    {Entry(FALSE, "types", 1, 1), Entry(FALSE, "word", 2, 1), Entry(FALSE, "xl", 0, 0),
     Entry(TRUE, "other", 1, 1), Entry(FALSE, "word", 3, 1), Entry(FALSE, "xl", 3, 2),
     Entry(FALSE, "other", 1, 0)}

MCDocuments ==
    {[magic |-> m, zip |-> z, html |-> h, suffix |-> s, mime |-> t, pixels |-> 1, entries |-> <<>>] :
        m \in {"pdf", "png", "ole", "none"}, z \in BOOLEAN, h \in BOOLEAN,
        s \in {"doc", "xls", "html", "none"}, t \in {"msword", "excel", "none"}}
    \union {[MCDocument EXCEPT !.zip = TRUE, !.entries = e] : e \in BoundedSeq(MCEntries, 4)}
    \union {[MCDocument EXCEPT !.magic = m, !.pixels = p] :
               m \in {"png", "jpeg"}, p \in {Unreadable, 0, 2, 3}}

MCRequests ==
    {MCRequest(l, b, MCPdf) : l \in {"absent", "invalid", "exact"}, b \in MCBodies}
    \union {MCRequest("exact", <<Part(TRUE, "file", "good", 1), Field("schema", "good", 1)>>, d) :
               d \in MCDocuments}
===============================================================================
