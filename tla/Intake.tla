------------------------------- MODULE Intake -------------------------------
(***************************************************************************)
(* What one upload goes through before it is extracted: the declared       *)
(* length, the body as the server delivers it, the form's fields, the copy *)
(* to a temporary file, the detection of its type and the limits that go   *)
(* with the type.                                                          *)
(*                                                                         *)
(* A body is counted in units.  Each part takes one for its header and as  *)
(* many as its size for its data; one more closes the body.  The multipart *)
(* parser, the file library and the client are external.                   *)
(***************************************************************************)
EXTENDS Integers, Sequences, FiniteSets

CONSTANTS
    Requests,          \* the requests that may come
    MaxUpload,         \* max_upload_bytes
    Overhead,          \* MULTIPART_OVERHEAD_BYTES
    FieldLimit,        \* FORM_FIELD_LIMIT_BYTES
    MaxFields,         \* max_fields of the parser
    ReadSize,          \* CHUNK_SIZE of the copy
    MaxPixels,         \* max_image_pixels
    MaxEntries,        \* max_ooxml_zip_entries
    MaxUncompressed,   \* max_ooxml_uncompressed_bytes
    MaxRatio           \* max_ooxml_compression_ratio

ASSUME LimitsAssumption ==
    /\ MaxUpload \in Nat /\ Overhead \in Nat /\ FieldLimit \in Nat /\ MaxFields \in Nat
    /\ ReadSize \in Nat \ {0}
    /\ MaxPixels \in Nat /\ MaxEntries \in Nat /\ MaxUncompressed \in Nat /\ MaxRatio \in Nat

\* What the text of a field is to the code that reads it: nothing but white
\* space, as it should be, of the wrong shape, or too deep for json.loads().
Values == {"blank", "good", "bad", "raises"}

\* A file as detection sees it: its leading bytes, whether the ZIP and HTML
\* scans find what they look for, its suffix, the MIME type libmagic reports,
\* an image's pixels, or Unreadable, and the entries of an archive, none if it
\* cannot be read.
Unreadable == -1

Entries == [unsafe : BOOLEAN, role : {"types", "word", "xl", "other"}, size : Nat, packed : Nat]

Documents ==
    [magic : {"pdf", "png", "jpeg", "ole", "none"}, zip : BOOLEAN, html : BOOLEAN,
     suffix : {"doc", "xls", "html", "none"}, mime : {"msword", "excel", "none"},
     pixels : Nat \union {Unreadable}, entries : Seq(Entries)]

Parts == [file : BOOLEAN, name : {"file", "schema", "models", "checks", "text"},
          value : Values, at : Nat, size : Nat]

\* A request: its Content-Length header, the parts of its body, each with the
\* place where it begins, the length of the body and the document.
ASSUME RequestsAssumption ==
    \A r \in Requests :
        /\ r.length \in {"absent", "invalid", "exact"}
        /\ r.parts \in Seq(Parts)
        /\ r.body \in Nat
        /\ \A i \in 1..Len(r.parts) :
               /\ r.parts[i].at + 1 + r.parts[i].size < r.body
               /\ i > 1 => r.parts[i].at = r.parts[i - 1].at + 1 + r.parts[i - 1].size
        /\ r.document \in Documents

VARIABLES
    request,     \* the request
    pc,          \* where its intake is
    received,    \* total_bytes of the body
    form,        \* the form's files: not there yet, being parsed, open or closed
    temp,        \* the temporary file
    copied,      \* size_bytes
    entry,       \* entries of the archive that have been checked
    total,       \* total_uncompressed
    kind         \* the document type, once detected

vars == <<request, pc, received, form, temp, copied, entry, total, kind>>

parts    == request.parts
document == request.document
MaxBody  == MaxUpload + Overhead     \* _max_body_bytes

Kinds == {"pdf", "png", "jpeg", "doc", "xls", "docx", "xlsx", "html"}

TypeOK ==
    /\ pc \in {"length", "stream", "form", "copy", "detect", "archive", "image",
               "stored", "done", "rejected", "failed", "broken"}
    /\ received \in 0..request.body
    /\ form \in {"none", "parsing", "open", "closed"}
    /\ temp \in {"none", "present", "removed"}
    /\ copied \in Nat /\ entry \in Nat /\ total \in Nat
    /\ kind \in Kinds \union {"unknown"}

Init ==
    /\ request \in Requests
    /\ pc = "length"
    /\ received = 0 /\ form = "none"
    /\ temp = "none" /\ copied = 0
    /\ entry = 0 /\ total = 0 /\ kind = "unknown"

-------------------------------------------------------------------------------
(* parse_multipart_request                                                  *)

\* The form is given up, with a rejection or another exception.  Whatever was
\* parsed is closed, by the parser or by parse_multipart_request().
GiveUpForm(end) ==
    /\ pc' = end
    /\ form' = IF form = "none" THEN "none" ELSE "closed"
    /\ UNCHANGED <<request, temp, copied, entry, total, kind>>

\* _reject_oversized_body()
CheckLength ==
    /\ pc = "length"
    /\ \/ /\ request.length = "invalid" \/ (request.length = "exact" /\ request.body > MaxBody)
          /\ GiveUpForm("rejected")
       \/ /\ request.length = "absent" \/ (request.length = "exact" /\ request.body <= MaxBody)
          /\ pc' = "stream" /\ form' = "parsing"
          /\ UNCHANGED <<request, temp, copied, entry, total, kind>>
    /\ UNCHANGED received

\* The parts whose header is among the first n units, and the data of one.
SeenFiles(n)  == {i \in 1..Len(parts) : parts[i].at < n /\ parts[i].file}
SeenFields(n) == {i \in 1..Len(parts) : parts[i].at < n /\ ~parts[i].file}

DataSeen(n, i) ==
    IF parts[i].at + 1 + parts[i].size <= n THEN parts[i].size ELSE n - parts[i].at - 1

\* The parser finds one of its limits exceeded in the first n units.
Exceeds(n) ==
    \/ Cardinality(SeenFiles(n)) > 1
    \/ Cardinality(SeenFields(n)) > MaxFields
    \/ \E i \in SeenFields(n) : DataSeen(n, i) > FieldLimit

\* Faulty: the chunk is parsed before it is counted, and a limit of the parser
\* that is exceeded in a chunk that ends the body goes unnoticed.
ReceiveLastUnchecked ==
    /\ pc = "stream"
    /\ \E n \in received + 1 .. request.body :
          /\ received' = n
          /\ IF n > MaxBody \/ (n < request.body /\ Exceeds(n)) THEN GiveUpForm("rejected")
             ELSE UNCHANGED <<request, pc, form, temp, copied, entry, total, kind>>

\* _limited_body_stream() counts a chunk before the parser sees it.
Receive ==
    /\ pc = "stream"
    /\ \E n \in received + 1 .. request.body :
          /\ received' = n
          /\ IF n > MaxBody \/ Exceeds(n) THEN GiveUpForm("rejected")
             ELSE UNCHANGED <<request, pc, form, temp, copied, entry, total, kind>>

EndOfBody ==
    /\ pc = "stream" /\ received = request.body
    /\ pc' = "form" /\ form' = "open"
    /\ UNCHANGED <<request, received, temp, copied, entry, total, kind>>

\* The client goes away or the body is no multipart body: an exception of
\* another class, for which the parser closes nothing.
StreamBreaks ==
    /\ pc = "stream"
    /\ pc' = "broken"
    /\ UNCHANGED <<request, received, form, temp, copied, entry, total, kind>>

\* form.get(): the last item of that name decides.
Named(name) == {i \in 1..Len(parts) : parts[i].name = name}

Latest(name, i) == i \in Named(name) /\ \A j \in Named(name) : j <= i

\* What the code makes of the item that decides, if there is one.
Says(name, v) ==
    \E i \in Named(name) :
        Latest(name, i) /\ v = IF parts[i].file THEN "bad" ELSE parts[i].value

\* _optional_text(), _required_text() and what is done with the text: a field
\* that is blank is a field that is missing.
Verdict(name) ==
    IF Says(name, "raises") THEN "raises"
    ELSE IF Says(name, "bad") \/ (name = "schema" /\ ~Says(name, "good")) THEN "bad"
    ELSE "good"

\* The parts that _extract_single_file() counts.
Uploads == {i \in 1..Len(parts) : parts[i].file /\ parts[i].name = "file"}

\* The fields are read in this order, and the first that is not good decides.
FormVerdict ==
    IF Cardinality(Uploads) # 1 THEN "bad"
    ELSE IF Verdict("schema") # "good" THEN Verdict("schema")
    ELSE IF Verdict("models") # "good" THEN Verdict("models")
    ELSE Verdict("checks")

ReadForm ==
    /\ pc = "form"
    /\ \/ /\ FormVerdict = "good"
          /\ pc' = "copy" /\ temp' = "present"
          /\ UNCHANGED <<request, form, copied, entry, total, kind>>
       \/ FormVerdict = "bad" /\ GiveUpForm("rejected")
       \/ FormVerdict = "raises" /\ GiveUpForm("failed")
    /\ UNCHANGED received

-------------------------------------------------------------------------------
(* stored_upload                                                            *)

Upload == parts[CHOOSE i \in Uploads : TRUE]

\* Faulty: a rejection leaves the file.
LeaveKeepingFile(end) ==
    /\ pc' = end
    /\ form' = "closed"
    /\ temp' = IF end = "done" THEN "removed" ELSE temp

\* The finally clauses: the upload is closed and the file removed.
Leave(end) ==
    /\ pc' = end
    /\ form' = "closed"
    /\ temp' = "removed"

Rest == Upload.size - copied

\* _stream_to_temp() reads, counts and writes a chunk.
Copy ==
    /\ pc = "copy" /\ Rest > 0
    /\ copied' = IF Rest < ReadSize THEN Upload.size ELSE copied + ReadSize
    /\ IF copied' > MaxUpload THEN Leave("rejected") ELSE UNCHANGED <<pc, form, temp>>
    /\ UNCHANGED <<request, received, entry, total, kind>>

CopyEnds ==
    /\ pc = "copy" /\ Rest = 0
    /\ IF copied = 0 THEN Leave("rejected") ELSE pc' = "detect" /\ UNCHANGED <<form, temp>>
    /\ UNCHANGED <<request, received, copied, entry, total, kind>>

\* The disk is full, or the file cannot be read back.
StoreFails ==
    /\ pc \in {"copy", "detect", "archive"}
    /\ Leave("failed")
    /\ UNCHANGED <<request, received, copied, entry, total, kind>>

\* Faulty: the MIME type is taken for the document type.
LegacyKindByMime == document.mime

\* _detect_legacy_office_type(): the suffix is asked before the MIME type.
LegacyKind ==
    CASE document.suffix = "doc" \/ document.mime = "msword" -> "doc"
      [] ~(document.suffix = "doc" \/ document.mime = "msword")
         /\ (document.suffix = "xls" \/ document.mime = "excel") -> "xls"
      [] OTHER -> "unknown"

\* detect_document_type() without the archives.
Detected ==
    CASE document.magic \in {"pdf", "png", "jpeg"} -> document.magic
      [] document.magic = "ole" -> LegacyKind
      [] document.magic = "none" /\ document.html /\ document.suffix = "html" -> "html"
      [] OTHER -> "unknown"

\* Leading bytes decide before the ZIP scan, which looks at the whole file.
IsArchive == document.magic = "none" /\ document.zip

Detect ==
    /\ pc = "detect"
    /\ \/ /\ IsArchive /\ Len(document.entries) <= MaxEntries
          /\ pc' = "archive" /\ UNCHANGED <<form, temp, kind>>
       \/ /\ ~IsArchive /\ Detected # "unknown"
          /\ kind' = Detected
          /\ pc' = IF Detected \in {"png", "jpeg"} THEN "image" ELSE "stored"
          /\ UNCHANGED <<form, temp>>
       \/ /\ IF IsArchive THEN Len(document.entries) > MaxEntries ELSE Detected = "unknown"
          /\ Leave("rejected") /\ UNCHANGED kind
    /\ UNCHANGED <<request, received, copied, entry, total>>

\* Faulty: entries are held against the limit one by one.
UnsafeEntryOnly(e, sum) ==
    \/ e.unsafe
    \/ e.size > MaxUncompressed
    \/ IF e.packed = 0 THEN e.size > 0 ELSE e.size > MaxRatio * e.packed

\* The body of the loop of _validate_ooxml_archive(), with the sum so far.
UnsafeEntry(e, sum) ==
    \/ e.unsafe
    \/ sum > MaxUncompressed
    \/ IF e.packed = 0 THEN e.size > 0 ELSE e.size > MaxRatio * e.packed

CheckEntry ==
    /\ pc = "archive" /\ entry < Len(document.entries)
    /\ LET e == document.entries[entry + 1]
       IN  /\ total' = total + e.size
           /\ IF UnsafeEntry(e, total + e.size) THEN Leave("rejected")
              ELSE UNCHANGED <<pc, form, temp>>
    /\ entry' = entry + 1
    /\ UNCHANGED <<request, received, copied, kind>>

Has(role) == \E n \in 1..Len(document.entries) : document.entries[n].role = role

\* What _detect_office_zip() makes of an archive that is safe.
NameArchive ==
    /\ pc = "archive" /\ entry = Len(document.entries)
    /\ IF Has("types") /\ (Has("word") \/ Has("xl"))
       THEN /\ kind' = IF Has("word") THEN "docx" ELSE "xlsx"
            /\ pc' = "stored" /\ UNCHANGED <<form, temp>>
       ELSE Leave("rejected") /\ UNCHANGED kind
    /\ UNCHANGED <<request, received, copied, entry, total>>

\* _validate_image_dimensions()
CheckImage ==
    /\ pc = "image"
    /\ IF document.pixels = Unreadable \/ document.pixels > MaxPixels THEN Leave("rejected")
       ELSE pc' = "stored" /\ UNCHANGED <<form, temp>>
    /\ UNCHANGED <<request, received, copied, entry, total, kind>>

\* The extraction is over, however it ended.
LeaveContext ==
    /\ pc = "stored"
    /\ Leave("done")
    /\ UNCHANGED <<request, received, copied, entry, total, kind>>

-------------------------------------------------------------------------------

Next ==
    \/ CheckLength \/ Receive \/ EndOfBody \/ StreamBreaks \/ ReadForm
    \/ Copy \/ CopyEnds \/ StoreFails
    \/ Detect \/ CheckEntry \/ NameArchive \/ CheckImage \/ LeaveContext

Spec == Init /\ [][Next]_vars

-------------------------------------------------------------------------------
(* Properties.                                                              *)

\* What the program may say of a request that has been received whole, in
\* whatever chunks: a reference definition without order.
WellFormed ==
    /\ request.length # "invalid" /\ request.body <= MaxBody
    /\ Cardinality(Uploads) = 1
    /\ \A i \in 1..Len(parts) : parts[i].file => i \in Uploads
    /\ Cardinality({i \in 1..Len(parts) : ~parts[i].file}) <= MaxFields
    /\ \A i \in 1..Len(parts) : ~parts[i].file => parts[i].size <= FieldLimit
    /\ \A name \in {"schema", "models", "checks"} :
           \A i \in Named(name) : Latest(name, i) => parts[i].value \in {"good", "blank"}
    /\ \E i \in Named("schema") : Latest("schema", i) /\ parts[i].value = "good"
    /\ \A i \in Uploads : parts[i].size \in 1..MaxUpload

\* Whether an upload is accepted depends on what was sent, never on how the
\* body was cut into chunks, whether its length was declared, or in which
\* order its parts came; and the stored file is all of the file sent.
AcceptanceIsOrderFree ==
    /\ pc \in {"detect", "archive", "image", "stored", "done"} =>
          WellFormed /\ copied = Upload.size
    /\ pc = "rejected" /\ WellFormed => copied = Upload.size

\* Whatever is rejected, or fails after the body was read, leaves no file
\* behind and no spooled upload open; one that is accepted, not before the
\* extraction is over.
NothingIsLeft ==
    /\ pc \in {"rejected", "failed", "done"} =>
          form \in {"none", "closed"} /\ temp \in {"none", "removed"}
    /\ pc \in {"detect", "archive", "image", "stored"} => form = "open" /\ temp = "present"

\* The size of the first n entries, for each n.
SizeOf(entries) ==
    LET sum[n \in 0..Len(entries)] == IF n = 0 THEN 0 ELSE sum[n - 1] + entries[n].size
    IN  sum

\* The limits of a document, all entries of an archive taken together.
WithinLimits ==
    /\ document.magic \in {"png", "jpeg"} => document.pixels \in 0..MaxPixels
    /\ IsArchive =>
          /\ Len(document.entries) <= MaxEntries
          /\ SizeOf(document.entries)[Len(document.entries)] <= MaxUncompressed
          /\ \A n \in 1..Len(document.entries) :
                LET e == document.entries[n]
                IN  ~e.unsafe /\ e.size <= MaxRatio * e.packed

\* No file reaches an extractor that breaks a limit of its type, and none is
\* turned away for a limit that it keeps: the checks of the archive stop at
\* the first entry that fails, but no later entry can make up for it.
DocumentsAreWithinLimits ==
    /\ pc \in {"stored", "done"} => WithinLimits /\ kind # "unknown"
    /\ pc = "rejected" /\ WellFormed /\ WithinLimits =>
          IF IsArchive THEN ~(Has("types") /\ (Has("word") \/ Has("xl")))
                       ELSE Detected = "unknown"
===============================================================================
