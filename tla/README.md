# Verification of internum-core

TLA+ models of the document parsing service in `src/apps/api`, their TLC runs
and their TLAPS proofs. `PROJECT.json` is the index: components, runs,
the source lines each definition models, hazards, findings and theorems.
Source paths below are relative to `src/apps/api/src/api/`.

## The system

A client posts a document and a JSON schema to `POST /v1/parse`. The service
stores the upload in a temporary file, finds out what it is, turns it into
Markdown, has a language model at OpenRouter extract data that fits the schema,
and answers with the data and with metadata (usage, checks, chunking). A long
table is cut into chunks that are extracted concurrently and merged. A poller
cancels the work when the client is gone. The service is one asyncio process;
nothing is persisted but temporary files.

| component | state | operations | interacts with |
|---|---|---|---|
| OpenRouter client (`platform/openrouter/client.py`) | per call: deadline, retry offset, structured mode, attempt number, last error | `complete`, `_post_payload`, `_attempt` | provider (HTTP stream), usage tracker |
| Completion streaming (`platform/openrouter/streaming.py`) | the assembly of one answer | `consume_completion_stream` | client |
| Usage tracking (`common/usage.py`) | list of records | `record` | client |
| Chunk planning (`capabilities/document_parsing/chunking.py`) | tables found, chunks cut | `build_chunk_plan`, `merge_chunk_rows` | service |
| Chunked parse (`capabilities/document_parsing/service.py`) | chunk tasks, semaphore, results | `_run_parse`, `_run_chunked_parse`, `_run_chunk`, `_complete_and_validate` | client, planner, schema package |
| Supervisor (`service.py`) | parse task, poller | `parse`, `_run_with_disconnect_supervisor`, `_poll_disconnect` | router, all of the above by cancellation |
| Intake (`intake.py`) | form, stored upload, log-once mark of an error | `parse_multipart_request`, `stored_upload`, `detect_document_type` | router, service |
| Extraction (`extraction.py`) | page counts, conversion directory, threads | `extract`, `_preflight_pdf`, `_convert_doc_to_docx` | service, PyMuPDF, LibreOffice, MarkItDown |
| Errors and logging (`common/errors.py`, `common/logging.py`) | context variable, events | exception handlers, middleware | every layer |
| Schema package (`platform/schema/*`) | none: pure functions | normalise, repair, validate, postprocess | client, service |
| Settings, overrides, auth (`config/*`, `common/auth.py`) | immutable after start | read, look up a key | all |

Hard behaviour, and the property that covers it:

- *Time.* Attempts, backoffs and the fallback share one deadline
  (`EndsWithinBudget`); a provider that never answers must not hang the call
  (`Terminates`).
- *Numbering and modes.* Three places compute the next attempt number, and the
  switch to the fallback happens at most once, whenever it is due
  (`RequestsInOrder`, `RejectionFallsBack`, `ErrorNamesAttempt`).
- *Streams.* Text, usage, names and errors arrive in any order between keepalives
  and unreadable lines, and the stream may stop anywhere (`ContentFaithful`,
  `MetadataIsLatest`, `FailsWithCause`).
- *Limits.* The body, its fields, the file, a picture, an archive and the pages
  of a PDF are held against limits while they are still being read: where the
  body is cut, or in which order entries and pages come, must not decide
  (`AcceptanceIsOrderFree`, `DocumentsAreWithinLimits`, `PagesDecide`).
- *Boundaries.* Rows at chunk borders are neither lost nor doubled, by the
  planner (`ChunksTile`) or the merge (`RowsSurviveMerge`).
- *Schemas.* The model is held to a strict schema and its answer to the
  original; chunks and summary are held to schemas cut from it, and the object
  assembled from them to the whole (`StrictAnswersFit`, `PartsFitTogether`).
- *Concurrency.* Permits survive failures and cancellation
  (`PermitsConserved`), and no task outlives its request (`NoOrphans`,
  `NothingOutlivesRequest`).
- *Partial failure.* Failed chunks are declared (`PartialIsDeclared`), usage is
  recorded once per result (`ImplementsCompletion`), and a rejected upload
  leaves nothing behind (`NothingIsLeft`).
- *Cancellation.* It reaches only a client that went away and never an outcome
  that is ready (`CancelledOnlyWhenGone`, `OutcomeIsFinal`), ends the request
  in bounded steps (`DisconnectEndsRequest`) and leaves files behind only at
  the places known (`FilesLeakOnlyWhenCutShort`). It does not stop threads: they may lose
  the files they read, but none that a task still waits for does
  (`FilesLiveWhileUsed`).

## Modules

- **`Completion`**: the contract of `complete()`, an abstract specification:
  a bounded number of requests, one end, usage recorded in the step that
  returns a result.
- **`OpenRouterClient`**: one call of `complete()`. `pc` is the await the call
  is in: `check` is the head of the loop in `_post_payload`, `inflight` the
  `wait_for` in `_attempt`, `backoff` the sleep. Each way an attempt can end
  is an action: `Succeed`, `RetryableStatus`, `NetworkError`, `AttemptTimeout`,
  `FinalStatus`, `BadStream`, `Cancel`. An error message is reduced to whether it
  reads as a schema rejection. Time is an integer clock; a due timer may be served up to
  `Lag` ticks late. `C` maps the call to `Completion`.
- **`CompletionStream`**: what happens inside `inflight`, from the first line
  of the event stream to the result of `_run_attempt`. `Receive` is one round
  of the loop in `consume_completion_stream`: `Skip`, `Done` or `Take`. After the
  loop the response is closed (`closing`), an await at which a complete answer
  can still be lost (`Break`). `read`, which the code does not keep, holds the lines
  taken so far; the properties compare the result with it. `Return` is
  `Succeed` of `OpenRouterClient`, `RaiseUpstreamError` its `BadStream`, `Break` its
  `NetworkError`, `AttemptTimeout` or `Cancel`.
- **`ChunkPlanning`**: `build_chunk_plan()`. `SkipLine`, `TakeRun` and `Decide`
  are `_find_dominant_table` and the two limits; `AddChunk` and `Finish` the
  loop over row ranges. A line is a text, a pipe row or a delimiter.
  `TableIsDominant` compares the scan with a definition of tables by
  quantifiers.
- **`ChunkedParse`**: the model calls of one request, chunk tasks numbered
  `1..n` and the request's own task `0`. A task in `first` or `second` is a
  running `Completion`. The semaphore and `gather` are asyncio's, modelled as
  the service uses them: the chunk tasks start back to back, each up to its
  first await (`StartChunks`); a release hands its permit to the oldest waiter,
  which runs in a later step and may be cancelled before it does.
- **`ParseLifecycle`**: the request around its model calls: intake, parse task,
  poller, temporary files, log events, and the thread that runs the preflight or a
  converter (`thread`: queued, then named for what it does). Cancelling the task
  sets `cancelReq`, and the error is delivered at the next await that suspends
  (`Deliver`); work no thread has begun is skipped, a thread that runs goes on with its
  files (`AbandonedEnds`, `CopyOk`, `ConvertOk`) while the task removes them. A
  cancelled request has no response, which the middleware logs as an internal error
  (`NoResponse`). The model calls are the one
  await `calls`.
- **`ParseRequest`**: the composition of the last two. It extends `ChunkedParse`,
  whose `task` are the tasks of the calls, and `L` is the lifecycle, whose task
  is `parse` here. They meet where `_run_parse()` starts the calls (`Close`), where the calls end (`During`), and where a cancellation of the
  parse task reaches what it gathers (`PollAnswer`, `Deliver`). A step of one
  leaves the other's variables alone. `ImplementsLifecycle` is the
  lifecycle's specification, fairness included: to the rest of the request the
  calls are the one await they are taken for.
- **`Intake`**: what an upload goes through before it is extracted. A body is
  counted in units, one per part header, one per unit of data and one at the
  end; `Receive` takes any number of them, so every cutting of the body is a
  behaviour, and the limits of the parser apply to what has been seen.
  `ReadForm` reads the fields in the code's order, `Copy` and `CopyEnds` are
  `_stream_to_temp`, `Detect` is `detect_document_type`, and `CheckEntry`,
  `NameArchive` and `CheckImage` the limits of archives and images. A file is
  reduced to what the detection looks at. `WellFormed` and `WithinLimits` say
  without order what the handlers decide step by step.
- **`Extraction`**: the preflight of a PDF page by page (`LookAtPage`), the
  mode and limits that its counts decide (`Decide`), and the converter. A page
  is its text, whether it has an image, and its size; `Rendered` computes the
  pixels it is rendered to with the code's rounding.
- **`Answers`**: the schemas of one request and the answers to them. A value is a
  record of its type and content. A schema is a table of nodes: a node is a
  record of its keywords and names the nodes below it by their place, which
  comes before its own; the last node is the root. What the code does by
  recursion over a schema is a function of the node's number: `Admitted` gives the
  values valid against each node, `Rewritten` what the rewriting of
  hinted strings makes of each value. A node is seen as the caller
  gave it, in the strict form the model is given (`Strict`, with or without
  null), or relaxed (`Relaxed`, which is part of a property); `Below` says how the nodes below
  are then seen, so that `normalize_for_model()` needs no second table.
  `Rows`, `ChunkSchema` and `SummarySchema` are the nodes that chunking adds
  to the caller's (`Table`), `Assembled` the object put together again.

How they fit: `OpenRouterClient` implements `Completion`, which is what a call
is to `ChunkedParse`; `CompletionStream` is the inside of one attempt;
`ChunkPlanning` yields the plans, `Answers` says when an answer is valid;
`Intake` and `Extraction` detail `read` and `preflight`/`extract` of
`ParseLifecycle`, which keeps their files under cancellation; `ParseRequest`
joins it with `ChunkedParse`.

Operators introduced by a comment beginning with "Faulty" are variants of the
operator that follows, each with a plausible programming error. They are part of no
specification: each shows that some property would notice it.

## Runs

| run | instance | shows |
|---|---|---|
| `client` | total 10, attempt 4, 2 retries (the default), backoff 1, lag 1, first attempt 1 or 3 | budget, numbering, modes and errors of a call, its end, and the refinement |
| `stream` | streams of up to 4 lines: keepalives, unreadable data, `[DONE]`, eight chunks with and without text, names, usage and errors | content and metadata are the stream's, errors are raised for cause |
| `planning` | all documents of up to 5 lines and of up to 4 blocks (text, pipe line, table of 0 to 2 rows), thresholds 1 and 3, chunks of 1 to 3 rows, schemas with up to two properties | the right table is cut, no line is lost |
| `chunked` | no plan, or 3 chunks; 2 permits | permits, orphans, calls, partial results, end |
| `merge` | 1 to 3 chunks, 1 permit, four kinds of answer | what the merge drops, the order of first calls |
| `lifecycle` | the three document types, spooled or not | files under running and abandoned threads, log events, cancellation; complete: the model is finite |
| `request` | no plan, or 2 chunks for 1 permit; with and without a conversion | lifecycle and calls joined: nothing outlives the request, and the lifecycle is implemented |
| `intake` | forms of up to two parts of 22 kinds, of three out of 12 and of four out of 3, around each limit, cut in every way; archives of up to 4 entries; images; every disagreement of leading bytes, scans, suffix and MIME type | acceptance, clean-up, limits |
| `extraction` | PDFs of up to 4 pages of seven kinds, around each limit, and those that cannot be opened | pages decide mode and limits |
| `answers` | some sixty schemas, each keyword where the code looks for it and where it does not, against some forty answers, in one completion or cut into two chunks and summary | why a strict answer, or an assembled object, can be rejected |
| `usage_claim`, `data_claim` | those of `chunked` and `answers` | what the code does not keep (see Findings) |

Why the bounds are enough. Four lines let two chunks follow each other with noise
or a third chunk between, before and after them, which is all that a fold over the
lines can tell apart; the proofs cover streams of any length. The client's total budget fits two full attempts and part
of a third, so every end of a retry loop (retries used up, backoff does not
fit, budget spent while asleep) occurs in both modes. Five lines hold
every shape of a single table, ragged ones included; four blocks hold two
tables of equal size apart from each other (a tie for the dominant one), tables
that touch and so are one, and text before, between and after them. Three chunks on two permits have a waiter that can be granted a
permit or cancelled; the semaphore treats further waiters alike. On one permit
two wait at once, so that one could be overtaken.
The merge run needs three chunks so that a chunk in the middle can fail, or be
empty. Its answers repeat a row across and inside chunks. In the composed run
one chunk calls while the other queues, so a cancellation meets both kinds of
await. The limits of the intake are small and different from each other, so
that each is reached by a body that keeps the others; the copy reads
two units at a time, so that a file can end within, at and after a read.
In `answers` two chunks stand for any number: what is assembled depends on the
rows of each, and on whether a summary was asked for. Its values are nested three
deep, an array of rows that are objects in an object, and its schemas put each
keyword at each of these levels; the theorems are for every depth.

Deadlock is not checked: every model ends, as a request does.

**Fairness.** `OpenRouterClient` assumes that the event loop runs the call's
ready code and due timers and that the clock advances, nothing of the
provider. `ChunkedParse` assumes weak fairness of all its steps together: a completion in
flight ends, which the client's `Terminates` justifies, and ready tasks run.
`ParseLifecycle` assumes that the event loop and local file I/O make progress,
and nothing of converters or the model: `DisconnectEndsRequest` holds though they may hang.
`ParseRequest` assumes the same and that ready tasks run, and again nothing of
the model, although `ChunkedParse` alone does. The other modules state no
liveness and assume nothing.

## Proofs

`OpenRouterClientProofs`, `CompletionStreamProofs`, `ChunkPlanningProofs`,
`ParseLifecycleProofs`, `ParseRequestProofs` (which also holds the proofs about
`ChunkedParse`), `IntakeProofs`, `ExtractionProofs` and `AnswersProofs` hold
for every value of the constants that the modules' assumptions allow.

- **Client.** The inductive invariant `IInv` adds to the types: the deadline is
  `TotalBudget` for the whole call; a timer is never set past the deadline, for
  an attempt by the minimum of cap and remainder, for a backoff because it is
  taken only if its nominal length is below the remainder; hence the clock,
  which waits for a timer at most `Lag` ticks, stays within `TotalBudget + Lag`.
  For the numbering it relates `start + offset` to the number of requests sent,
  by phase of the loop, and for the bound the requests of each mode to
  the offset. `RaiseKeepsIInv` and `RetryKeepsIInv` are proved once for the
  error paths that five actions share. `Implements` maps every step to a step of
  `Completion` or a stutter; it covers the safety part.
- **Stream.** `IInv` says from which line each field of the assembly comes
  (`UsageInv`, `ModelInv`) and that the assembly holds an error exactly if a line
  read did; a line appended to `read` leaves the earlier ones what they were. The
  properties of the result follow because it is computed from the assembly in one
  step. The bound `MaxLines` is arbitrary there. For `ContentFaithful` the
  property numbers the lines that bring a piece by a cardinality (`Told`), and
  `ContentInv` keeps that the n-th piece assembled is that of the n-th such line.
- **Planner.** `IInv` is the loop invariant: the chunks so far are adjacent and
  cover the rows below `Covered`, the smaller of `start` and the number of rows.
  `CoverInv` states pairwise order of all chunks, which `ChunksTile` gives for
  neighbours only, and is what makes "exactly one chunk" follow. `ScanInv` is the
  invariant of the scan for tables: it stops only at the end of a run of pipe
  lines (`AtBoundary`), every block is a table of the part scanned
  (`BlocksSound`), and every table of that part is a block (`BlocksComplete`).
  With both, the choice of the block with most rows is `TableIsDominant`.
- **Calls.** For any number of chunks and permits, `QueueInv` says that the
  queue is always the last chunks of the plan in order, which is why handing
  a permit to its head keeps the order of first calls, and that holders and free
  permits add up. `PhaseInv` ties what the tasks do to where the request's own
  task is, and makes `NoOrphans` follow; `CountInv` relates the calls of a task
  to its state and pass. `Release` and `Raised`, which
  several actions share, are proved to keep them once. That the merge loses no
  row (`RowsSurviveMerge`) is a fact about three recursive functions over the
  chunks: what the merge makes (`merged`), all rows (`all`) and the rows without
  immediate repetitions. `MergeFaithful` proves by induction over the chunks that
  the first two are the same but for such repetitions, at most one for each
  border, and end with the same row. Two sequences alike in this sense (`Alike`)
  stay so when both are extended by the same rows (`AlikeExtended`), or one without
  a row that repeats its last (`AlikeWithout`): what a step of the merge does.
- **Lifecycle.** The model is finite, so TLC already decides it for the three
  document types; the proof gives the reason, and the theorems are stated for
  `Safe`, without fairness, so that they can be used of a request whose steps are
  only steps of the lifecycle. `IInv` says, for each phase of the
  tasks and the thread, which files exist and who removes them (`UploadInv`,
  `ConversionInv`), that a thread does what the task waits for or was abandoned
  (`ThreadInv`), what has been logged (`LogInv`) and that a pending
  cancellation has its cause (`CancelInv`); each action is one step.
- **Request.** Every step of the composition is a step or a stutter of the
  lifecycle (`RefinesLifecycle`) and of the calls (`RefinesCalls`), for all
  plans, answers and permits. Hence the safety theorems about either hold of
  the whole (`CallsAlwaysSafe`, `LifecycleAlwaysSafe`); the latter are those of
  `ParseLifecycleProofs` with `parse` for its task. What neither part says needs
  invariants that relate the two: `OuterInv`, how far the lifecycle is;
  `MeetInv`, that the parse task awaits the calls exactly while they go on, and
  ends as they do; `PendingInv`, that a cancellation pending at that await has been
  passed on to the calls. With the first two and the invariant of the calls,
  nothing outlives a request (`NothingEverOutlivesRequest`); with the third, a
  cancelled request calls the model no more (`CancelAlwaysReachesCalls`).
- **Intake.** `BodyInv` is the reason that cutting the body does not matter: a
  limit of the parser exceeded by a prefix is exceeded by the body, so a body that
  is read to its end kept them all, and one refused on the way would be
  refused anyhow (`CauseInv`). `CopyInv` does the same for the copy, and
  `FileInv` says which files exist at each stage. `CheckInv` says what the loop over
  an archive's entries has found so far: its running total is the sum of the
  sizes so far (`SizeOf`), and every entry was harmless. An archive refused at an
  entry is one that breaks a limit as a whole, because the sums only grow.
- **Extraction.** `PageInv` counts the scanned pages among those looked at, and
  keeps that a page over the pixel budget has ended the preflight;
  `StageInv` carries the counts to where mode and limits are decided.
- **Answers.** For all schemas and for values nested to any depth. `IInv` says that every
  answer accepted is an object valid against the schema it was asked for, but for
  the chunks given up. `StrictAnswersFit` is a fact about schemas: a view that
  asks for no more of a node than another, and of the nodes below it, admits all
  that the other admits (`Wider`), the relaxed view of a node is such
  (`RelaxedAsksLess`, `BelowRelaxed`), and by induction over the table whatever the
  strict form admits the relaxed one admits (`RelaxedAdmitsMore`). For
  `PartsFitTogether` the nodes cut from a schema are added to its table without changing
  what the others admit (`TableNodes`); the rows accepted for the chunks are valid
  against the caller's rows (`RowsOfChunk`), merging keeps them so (`RowsMerged`), and
  the object made of them and the summary's properties is valid if the
  caller's root says no more than its properties (`AssembledFits`): this is where the rows
  of a chunk given up may be missing, since nothing bounds their number but
  what `SaysMore` names. `RewrittenDataIsShaped` complements the finding about
  `DataIsShaped`: rewriting changes atoms only (`RewrittenAlike`), and a schema
  none of whose nodes has an `enum`, which stands for every keyword that restricts
  a string, cannot tell such values apart (`Blind`).
- **Induction.** The library's induction theorems take an operator as a
  parameter, which the provers cannot instantiate. Where an induction is needed,
  it is over a set: every non-empty set of naturals has a least member
  (`LeastNumber`, from the well-foundedness of `<` on `Nat`), so a subset of
  `Nat` that holds 0 and every successor is `Nat` (`NumberInduction`, and `UpTo` for
  `0..N`), and a function defined by recursion over `0..N` exists (`RunExists`) and
  therefore satisfies its equation. The recursions the models need are functions of
  this form (`Merged`, `RowsWithout`, `Destutter`, `SizeOf`, and by the same argument
  `Nested`, `Admitted` and `Rewritten`, whose value at a node depends on the nodes
  before it).
- **Assumptions.** Budget and cap positive, retries and lag natural, nominal
  backoffs natural (units may be chosen so), first attempt positive, documents
  sequences of line kinds, thresholds, chunk sizes and permits positive, limits
  natural and the read size positive, as `config/settings.py` validates them or
  the code fixes them; a form's parts follow each other in its body; the answers
  to a chunk's call are sequences of rows, as the schema of the chunk demands; the
  kinds of a request are document types; schemas are finite and without
  cycles, which JSON without `$ref` cannot have, the answers are values of some bounded depth, at
  least the two that an object with rows needs.

Checked by TLC only: every liveness property (`Terminates`,
`DisconnectEndsRequest`) and the fairness part of `ImplementsCompletion` and
`ImplementsLifecycle`, because liveness and ENABLED are out of the prover's
reach. Every other property of a passing run is a theorem.

## Findings

With a run that shows them:

- `meta.usage` counts the completion each task ended with; answers
  that were rejected, and failed chunks, were paid for and recorded but are not
  reported (`service.py:212`, `usage_claim`).
- `normalize_values()` rewrites hinted strings after the answer was validated, and
  nothing validates the result: the data returned may leave an enum or a
  pattern of the caller's schema (`service.py:166`, `313`, `data_claim`). Only
  keywords that restrict strings can be left so (`RewrittenDataIsShaped`).

Stated by the exceptions that properties of passing runs make:

- A client that goes away while its upload, spooled to disk, is read or closed leaves the
  temporary file behind (`intake.py:212`, `126`); a conversion directory stays behind when it
  cannot be filled, and when the request is cancelled while LibreOffice runs
  (`extraction.py:301`, `88`). `FilesLeakOnlyWhenCutShort` says that these are
  the only cases.
- A cancelled request takes away the files of the threads it abandons: the preflight, the
  copy for LibreOffice and MarkItDown may find the upload unlinked (`intake.py:128`), and
  MarkItDown its converted file gone (`extraction.py:115`). They fail unheard, or read
  what they have open. `FilesLiveWhileUsed` says that these are the only threads that
  lose a file, and that no other request depends on one.
- A client that goes away makes its request log `request.failed` as an internal error with a
  stack trace: `CancelledError` leaves the endpoint, Starlette's `call_next()` raises
  `RuntimeError` for the missing response, and the middleware takes it for an
  unexpected exception (`logging.py:80`). If its intake had been rejected before, that is
  logged as well. `LoggedOnce` counts these.
- A poll that raises leaves nobody to watch the client (`DisconnectEndsRequest`).
- A model that keeps to the strict schema may have its answer rejected, because
  strictness allows null, relaxes a `oneOf`, drops an undeclared required
  property, or replaces a type named besides properties by "object"
  (`StrictAnswersFit`); chunks that fit their schemas may make an object that does
  not, if the root of the caller's schema has alternatives, an enum, a type other
  than object or undeclared required properties, or its row array alternatives or an
  enum (`PartsFitTogether`, `SaysMore`).

Seen while modelling, in code a property would only restate: `totalRows` in the
response is the row count of the document's table, not of the rows extracted
(`service.py:319`); the allowance for fields in the body limit (64 KiB) is smaller than
what the fields may take together, so that long fields are refused with a message
about the file (`intake.py:273`); a type given as a list, as in `[array, null]`, is not
recognised (`normalize.py:27`), so that objects in its items stay as lax as the caller wrote them.

## Not modelled

- Payloads and prompts, formatting, the wording of messages, log fields, HTTP
  details, error envelopes and the request's context variable.
- Keywords of schemas beyond those of `Nodes`: `pattern`, `minimum` and the like are an
  `enum` of atoms, and `minItems`, `uniqueItems` and other keywords of an array have no
  counterpart, so that the theorems of `Answers` do not speak of schemas with them.
- `$ref` and `$defs` in schemas, and the inside of json_repair, jsonschema, the
  multipart parser, zipfile, Pillow, PyMuPDF, libmagic and the converters; of
  LibreOffice and MarkItDown only success and failure.
- When the body breaks off before the form is complete, what the parser
  spooled is the parser's; `Intake` ends there (`StreamBreaks`).
- Post-extraction checks (`platform/schema/validate.py`): a pure function of the final data
  that changes nothing; settings, overrides and the lookup of API keys, which keep no state;
  application wiring, shared packages, scripts.
- The threads that read and close the upload's spool file, abandoned or not: they use neither the
  stored upload nor the conversion directory.
- Exceptions of `complete()` other than `UpstreamError` and cancellation; several
  requests at once, which share only settings, the thread pool and the
  append-only tracker; process crashes, after which nothing is recovered.

## What could follow

Definitions behind `$ref` in `Answers`; the post-extraction checks as operators
with a reference definition; several requests that share the thread pool.
