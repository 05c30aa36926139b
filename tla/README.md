# Verification of the invoice-extraction pipeline

TLA+ models of the pipeline under `src/invoice_extraction/`, the TLC runs that
check them on small instances, and TLAPS proofs of the properties that matter
most for every instance. File names below are relative to
`src/invoice_extraction/` unless they start elsewhere; `PROJECT.json` maps every
definition to the lines it stands for.

## 1. The system

A scheduled job runs a notebook, the notebook calls `run_batch`, and `run_batch`
sends every PDF of an input volume through a LangGraph workflow: two extraction
agents read the text of the PDF, a comparator decides whether they agree, a judge
settles a disagreement, and the rows go to a Delta table. The PDF is then moved
to an archive or to quarantine.

| Component | State | Operations | Interacts with |
|---|---|---|---|
| Batch runner, `runner.py` | list of results, thread pool, the three directories | `run_batch`, `_process_one`, `_maybe_move`, `_build_summary` | invokes the graph from pool threads; moves files from the main thread |
| Invoice graph, `graph.py`, `state.py` | one `InvoiceState` per invoke | six nodes, one conditional edge | calls the agents (in two threads), comparator, judge, writer |
| Extraction agents, `agents/extraction_agent.py` | none | `run`: look up, call, parse, store | cache (shared by all threads), chat model through the retry loop |
| Judge, `agents/judge.py` | none | `judge_disagreement` | chat model through the retry loop |
| Comparator, `agents/comparator.py`, `utils/text_utils.py` | none (pure) | normalise, sort, compare | |
| Response cache, `utils/cache.py` | dict, hit and miss counters, a lock | `get`, `set`, `stats` | used by every agent thread of a batch |
| Retry, `utils/retry.py` | local attempt counter | `with_retry` | wraps each model call |
| Delta writer, `storage/delta_writer.py` | the Delta table (external) | build the frame, append, merge | called by concurrent graphs |
| PDF loader, `pdf_loader.py` | none | text of a PDF, page by page | reads the file the runner later moves |
| JSON recovery, `utils/json_utils.py` | none (pure) | `extract_json` | |
| Chat model client, `llm_client.py` | `FakeChatModel` has a call counter | factory | |
| Configuration, `config.py` | immutable | `from_env`, `validate_for_production` | |
| Notebook and job, `notebooks/`, `jobs/` | retry count of the job | one `run_batch` per attempt, raise if any invoice failed | |

What is hard here:

- **Concurrency.** Up to `max_concurrent_invoices` graphs run in threads, two
  agents each; they share the cache, the chat model, the table and the input
  volume, and the main thread moves files while workers read and write.
- **Failure.** Loading, each agent, the judge, the write and the move can each
  fail alone. Load and write errors become state fields, agent and judge errors
  become exceptions, a failed move is only logged, and Spark may commit and then
  raise.
- **Ordering and repetition.** Results are handled in completion order; the table
  outlives the batch and sees invoices again; `tableExists` and the write are two
  steps.
- **Boundaries.** Retry budget at or below zero, pool size at or below zero,
  outputs of unequal length or none, a cache at capacity.

What makes each component correct: the runner archives only what was written,
accounts for every file and always ends; the graph writes only rows that come
from the invoice's own text and were settled; the cache stays within its bound
and loses no count; the comparator says "match" exactly when the outputs hold the
same rows; the frame keeps every scalar an agent gave, and the table one version of an
invoice; a text has the print of all pages, or there is none; the retry loop stays
within its budget and gives up only with a reason.

## 2. Modules

| Module | Built on | Proofs |
|---|---|---|
| `Retry` | | `RetryProofs` |
| `OutputComparison` | `Comparison` | `ComparisonProofs` |
| `InvoiceGraph` | `Comparison`, `ResponseCache`, `DeltaTable` | `InvoiceGraphProofs` |
| `Batch` | `DeltaTable` | `BatchProofs` |
| `Pipeline` | `InvoiceGraph`; implements `Batch` | `PipelineProofs`, on `InvoiceGraphProofs` and `BatchProofs` |
| `DeltaWriters` | `DeltaTable` | `DeltaWritersProofs` |
| `Job` | `DeltaTable` | `JobProofs` |
| `Reading` | `JsonRecovery`, `PdfLoader`, `Settings` | `ReadingProofs` |

`Comparison`, `ResponseCache`, `DeltaTable`, `JsonRecovery`, `PdfLoader` and
`Settings` are pure: they define what one call does to a value. The other modules
have variables and take their steps from them. `MCxxx` modules give the constants
of `xxx` small values, `xxxProofs` modules prove theorems about `xxx` for all
values of them (`ComparisonProofs` about `OutputComparison`).

**Retry** is one execution of `with_retry`. `attempt` is the code's counter; `pc`
is the place in the loop. `Raise` and `BackOff` are the two ends of the `except`
block, `Wake` is the end of the sleep. `calls`, `slept` and `failures` are history:
how often the function was called, how long it slept, what it raised. An
exception is its class name and the names of its bases, which is all that
`_is_retryable` looks at. Time is in whole units.

**Comparison** has `compare_outputs` (normalise, strip the suffix, sort, compare)
and `build_result_dataframe`. The eight fields of a row are represented by two:
one that the sort key reads and one that it does not. `Cleaned`, `FloatOf` and
`TextOrder` tell what the string methods, `float()` and string order give on the
strings of an instance, so that "7", 7 and 7.0 differ where Python differs. A cell
may be a JSON object: it is compared as it stands, and `Side` drops it, since
`json_normalize` spreads it over columns of other names.
**OutputComparison** takes any two outputs of given rows through both.

**ResponseCache** is `InMemoryCache`: entries in insertion order and the counters.
One operation is one step of its users because the code holds the lock throughout.

**DeltaTable** is the table, a function from `invoice_id` to rows: append, and
MERGE on `invoice_id` with update-all and insert-all, which refuses two source
rows for one target row.

**InvoiceGraph** is `app.invoke` for several invoices at a time. `node` is where a
run is, `state` its `InvoiceState`, `thread` the step each agent thread has
reached in `ExtractionAgent.run`, `local` what it is about to return. The cache
lookup, the model call and the store are separate steps, since the lock is not
held across them. LangGraph's superstep is `JoinExtract`: the updates of both
agents go in together, or `invoke` raises when one of them raised. The model is
any member of `Answers` or `Verdicts`, or a failure.

**Batch** is one `run_batch`. `pc` is the step of each `_process_one`, `main` the
main thread, `current` the task it handles, `where` the directory of each file,
`table` the Delta table. The graph is reduced to what its caller sees: it reads
the file, then raises, or writes, or reports a failed write whose rows may or may
not be there. A file that was moved away, or has no text, is `unreadable` and
writes one row of nulls. `Collect` takes any finished task, as `as_completed` does;
it has no step for the handler around `future.result()` (`runner.py:142-146`),
because `_process_one` catches every exception and the handler is never reached.

**DeltaWriters** is `write_to_delta` over the life of the table: any number of
executions, of the same or of different invoices, with the table created by the
first of them. `CheckTable` and the commit are separate steps.

**Pipeline** composes InvoiceGraph with the runner. `main`, `current`, `where` and
`summary` are those of Batch, `pool` is what the thread pool knows of a task. A
worker that has started a task lets its graph take steps, with two agent threads
of its own; `Collect` reads the final state through `Result`, which is the second
half of `_process_one`. The cache and the table are those of all graphs.
Batch is its abstract specification: `B == INSTANCE Batch WITH` maps `pc` to
`Step` (where the task's graph has got to), `result` to `Result` and the table to
`RowsWritten` (which task wrote a row, and whether the PDF had been read). The
steps of the main thread are Batch's own under this mapping, conjoined with
what they mean for the pool. The steps of the graph are not taken from Batch, and
that each of them is one of Batch's or changes nothing that Batch sees is what
`ImplementsBatch` says: agents, join, comparison and judge are stutters,
`JoinExtract` and `JudgeFails` may be `GraphRaises`, the two ends of
`write_to_delta` are `GraphWrites` and `GraphWriteFails`.

**Job** is the scheduled job over its life. `job` and `attempt` are what the Jobs
service knows, `step`, `seen` and `success` what the driver of one attempt holds and
loses when it dies, `volume` and `table` what survives. An attempt is Batch file by
file, without the pool: each listed file goes through `Read`, a write or a failure,
`Copy` and `Remove`, the files in any order; the move is two steps, since between
volumes `shutil.move` copies and then unlinks, and either may fail or be the last
thing the driver does. `EndBatch` is the end of the notebook with its raise;
`AfterFailure` is the retry setting. Vendors upload at any time (`Upload`), also over
a name that is being processed; an edition is the number of its upload. `late` is
history: which editions arrived over a file under way, and whether between the
halves of its move.

**JsonRecovery** is `extract_json`. The regular expressions only look at fences and
brackets, so an answer is a sequence of chunks and a chunk is one of the things that
differ in them: prose, prose with brackets, a fence, a JSON value of one of four
kinds, an array that breaks off. `Spanned` is what a greedy pattern matches: from
the first opening to the last closing bracket.

**PdfLoader** is `load_invoice` from pages to text: a page has print, has none, or
raises, and OCR of a page adds nothing (`OcrPage`), since `image["data"]` raises for
every image that pdfplumber lists.
**Settings** is the way from the environment, or from the notebook's widgets, through
`validate_for_production` and `build_chat_model` to the branch the writer takes.
**Reading** reads any input of given sets through these three modules, one action for
each kind of input.

## 3. Runs

Passing runs:

| Run | Instance | Shows |
|---|---|---|
| `batch` | 3 files, 2 workers, append, up to 2 rows | every interleaving of workers, moves and failures keeps archive, table and summary in agreement and moves no file under its reader; the batch ends |
| `batch_serial` | 4 tasks: one file twice, a namesake of it, one other; pool size 0, merge | one graph at a time and the batch ends; an archived file whose rows a later task replaced by nulls has a failed task of its `invoice_id` in the results; a file that is in no directory was overwritten by a namesake |
| `graph` | 2 invoices of one text, cache of 1 entry, append | rows, judgement, report and cache are consistent; every run ends |
| `pipeline` | 2 invoices of two texts, 2 workers, cache of 3 entries, merge | run_batch over the real graph implements Batch; what is archived is in the table with all its rows, from both agents' answers to its own text; the batch ends |
| `retry` | 3 retries, 5 kinds of exception | budget, reasons to give up, total back-off, termination |
| `comparison` | all pairs of outputs of up to 3 rows of 8 kinds | `compare_outputs` against matching by permutation; the frame against both outputs, of which it keeps all but the cells that are objects |
| `merge_writers` | 3 writes of 2 invoices, no table yet, merge | one version of each invoice is left, that of its last success |
| `job` | 2 names, one uploaded twice, merge, 1 retry, 1 crash or timeout | no PDF is lost, re-runs do not pile rows up, only what was written is archived, a run that ends well has persisted everything, every run ends, no file is passed over |
| `reading` | answers of up to 3 chunks and fenced ones, PDFs of up to 3 pages, all settings | one document is found wherever it may stand; rows are never those of two documents, nor some of several complete rows; a text has the print of all pages or there is none; settings take effect or stop the batch |

Why the bounds are enough. Two invoices are four agent threads, which gives every
pair of cache users: same text with the same or the other agent, and different
text. A cache of one entry evicts at every store, also of a key that is there; one
of three entries, filled by four keys, evicts only the last. Three files
and two workers leave one task queued while one is read and one is collected and
moved, the smallest instance with all of them at a time. The four tasks of
`batch_serial` are a file whose second task may find it moved away, a namesake that
writes under its `invoice_id` and is moved over it, and a file on its own. Three rows give the sort
ties, strict order and a missing field together. Three writes are two of one
invoice and one of another, so that table creation races with a stranger's write
while a re-run follows. Three retries reach the ceiling of the delay (caps 2, 4, 4).
In `pipeline` the second invoice is one on which the agents agree, so that a graph
that goes straight to its write runs beside one that asks the judge. In `job` one
retry is what the job sets; the number of runs is not bounded, so a file left behind
by a crash or by a failed move is processed again and again; two editions are a file
and one that replaces it, and the second name has one row, for the re-run that MERGE
accepts, beside one of two rows, for the re-run that it refuses. In `reading` three
chunks are a document with something on either side, the five of the fenced
answers bring a third fence; three pages put one that raises, or has no print, before,
between and after pages with print.

Runs that end in a violation, each of a sentence of the repository:

| Run | The sentence | What the code does |
|---|---|---|
| `comparison_row_aligned` | `storage/delta_writer.py:52` "row-aligned DataFrame" | outputs are compared sorted and written unsorted |
| `merge_duplicates` | `storage/delta_writer.py:116` "does not duplicate rows" | one row merged over two leaves it twice |
| `json_leading_sentence` | `utils/json_utils.py:4` "add a leading sentence ... This module centralizes that recovery logic" | after a sentence, the array inside the judge's object is taken for the answer, and its verdict is lost |

Other sentences that reading the code for the models, or the models, show to be
inexact, without a run of their own:

- `README.md:111` "Every node returns an error field": agents and judge raise
  (`ModelFails`, `JudgeFails`).
- `runner.py:114` "A failure on one invoice is isolated": under merge, the row of
  nulls of a file that cannot be read replaces the rows of a listed file with the
  same basename that succeeded.
- `runner.py:111` "discovered (or explicitly provided)": an empty list is taken for
  none, and every PDF of the input volume is processed and moved (`Paths`).
- `utils/retry.py:7` counts one attempt less than the loop makes (`CallBudget` has
  the right number); an instance of a subclass of a listed exception class is not
  retried (`IsRetryable`).
- `storage/delta_writer.py:60-62` "so nothing is silently dropped": that is about
  rows. A field under a name that the prompt did not ask for, Agent-1's without their
  suffix among them, is compared but not written, and so is a field whose value is a
  JSON object (`Side`). `ScalarsAreKept` is about all other cells.
- A text that reads as nan is unequal to itself (`SameValue`), so that two outputs
  that are alike may not match.
- `README.md:66-68` "falls back to OCR (`pytesseract`) for image-only pages":
  `pdf_loader.py:55` asks an image for the key `data`, and pdfplumber's images have
  none. The exception is caught image by image, so no scan is ever read: a PDF of
  scans fails to load, and a scanned page among printed ones is missing from the text
  without an error (`OcrPage`).
- `utils/json_utils.py:4-7` "This module centralizes that recovery logic": when an
  array breaks off after its first row, that row alone is returned, as if it were the
  answer (`ObjectIn`). `RowsOfOneDocument` admits this case by name.
- `README.md:107` "idempotent MERGE": a re-run of an invoice with two rows or more is
  refused as an ambiguous MERGE. After a crash between commit and move this sends
  an invoice to quarantine whose rows are in the table (`Commit` in Job).
- `README.md:92`, the cache covers job retries: it lives in one `run_batch`, and a
  retry is another.
- `README.md:192-194` grants the job `READ VOLUME` on the input volume: there every
  move fails after its copy, and the next run processes each file again (`MoveFails`).
- `README.md:204-206`, a provider needs registering in `_PROVIDER_BUILDERS` only:
  `validate_for_production` has its own list (`IsValid`).
- `config.py:11-12`, validated eagerly by `from_env`: `validate_for_production` does
  it, later, and an empty catalog passes.

Premises. `ArchivedIsPersisted` (under merge) and `NoMoveUnderAReader` are about
files whose basename no other task has, which is every file of a batch that
`discover_invoices` makes from one directory. Lists with a file twice or with
namesakes are what `ReplacedRowsAreReported` and `FilesAreAccountedFor` are for: both
have no premise on the list. What they say there is less: the null row of a second
task may replace the rows of an archived file, and a namesake the file itself, but
only with a task that is reported as failed, or with the namesake in the archive or
in quarantine.

InvoiceGraph and Pipeline start with an empty table. `ReportMatchesTable`,
`ArchivedIsExtracted` and their theorems are therefore about invoices that have no
rows from an earlier batch. Without that they are false: a merge of one row over an
invoice that has two reports 1 and leaves 2, as `merge_duplicates` shows. What
repeated writes leave is the subject of DeltaWriters and Job.

`RerunsDoNotPileUp` counts the rows of a file and says of which edition they are.
Rows of two processings of one edition look alike in Job; that those in the table
come from one processing is `OneVersion` of DeltaWriters. `NothingIsLost` and `ArchivesWhatWasWritten` of
Job except editions that arrive over a file under way: the code moves by path, so
such an edition is archived unread, or removed when it comes between copy and
unlink. What the failure mail says is also less than it seems: an invoice that
fails is in quarantine when the task is retried, the retry finds an empty volume and
succeeds, and nobody is told. `SuccessMeansPersisted` is therefore about the
attempt that ends the run.

## 4. Fairness

Weak fairness on the steps of each thread, never on a particular outcome:

- *Retry*: the function returns or raises, and a sleep ends.
- *InvoiceGraph*: each graph and each agent thread takes its next step. A model
  call may always fail. That it ends at all is an assumption: the OpenAI client
  gets a timeout, the Databricks client does not (`llm_client.py:68`), and then
  only the job's own limit of two hours ends the call.
- *Batch*: the main thread and each worker progress. That `app.invoke` ends is
  what `EveryRunEnds` shows of InvoiceGraph.
- *Pipeline*: the same for the main thread, the start of a queued task, each graph
  and each agent thread. Every one of these is a thread of the process.
- *Job*: the service starts a run after a run and a retry after a failed attempt
  (`JobStep`), and an attempt that does not die handles its files (`ProcessStep`,
  what `BatchEnds` shows of Batch). No fairness makes a crash, a timeout, an upload, a
  success or a complete move happen: a file may fail to move for ever, and is
  then handled for ever. The schedule of the repository is paused
  (`jobs/invoice_pipeline_job.yml:19`); `EveryUploadIsHandled` is about the job
  after it was switched on. `MaxDeaths` bounds the crashes of a behaviour.

DeltaWriters, the comparison and Reading have no liveness property and no fairness.
`ImplementsBatch` is the safety part of Batch; the liveness part is stated of the
detailed system itself, as `PipelineEnds`.

## 5. Proofs

All are checked for any values of the constants that satisfy the named
assumptions. These restate types and what the code guarantees before the first
step:

- `BatchAssumption`, `PipelineAssumption`, `JobAssumption`, `WritersAssumption`:
  types, and the two checks that `validate_for_production` makes. `MaxRows` bounds
  the rows of a frame in Batch; Pipeline assumes it of the agents' answers.
- `GraphAssumption`: a cache of one entry or more, finitely many invoices, and
  that `extract_json` returns lists. A capacity of zero would make `set` call
  `next(iter({}))`, which raises; the code constructs the cache with its default.
- `RetryAssumption`: types.
- `ComparisonAssumption`: the sort key of a row is a place in a total order, which
  Python's order of strings is, and NaN is no string.
- `ReadingAssumption`: an answer is a sequence of chunks, an object chunk has its
  object in it, the widgets are the four that the notebook creates, and what
  `int("8")` and `"true".lower()` are.

**RetryProofs.** `LoopInv` adds to the properties what ties `calls` to `attempt`:
while the loop runs they are equal, `attempt` is within the budget, and no
failure so far is permanent. From it follow `CallBudget`,
`GivesUpOnlyWhenJustified` and `NoCallAfterPermanentFailure`. `BackOffBounded`
needs a second invariant: the time slept so far is at most `attempt` times the
maximal delay, and the delay in progress belongs to the last attempt.

**BatchProofs.** `TypeCorrect` first. `ArchivedIsPersisted` is not inductive: a
file reaches the archive long after its rows were written. The strengthening says
that from the moment a task has returned with success its rows of the file's text
are in the table, and that no later write takes them away: an append only adds, a
MERGE only touches its own `invoice_id`. `ConcurrencyIsCapped` is proved through
the cardinality of the set of running tasks; the premise "one worker at least"
comes from the floor in `MaxWorkers`. `NoMoveUnderAReader` says, as an
invariant, that with distinct basenames a file is out of the input volume only if its
own task was collected, and a move leaves every other file where it is.
`FilesAreAccountedFor` is three invariants without that premise: what is in the
archive has a collected task that succeeded (`ArchiveInv`), what is in quarantine one
that failed (`QuarantineInv`), and what is in no directory has a namesake in one
of the two (`LostInv`).
`ReplacedRowsAreReported` needs `ReplacedInv`: a task that returned with success left
rows of a text under its `invoice_id`, and only a write without text takes them away,
which is that of a task of the same `invoice_id` that fails.

**DeltaWritersProofs.** `OneVersionHolds` and `SuccessReplacesTheInvoiceHolds`, for
writes of an invoice that do not overlap (`MayOverlap = FALSE`): within a batch of
`discover_invoices` each `invoice_id` has one task, and `max_concurrent_runs: 1` of
the job keeps batches apart. The invariant says that a write that saw no table, and is about to append,
still finds nothing of its invoice, although other writers may have created the
table since: it is the only write of its invoice in flight. `CommitVersion` then
says that both kinds of commit leave rows of the writer and no others.

**JobProofs.** `TypeCorrect`, `NothingIsLostHolds`, `RerunsDoNotPileUpHolds`,
`ArchivesWhatWasWrittenHolds` and `SuccessMeansPersistedHolds`, for any names,
uploads, rows, retries, crashes and timeouts. `NothingIsLost` is not inductive: when
`Remove` takes a file out of the input volume, the step says nothing of where the
copy is. `LatestInv` does: the input volume holds the newest edition or none, and
what is copied already is at its destination too, unless a newer edition came
between copy and unlink. `FreshInv` ties the file at the path to the one that was
read: after the read it is that one, or one that is in `late`. With `WrittenInv`,
that a task which returned with success has its rows in the table, it gives
`ArchivesWhatWasWritten` at the one step that fills the archive, `Copy`.
`RerunsDoNotPileUp` needs only what a commit does (`CommitRows`): a MERGE puts rows
that are alike in place of those that are there, and never adds to them.

`SummaryIsFaithful` needs four facts at once (`SummaryInv`): what persistence needs,
what is in quarantine was collected as a failure, every file that was moved has a
task of its own in the count (an injection from files to collected tasks), and,
under append, the rows that a result reports are in the table. The last one has no
bound on the number of writes: an append adds as many positions as it has rows and
keeps all others.

**InvoiceGraphProofs.** All six invariants of the run `graph`, from one inductive
invariant, `GraphInv`. Its parts: `TypeInv`, in which every cache entry is an answer
of the agent in its key to the text in its key (`Entry`), so that a hit is as good as
a call; the cache is bounded and its keys are distinct; and `RunInv` of each
invoice, which relates the place of its run to its threads, its state and the
table, node by node. `CacheIsBounded` needs distinct keys to be inductive: that
`set` evicts before it inserts keeps the bound only because an assignment to a key
that is there adds nothing (`EvictedMakesRoom`, `AssignAddsOne`). In
`RowsComeFromTheInvoice` the work is in the cache, since a thread of another invoice
may store between this one's lookup and store; in `ReportMatchesTable` it is in the
write, which under append needs that the table has nothing of the invoice yet.
`StatsCountEveryLookup` counts by cardinality of the set of threads that are past
their lookup: a step adds one thread to it, or none.

**PipelineProofs.** `ImplementsBatchHolds` is the refinement, step by step. The five steps
of Pipeline that conjoin an action of Batch implement it by construction;
the proof is about the graph's: `LoadImplements` (the graph reads the file that the
runner has not moved yet), `RaiseImplements`, `InnerStepStutters` for everything
Batch does not see, and `WriteImplements`, which needs `GraphInv`: a run at its
write has written nothing before, its frame has between one row and `MaxRows`, and
what the frame says of the PDF is what the run read. `PipelineKeepsGraphInv` shows
first that the runner takes no step that the graph by itself could not take.
With the refinement `BatchPropertiesHold` carries `ArchivedIsPersisted`,
`ReplacedRowsAreReported`, `FilesAreAccountedFor`, `ConcurrencyIsCapped` and
`SummaryIsFaithful` from Batch to the detailed pipeline; two instances of Batch are involved, and the lemmas `SameInit` to
`SameNext` say that they are one. `ArchivedIsExtractedHolds` is the end-to-end
result: it joins the runner's half (archived only after a write that succeeded)
with the graph's (rows only from this invoice's answers).

**ComparisonProofs.** `Sorted` is defined by counting the rows before a row, as a
stable sort places it. `SortedIsAPermutation` shows that this is a permutation whose
keys do not decrease: the places of different rows differ, they are within 1..n,
and an injection of a finite set into itself is onto. `MatchIsSound` composes the
permutation of one side with the inverse of the other's. `MatchIsComplete` needs
that two nondecreasing arrangements of the same keys are equal
(`SameArrangement`): were one key smaller, its place and all before it would have to
squeeze into fewer places. No induction is used, only cardinalities. `ScalarsAreKept`
is row by row: `SideOfACell` says what becomes of a cell.

**ReadingProofs.** `FirstThatParses` is the order of the four candidates.
`OneDocumentIsRecovered` follows a document through it: alone, between the first two
fences, or as the only thing with brackets. `RowsOfOneDocument` shows of each
candidate that it lies in one chunk; for the fenced one this needs that the first
two fences exist, which is the least element of a set of positions
(`LeastElement`, from the library's theorem that strict inclusion of finite sets is
well-founded). That an object which is the whole answer is not taken apart is because
the answer itself is the first candidate, before any pattern. `WholePrintOrNone` and
`SettingsTakeEffect` follow the code's branches, for any pages, environments and
widgets.

Every invariant and action property that a passing run checks is thus stated by a
theorem, and so is the refinement. Only model-checked are the liveness properties
(`BatchEnds`, `EveryRunEnds` twice, `PipelineEnds`, `Terminates`,
`EveryUploadIsHandled`), which are out of the prover's reach.
That the inner operators on strings (`Cleaned`, `FloatOf`, `TextOrder`, `LowerOf`,
`IntOf`) are what Python computes is not proved: they are constants.

## 6. Not modelled

- *Earlier rows of an invoice*, in InvoiceGraph and Pipeline: both start with an empty
  table (section 3).
- *Result schema*: a list of columns; a value that does not fit its column is one of
  the causes of a failed write.
- *FakeChatModel*: a test double. Its counter is not locked while two agent threads
  use it, so the order in which a test's answers are handed out is not fixed.
- *Strings inside JSON* that hold brackets, braces or backquotes: a chunk stands for
  its own brackets only.
- *A pool inside Job*: its attempt interleaves files freely, which allows all that a
  pool of any size can do. Batch lets a failed move leave the file where it was; a
  copy that stays behind in the archive is in Job only.
- *Tests, CI and security tooling*: read for what the code is meant to do.
- *Wall-clock times, logging, hit rate, what the notebook displays*: no property is
  about them.

## 7. Plan

1. The hazards without a property: the empty extraction that both agents agree on,
   and the exception classes that are retried by exact name only.
2. Compose Retry with the model calls of InvoiceGraph, whose `ModelFails` and
   `JudgeFails` stand for a loop that gave up.
3. Cache statistics and mismatch reasons, which the summary and the state carry and
   the models leave out.
