-------------------------------- MODULE Job --------------------------------
(***************************************************************************)
(* The scheduled job over its life: runs of the notebook, one run_batch    *)
(* per attempt, over volumes and a table that outlive them.  A run whose   *)
(* attempt fails is tried again, at once and as a whole; an attempt may    *)
(* die at any point and leaves what it wrote and moved.  Vendors upload    *)
(* PDFs, and new editions under an old name, at any time.                  *)
(*                                                                         *)
(* An attempt is Batch seen file by file: a name is listed, read, written, *)
(* moved, each independently of the others, so the pool and its size are   *)
(* left out.  An edition is the number of the upload it came with.         *)
(***************************************************************************)
EXTENDS DeltaTable, FiniteSets

CONSTANTS
  Names,        \* basenames of PDFs, and so the invoice ids
  WriteMode,    \* base_parameters.write_mode
  MaxRetries,   \* max_retries of the task
  MaxRows,      \* bound: name -> rows of that invoice
  Editions,     \* bound: name -> the number of uploads under it
  MaxDeaths     \* bound: attempts that die or time out

Directories == {"input", "archive", "quarantine"}
None == 0

ASSUME JobAssumption ==
  /\ WriteMode \in {"append", "merge"}
  /\ MaxRetries \in Nat
  /\ MaxRows \in [Names -> Nat \ {0}]
  /\ Editions \in [Names -> Nat]
  /\ MaxDeaths \in Nat

VARIABLES
  volume,   \* [Directories -> [Names -> the edition held, or None]]
  table,    \* [Names -> rows with that invoice_id]
  job,      \* "attempt" while the notebook runs, "waiting" to retry it; then
            \* "idle", or "failed": the run has failed and the team gets a mail
  attempt,  \* attempts of this run, the one in progress included; 0 between runs
  deaths,   \* attempts that died
  step,     \* [Names -> how far this attempt is with the file]
  seen,     \* [Names -> the edition this attempt read]
  success,  \* [Names -> InvoiceRunResult.success]
  uploads,  \* history: [Names -> editions uploaded]
  late      \* history: [Names -> the editions that replaced a file under way,
            \*           and whether that one was copied already]

run == <<job, attempt, deaths>>
batch == <<step, seen, success>>
vars == <<volume, table, run, batch, uploads, late>>

Init ==
  /\ volume = [d \in Directories |-> [n \in Names |-> None]]
  /\ table = [n \in Names |-> << >>]
  /\ job = "idle" /\ attempt = 0 /\ deaths = 0
  /\ step = [n \in Names |-> "none"]
  /\ seen = [n \in Names |-> None]
  /\ success = [n \in Names |-> FALSE]
  /\ uploads = [n \in Names |-> 0]
  /\ late = [n \in Names |-> {}]

-----------------------------------------------------------------------------
UnderWay(n) == step[n] \in {"read", "unreadable", "returned", "copied"}

(* A vendor puts a file into the input volume, over one of that name.      *)
Upload(n) ==
  /\ uploads[n] < Editions[n]
  /\ uploads' = [uploads EXCEPT ![n] = @ + 1]
  /\ volume' = [volume EXCEPT !["input"][n] = uploads'[n]]
  /\ late' = IF ~UnderWay(n) THEN late
             ELSE [late EXCEPT ![n] = @ \union {[edition |-> uploads'[n], copied |-> step[n] = "copied"]}]
  /\ UNCHANGED <<table, run, batch>>

Listed_NewNamesOnly(n) == volume["input"][n] # None /\ table[n] = << >>
(* discover_invoices: a glob over the input volume.                        *)
Listed(n) == volume["input"][n] # None

(* The notebook runs up to the listing of run_batch.                       *)
Attempt(number) ==
  /\ job' = "attempt"
  /\ attempt' = number
  /\ step' = [n \in Names |-> IF Listed(n) THEN "listed" ELSE "none"]
  /\ UNCHANGED <<volume, table, deaths, seen, success, uploads, late>>

(* The schedule, or a person; max_concurrent_runs is 1.                    *)
StartRun == job \in {"idle", "failed"} /\ Attempt(1)

Retry_ForEver == job = "waiting" /\ Attempt(attempt)
Retry == job = "waiting" /\ Attempt(attempt + 1)

-----------------------------------------------------------------------------
(* _process_one, as far as files and rows go.                              *)
Read(n) ==
  /\ job = "attempt" /\ step[n] = "listed"
  /\ \E outcome \in {"read", "unreadable"} : step' = [step EXCEPT ![n] = outcome]
  /\ seen' = [seen EXCEPT ![n] = volume["input"][n]]
  /\ UNCHANGED <<volume, table, run, success, uploads, late>>

Return(n, ok) ==
  /\ step' = [step EXCEPT ![n] = "returned"]
  /\ success' = [success EXCEPT ![n] = ok]
  /\ UNCHANGED <<volume, run, seen, uploads, late>>

GraphRaises(n) ==
  /\ job = "attempt" /\ step[n] = "read"
  /\ Return(n, FALSE)
  /\ UNCHANGED table

(* An unreadable PDF has one row of nulls.                                 *)
Frames(n) ==
  {[k \in 1..m |-> [edition |-> seen[n], read |-> step[n] = "read"]] :
     m \in IF step[n] = "read" THEN 1..MaxRows[n] ELSE {1}}

Commit(n, rows) ==
  IF WriteMode = "merge"
  THEN ~MergeIsAmbiguous(table, n, rows) /\ table' = AfterMerge(table, n, rows)
  ELSE table' = AfterAppend(table, n, rows)

Succeeds_WriteOnly(n) == TRUE
(* error = load_error or write_error, of a write that went well            *)
Succeeds(n) == step[n] = "read"

GraphWrites(n) ==
  /\ job = "attempt" /\ step[n] \in {"read", "unreadable"}
  /\ \E rows \in Frames(n) : Commit(n, rows)
  /\ Return(n, Succeeds(n))

(* Before the commit, or after it.                                         *)
GraphWriteFails(n) ==
  /\ job = "attempt" /\ step[n] \in {"read", "unreadable"}
  /\ UNCHANGED table \/ \E rows \in Frames(n) : Commit(n, rows)
  /\ Return(n, FALSE)

Destination(n) == IF success[n] THEN "archive" ELSE "quarantine"

(* _maybe_move: shutil.move from one volume to another copies whatever    *)
(* file has the path now, then removes what has the path then.  The main   *)
(* thread does one move at a time.                                         *)
Copy(n) ==
  /\ job = "attempt" /\ step[n] = "returned"
  /\ \A m \in Names : step[m] # "copied"
  /\ volume' = [volume EXCEPT ![Destination(n)][n] = volume["input"][n]]
  /\ step' = [step EXCEPT ![n] = "copied"]
  /\ UNCHANGED <<table, run, seen, success, uploads, late>>

Remove_First(n) ==
  /\ job = "attempt" /\ step[n] \in {"returned", "copied"}
  /\ volume' = [volume EXCEPT !["input"][n] = None]
  /\ step' = [step EXCEPT ![n] = "handled"]
  /\ UNCHANGED <<table, run, seen, success, uploads, late>>

Remove(n) ==
  /\ job = "attempt" /\ step[n] = "copied"
  /\ volume' = [volume EXCEPT !["input"][n] = None]
  /\ step' = [step EXCEPT ![n] = "handled"]
  /\ UNCHANGED <<table, run, seen, success, uploads, late>>

(* Either half may fail, which is logged and no more.                      *)
MoveFails(n) ==
  /\ job = "attempt" /\ step[n] \in {"returned", "copied"}
  /\ step' = [step EXCEPT ![n] = "handled"]
  /\ UNCHANGED <<volume, table, run, seen, success, uploads, late>>

-----------------------------------------------------------------------------
(* The attempt is over: the run is retried or ends.                        *)
Over(next) ==
  /\ job' = next
  /\ attempt' = IF next = "waiting" THEN attempt ELSE 0
  /\ step' = [n \in Names |-> "none"]
  /\ seen' = [n \in Names |-> None]
  /\ success' = [n \in Names |-> FALSE]
  /\ UNCHANGED <<table, uploads, late>>

AfterFailure_OneMore == IF attempt <= MaxRetries + 1 THEN "waiting" ELSE "failed"
AfterFailure == IF attempt <= MaxRetries THEN "waiting" ELSE "failed"

Handled == {n \in Names : step[n] # "none"}

SomeFailed_All == \A n \in Handled : ~success[n]
(* summary.failed > 0                                                      *)
SomeFailed == \E n \in Handled : ~success[n]

(* run_batch returns, and the notebook raises if an invoice failed.        *)
EndBatch ==
  /\ job = "attempt"
  /\ \A n \in Handled : step[n] = "handled"
  /\ Over(IF SomeFailed THEN AfterFailure ELSE "idle")
  /\ UNCHANGED <<volume, deaths>>

(* What was written and moved stays, what the driver held is gone.         *)
Dies(next) ==
  /\ job = "attempt" /\ deaths < MaxDeaths
  /\ deaths' = deaths + 1
  /\ Over(next)
  /\ UNCHANGED volume

Crash == Dies(AfterFailure)

(* timeout_seconds is up; retry_on_timeout is false.                       *)
TimeOut == Dies("failed")

-----------------------------------------------------------------------------
ProcessStep(n) ==
  \/ Read(n) \/ GraphRaises(n) \/ GraphWrites(n) \/ GraphWriteFails(n)
  \/ Copy(n) \/ Remove(n) \/ MoveFails(n)

JobStep == StartRun \/ Retry \/ EndBatch

Next ==
  \/ JobStep \/ Crash \/ TimeOut
  \/ \E n \in Names : Upload(n) \/ ProcessStep(n)

(* The schedule starts run after run; run_batch and the notebook come to   *)
(* their end (Batch, BatchEnds) unless they die, and a retry is started.   *)
Spec ==
  /\ Init /\ [][Next]_vars
  /\ WF_vars(JobStep)
  /\ \A n \in Names : WF_vars(ProcessStep(n))

-----------------------------------------------------------------------------
(* The values each variable ranges over, and that a run has no more        *)
(* attempts than the job allows.                                           *)
TypeOK ==
  /\ volume \in [Directories -> [Names -> Nat]]
  /\ table \in [Names -> Seq([edition : Nat \ {0}, read : BOOLEAN])]
  /\ job \in {"idle", "failed", "attempt", "waiting"}
  /\ attempt \in 0..MaxRetries + 1
  /\ job = "waiting" => attempt <= MaxRetries
  /\ step \in [Names -> {"none", "listed", "read", "unreadable", "returned",
                        "copied", "handled"}]
  /\ seen \in [Names -> Nat]

(* The newest edition of an invoice is always in one of the volumes: no    *)
(* crash in the middle of a move, failed move or retry loses it.  Only one *)
(* that arrives between the two halves of a move is removed unread.        *)
NothingIsLost ==
  \A n \in Names :
    uploads[n] # 0 /\ [edition |-> uploads[n], copied |-> TRUE] \notin late[n] =>
      \E d \in Directories : volume[d][n] = uploads[n]

(* Under "merge" an invoice never has more rows than one run of it writes, *)
(* and all are of one edition, and read or all of them nulls, however      *)
(* often crashes, failed moves and retries process it.                     *)
RerunsDoNotPileUp ==
  WriteMode = "merge" =>
    \A n \in Names :
      /\ Len(table[n]) <= MaxRows[n]
      /\ \A j, k \in DOMAIN table[n] : table[n][j] = table[n][k]

HasRows(n, edition) ==
  \E k \in DOMAIN table[n] : table[n][k].edition = edition /\ table[n][k].read

(* What enters the archive is the edition this attempt has read, or one    *)
(* uploaded over it meanwhile, and the table holds rows of the text of the *)
(* edition that was read.                                                  *)
ArchivesWhatWasWritten ==
  [][\A n \in Names :
       volume'["archive"][n] # volume["archive"][n] =>
         /\ volume'["archive"][n] \in {seen[n]} \union {l.edition : l \in late[n]}
         /\ HasRows(n, seen[n])]_vars

(* When the notebook ends well, without a mail, every invoice that this    *)
(* attempt listed has rows made from its text in the table.                *)
SuccessMeansPersisted ==
  [][job = "attempt" /\ job' = "idle" =>
       \A n \in Handled : HasRows(n, seen[n])]_vars

(* Every run ends, whatever fails in its attempts.                         *)
EveryRunEnds == job = "attempt" ~> job \in {"idle", "failed"}

(* A file in the input volume is handled by a run, and again as long as it *)
(* stays there: neither a crash, a failed move nor an earlier edition in   *)
(* the table makes the job pass over it.                                   *)
EveryUploadIsHandled ==
  \A n \in Names : []<>(volume["input"][n] = None \/ step[n] = "handled")
=============================================================================
