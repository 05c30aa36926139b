------------------------------ MODULE Reading ------------------------------
(***************************************************************************)
(* What the pipeline reads from outside: a chat answer, a PDF, an          *)
(* environment or the notebook's widgets.  Each is read once.              *)
(***************************************************************************)
EXTENDS JsonRecovery, PdfLoader, Settings

CONSTANTS
  Rows,          \* JSON values that an answer may hold
  Chunks,        \* what an answer may be made of
  Texts,         \* the answers
  Files,         \* the PDF files
  Environments,  \* environments: the names that are set
  Widgets,       \* what the notebook's widgets may be set to
  Unread

VARIABLES
  input,   \* [kind, text], [kind, file, ocr] or [kind, names]
  outcome  \* what reading it gave, Unread before
vars == <<input, outcome>>

(* The widgets that the notebook creates, each with a default.             *)
WidgetNames == {"LLM_ENABLE_CACHE", "CATALOG", "WRITE_MODE", "MAX_CONCURRENT_INVOICES"}

(* An object chunk has the object in it; None is no list; int("8") and     *)
(* "true".lower() are what they are in Python; an exception is none of the *)
(* values that an environment without any of the names leads to.           *)
ASSUME ReadingAssumption ==
  /\ \A text \in Texts : text \in Seq(Chunks)
  /\ \A c \in Chunks : c.rows \in Seq(Rows) /\ (c.kind = "object" => c.rows # << >>)
  /\ Nothing \notin Seq(Rows)
  /\ \A w \in Widgets : DOMAIN w = WidgetNames
  /\ IntOf["8"] = 8 /\ LowerOf["true"] = "true"
  /\ Raises # 8 /\ Raises # "databricks" /\ Raises # DefaultConfig
  /\ Raises # [model |-> "databricks", branch |-> "append", config |-> DefaultConfig]

(* A chunk that is one JSON array or object.                               *)
IsDocument(c) == c.kind \in {"array", "list", "object"}

-----------------------------------------------------------------------------
Init ==
  /\ \/ \E text \in Texts : input = [kind |-> "answer", text |-> text]
     \/ \E file \in Files, ocr \in {"on", "off", "missing"} :
          input = [kind |-> "pdf", file |-> file, ocr |-> ocr]
     \/ \E env \in Environments : input = [kind |-> "environment", names |-> env]
     \/ \E w \in Widgets : input = [kind |-> "widgets", names |-> w]
  /\ outcome = Unread

Read(kind, result) ==
  /\ input.kind = kind /\ outcome = Unread
  /\ outcome' = result
  /\ UNCHANGED input

ReadAnswer == Read("answer", ExtractJson(input.text))
ReadPdf == Read("pdf", LoadInvoice(input.file, input.ocr))
ReadEnvironment == Read("environment", StartUp(FromEnv(input.names)))
ReadWidgets == Read("widgets", StartUp(FromWidgets(input.names)))

Next ==
  \/ ReadAnswer \/ ReadPdf \/ ReadEnvironment \/ ReadWidgets
  \/ outcome # Unread /\ UNCHANGED vars

Spec == Init /\ [][Next]_vars

Was(kind) == input.kind = kind /\ outcome # Unread

-----------------------------------------------------------------------------
(* An answer that is one JSON document is read as that document, and so is *)
(* one with it alone between the first two fences, whatever brackets stand *)
(* around them, and one with an array of objects, or an object with no     *)
(* such array in it, among words.                                          *)
OneDocumentIsRecovered ==
  Was("answer") =>
    LET text == input.text
        DocumentAt(i) == IsDocument(text[i])
        InTheFirstFences(i) ==
          {i - 1, i + 1} \subseteq Fences(text) /\ \A f \in Fences(text) : f >= i - 1
        AmongWords(i) ==
          /\ \A j \in DOMAIN text \ {i} : text[j].kind \in {"words", "scalar"}
          /\ text[i].kind = "array" \/ (text[i].kind = "object" /\ Len(text[i].rows) = 1)
    IN  \A i \in DOMAIN text :
          DocumentAt(i) /\ (Len(text) = 1 \/ InTheFirstFences(i) \/ AmongWords(i)) =>
            outcome = TryParse(<<text[i]>>)

(* Rows of two documents are never mixed, and none is left out of a        *)
(* document that is read.  They are a whole array; an object; or one of    *)
(* the two parts the patterns can take for an answer: the array inside an  *)
(* object, when the object is not alone, and the only complete row of an   *)
(* array that breaks off.  An array that breaks off after several rows     *)
(* gives none of them.                                                     *)
RowsOfOneDocument ==
  Was("answer") /\ outcome # << >> =>
    \E i \in DOMAIN input.text :
      LET c == input.text[i]
      IN  \/ c.kind \in {"array", "list"} /\ outcome = c.rows
          \/ c.kind = "object" /\ outcome = <<Head(c.rows)>>
          \/ c.kind = "object" /\ outcome = Tail(c.rows) /\ Len(input.text) > 1
          \/ c.kind = "cut" /\ outcome = c.rows /\ Len(c.rows) = 1

(* The agents never get part of what a PDF has in print: the text of a     *)
(* file that loads has every printed page, and when extract_text() raises  *)
(* on one page there is a load_error and no text.  A page without print,   *)
(* as a scan has none, adds nothing, and is no obstacle as long as its     *)
(* images can be listed.                                                   *)
WholePrintOrNone ==
  Was("pdf") =>
    LET pages   == input.file.pages
        printed == {p \in DOMAIN pages : pages[p].text = "legible"}
    IN  /\ outcome.load_error => outcome.raw_pdf_text = {}
        /\ ~outcome.load_error =>
             /\ input.file.opens /\ \A p \in DOMAIN pages : pages[p].text # "raises"
             /\ outcome.raw_pdf_text = {<<p, "legible">> : p \in printed}
        /\ /\ input.file.opens /\ printed # {}
           /\ \A p \in DOMAIN pages : pages[p].text # "raises" /\ pages[p].images # "raises"
           => ~outcome.load_error

(* A batch that starts runs with the model and the write mode that were    *)
(* asked for, the dataclasses' own when none was; a value that is none of  *)
(* those the code knows stops it before the first invoice.                 *)
SettingsTakeEffect ==
  Was("environment") \/ Was("widgets") =>
    LET Asked(name, default) == IF name \in DOMAIN input.names THEN input.names[name] ELSE default
    IN  /\ outcome # Raises =>
             /\ outcome.model = Asked("LLM_PROVIDER", DefaultConfig.provider)
             /\ outcome.branch = Asked("WRITE_MODE", DefaultConfig.write_mode)
             /\ outcome.config.catalog = Asked("CATALOG", DefaultConfig.catalog)
        /\ DOMAIN input.names = {} => outcome # Raises /\ outcome.config = DefaultConfig

(* The module's docstring says that models "add a leading sentence" and    *)
(* that this is recovered from: with one, a document reads as without.     *)
LeadingSentenceIsDropped ==
  Was("answer") =>
    \A sentence, d \in Chunks :
      input.text = <<sentence, d>> /\ sentence.kind = "words" /\ d.kind = "object"
        => outcome = TryParse(<<d>>)
=============================================================================
