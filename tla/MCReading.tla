----------------------------- MODULE MCReading -----------------------------
(***************************************************************************)
(* Every input of the bounded sets below is read once.                     *)
(***************************************************************************)
EXTENDS Reading

MCRows == {"a", "b", "c", "d", "e", "x"}

(* Answers of up to three chunks, and fenced chunks between two others.    *)
Words == Chunk("words", << >>)
Fence == Chunk("fence", << >>)
Documents ==
  { Chunk("array", << >>), Chunk("array", <<"a">>), Chunk("array", <<"a", "b">>),
    Chunk("list", <<"x">>), Chunk("object", <<"c">>), Chunk("object", <<"c", "a">>),
    Chunk("object", <<"c", "a", "b">>) }
MCChunks ==
  Documents \union { Words, Fence, Chunk("braces", << >>), Chunk("scalar", << >>),
                     Chunk("cut", << >>), Chunk("cut", <<"d">>), Chunk("cut", <<"d", "e">>) }
MCTexts ==
  UNION {[1..n -> MCChunks] : n \in 0..3}
    \union {<<c, Fence, d, Fence, e>> : c, d, e \in MCChunks}

(* Up to three pages, each of its own kind.                                *)
Pages == [text : {"legible", "blank", "none", "raises"}, images : {"works", "raises"}]
MCFiles ==
  {[opens |-> FALSE, pages |-> << >>]}
    \union [opens : {TRUE}, pages : UNION {[1..n -> Pages] : n \in 0..3}]

Unset == "unset"
Assignments ==
  [ LLM_PROVIDER            : {Unset, "databricks", "openai", "fake", "bedrock"},
    LLM_ENABLE_CACHE        : {Unset, "true", "True", "no"},
    CATALOG                 : {Unset, "dev", "your-project-id"},
    WRITE_MODE              : {Unset, "append", "merge", "Merge"},
    MAX_CONCURRENT_INVOICES : {Unset, "0", "8", "many"} ]
MCEnvironments ==
  {[name \in {n \in DOMAIN s : s[n] # Unset} |-> s[name]] : s \in Assignments}
MCWidgets ==
  { e \in MCEnvironments :
      /\ DOMAIN e = WidgetNames
      /\ e["WRITE_MODE"] \in {"append", "merge"} /\ e["LLM_ENABLE_CACHE"] # "True" }
MCIntOf == [s \in {"0", "8", "many"} |-> CASE s = "0" -> 0 [] s = "8" -> 8 [] s = "many" -> Raises]
MCLowerOf == [s \in {"true", "True", "no"} |-> IF s = "True" THEN "true" ELSE s]
=============================================================================
