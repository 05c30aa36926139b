------------------------------ MODULE Settings ------------------------------
(***************************************************************************)
(* config.py, the factory of llm_client.py and the cells of the notebook   *)
(* that use them: from an environment, or the widgets of the notebook, to  *)
(* a batch that may start.                                                 *)
(*                                                                         *)
(* Both are functions from the names that are set to their strings.  The   *)
(* three strings that are checked are modelled, and one number and one     *)
(* flag for all those that are converted alike.                            *)
(***************************************************************************)
EXTENDS Integers

CONSTANTS
  IntOf,    \* string -> the number int() gives, or Raises
  LowerOf,  \* string -> its lower case
  Raises    \* an exception

(* PipelineConfig(), LLMConfig() and StorageConfig().                      *)
DefaultConfig ==
  [ provider |-> "databricks", enable_cache |-> TRUE, catalog |-> "finance",
    write_mode |-> "append", workers |-> 8 ]

(* _get_env(name, default)                                                 *)
GetEnv(env, name, default) == IF name \in DOMAIN env THEN env[name] ELSE default

(* PipelineConfig.from_env, which has its own copy of the defaults.        *)
FromEnv(env) ==
  LET workers == IntOf[GetEnv(env, "MAX_CONCURRENT_INVOICES", "8")]
  IN  IF workers = Raises THEN Raises
      ELSE [ provider     |-> GetEnv(env, "LLM_PROVIDER", "databricks"),
             enable_cache |-> LowerOf[GetEnv(env, "LLM_ENABLE_CACHE", "true")] = "true",
             catalog      |-> GetEnv(env, "CATALOG", "finance"),
             write_mode   |-> GetEnv(env, "WRITE_MODE", "append"),
             workers      |-> workers ]

(* The notebook's configuration: what has no widget has its default.       *)
FromWidgets(widgets) ==
  LET workers == IntOf[widgets["MAX_CONCURRENT_INVOICES"]]
  IN  IF workers = Raises THEN Raises
      ELSE [ DefaultConfig EXCEPT !.enable_cache = widgets["LLM_ENABLE_CACHE"] = "true",
                                  !.catalog      = widgets["CATALOG"],
                                  !.write_mode   = widgets["WRITE_MODE"],
                                  !.workers      = workers ]

IsValid_AnyMode(config) ==
  config.catalog # "your-project-id" /\ config.provider \in {"databricks", "openai", "fake"}
(* validate_for_production; the one placeholder stands for all strings     *)
(* that have it in them.                                                   *)
IsValid(config) ==
  /\ config.write_mode \in {"append", "merge"}
  /\ config.catalog # "your-project-id"
  /\ config.provider \in {"databricks", "openai", "fake"}

(* The keys of _PROVIDER_BUILDERS.                                         *)
Builders == {"databricks", "openai"}

(* build_chat_model without fake_responses.                                *)
BuildChatModel(config) ==
  IF config.provider \in Builders \union {"fake"} THEN config.provider ELSE Raises

(* The branch that write_to_delta takes.                                   *)
WriteBranch(config) == IF config.write_mode = "merge" THEN "merge" ELSE "append"

(* run_batch(config) up to its first invoice.                              *)
StartUp(config) ==
  IF config = Raises THEN Raises
  ELSE IF ~IsValid(config) \/ BuildChatModel(config) = Raises THEN Raises
  ELSE [model |-> BuildChatModel(config), branch |-> WriteBranch(config), config |-> config]
=============================================================================
