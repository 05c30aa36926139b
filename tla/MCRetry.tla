------------------------------ MODULE MCRetry ------------------------------
(* Instances of Retry for TLC. *)
EXTENDS Retry

MCNames == {"Timeout", "ConnectionError", "RateLimitError"}

Error(name, bases) == [name |-> name, mro |-> {name} \union bases]

(* One exception per way the test can go: by own name, by a builtin base,  *)
(* a subclass of a listed class that is not listed itself, a permanent     *)
(* error, and one that is not an Exception.                                *)
MCExceptions ==
  { Error("RateLimitError", {"Exception"}),
    Error("ConnectionResetError", {"ConnectionError", "OSError", "Exception"}),
    Error("ReadTimeout", {"Timeout", "RequestException", "Exception"}),
    Error("ValueError", {"Exception"}),
    Error("KeyboardInterrupt", {}) }
=============================================================================
