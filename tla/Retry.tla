------------------------------- MODULE Retry -------------------------------
(***************************************************************************)
(* utils/retry.py: one execution of with_retry(func), the loop that wraps  *)
(* every chat-model call of the extraction agents and of the judge.        *)
(*                                                                         *)
(* func is the remote model call: it returns or it raises any member of    *)
(* Exceptions.  An exception is known to with_retry by the name of its     *)
(* class and by the names of the classes it inherits from.  Time is        *)
(* counted in whole units; the jittered sleep is any value up to the cap   *)
(* of the attempt.                                                         *)
(***************************************************************************)
EXTENDS Integers

CONSTANTS
  MaxRetries,        \* config.llm.max_retries: nothing validates its sign
  BaseDelay,         \* config.llm.retry_base_delay_seconds
  MaxDelay,          \* config.llm.retry_max_delay_seconds
  Exceptions,        \* what func may raise: [name: class name, mro: its classes]
  RetryableNames     \* _RETRYABLE_EXCEPTION_NAMES

ASSUME RetryAssumption ==
  /\ MaxRetries \in Int
  /\ BaseDelay \in Nat
  /\ MaxDelay \in Nat
  /\ \A e \in Exceptions : "name" \in DOMAIN e /\ "mro" \in DOMAIN e

VARIABLES
  pc,       \* "calling", "sleeping", "returned" or "raised"
  attempt,  \* the local counter of failed attempts
  delay,    \* cap of the sleep in progress, 0 when not sleeping
  slept,    \* total time slept so far
  calls,    \* number of times func was called
  failures  \* the exceptions func raised so far

vars == <<pc, attempt, delay, slept, calls, failures>>

(* The two exceptions with_retry recognises by inheritance. *)
BuiltinTransient == {"TimeoutError", "ConnectionError"}

IsRetryable(e) ==
  \/ e.name \in RetryableNames
  \/ e.mro \intersect BuiltinTransient # {}

(* "except retryable": the default tuple is (Exception,), so a             *)
(* KeyboardInterrupt or SystemExit passes straight through.                *)
Caught(e) == "Exception" \in e.mro

(* attempt > max_retries, with the counter already incremented. *)
Exhausted_OffByOne(n) == n >= MaxRetries
Exhausted_OneTooMany(n) == n > MaxRetries + 1
Exhausted(n) == n > MaxRetries

(* min(max_delay, base_delay * 2 ** (attempt - 1)) *)
DelayCap_NoCeiling(n) == BaseDelay * 2^(n - 1)
DelayCap(n) ==
  LET exponential == BaseDelay * 2^(n - 1)
  IN  IF exponential < MaxDelay THEN exponential ELSE MaxDelay

Init ==
  /\ pc = "calling"
  /\ attempt = 0
  /\ delay = 0
  /\ slept = 0
  /\ calls = 0
  /\ failures = {}

(* return func() *)
Return ==
  /\ pc = "calling"
  /\ pc' = "returned"
  /\ calls' = calls + 1
  /\ UNCHANGED <<attempt, delay, slept, failures>>

(* The exception is not caught here, or it is and "raise" re-raises it. *)
GiveUp(e) ==
  \/ /\ ~Caught(e)
     /\ attempt' = attempt
  \/ /\ Caught(e)
     /\ attempt' = attempt + 1
     /\ Exhausted(attempt + 1) \/ ~IsRetryable(e)

Raise(e) ==
  /\ pc = "calling"
  /\ GiveUp(e)
  /\ pc' = "raised"
  /\ calls' = calls + 1
  /\ failures' = failures \union {e}
  /\ UNCHANGED <<delay, slept>>

BackOff_RetriesAnything(e) ==
  /\ pc = "calling"
  /\ Caught(e) /\ ~Exhausted(attempt + 1)
  /\ pc' = "sleeping"
  /\ attempt' = attempt + 1
  /\ delay' = DelayCap(attempt + 1)
  /\ calls' = calls + 1
  /\ failures' = failures \union {e}
  /\ UNCHANGED slept

(* The exception looks transient and the budget is not used up. *)
BackOff(e) ==
  /\ pc = "calling"
  /\ Caught(e)
  /\ ~Exhausted(attempt + 1)
  /\ IsRetryable(e)
  /\ pc' = "sleeping"
  /\ attempt' = attempt + 1
  /\ delay' = DelayCap(attempt + 1)
  /\ calls' = calls + 1
  /\ failures' = failures \union {e}
  /\ UNCHANGED slept

Wake_WithinMaxDelay ==
  /\ pc = "sleeping"
  /\ pc' = "calling"
  /\ \E jittered \in 0..delay : slept + delay <= MaxDelay /\ slept' = slept + jittered
  /\ delay' = 0
  /\ UNCHANGED <<attempt, calls, failures>>

(* time.sleep(random.uniform(0, delay)), then the loop calls func again. *)
Wake ==
  /\ pc = "sleeping"
  /\ pc' = "calling"
  /\ \E jittered \in 0..delay : slept' = slept + jittered
  /\ delay' = 0
  /\ UNCHANGED <<attempt, calls, failures>>

Finished == pc \in {"returned", "raised"} /\ UNCHANGED vars

Next ==
  \/ Return
  \/ \E e \in Exceptions : Raise(e) \/ BackOff(e)
  \/ Wake
  \/ Finished

(* The caller's thread runs the loop; each call of func returns or raises. *)
Spec == Init /\ [][Next]_vars /\ WF_vars(Return \/ \E e \in Exceptions : Raise(e) \/ BackOff(e))
             /\ WF_vars(Wake)

-----------------------------------------------------------------------------
Budget == IF MaxRetries > 0 THEN MaxRetries ELSE 0

(* "max_retries=3 means up to 4 total attempts": the model is never called *)
(* more than 1 + max_retries times, and exactly once when max_retries is   *)
(* zero or negative.                                                       *)
CallBudget == calls <= Budget + 1

(* A run of with_retry gives up only on an exception that is not transient *)
(* or after the whole budget is spent: no transient failure ends a call    *)
(* early.                                                                  *)
GivesUpOnlyWhenJustified ==
  pc = "raised" =>
    \/ calls = Budget + 1
    \/ \E e \in failures : ~Caught(e) \/ ~IsRetryable(e)

(* Once func has raised an exception that is not transient, it is not      *)
(* called again: retry budget is never spent on a call that cannot succeed.*)
NoCallAfterPermanentFailure ==
  [][(\E e \in failures : ~Caught(e) \/ ~IsRetryable(e)) => calls' = calls]_vars

(* The time lost to backing off is at most max_delay per retry, whatever   *)
(* the jitter, so a call cannot stall its worker thread for longer.        *)
BackOffBounded == slept + delay <= Budget * MaxDelay

(* with_retry always ends: it returns or raises. *)
Terminates == <>(pc \in {"returned", "raised"})
=============================================================================
