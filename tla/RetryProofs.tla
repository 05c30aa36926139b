---------------------------- MODULE RetryProofs ----------------------------
(***************************************************************************)
(* Proofs about Retry, for every retry budget, every pair of delays and    *)
(* every set of exceptions func may raise.                                 *)
(***************************************************************************)
EXTENDS Retry, TLAPS

(* An exception that ends the loop at once.                                *)
Permanent(e) == ~Caught(e) \/ ~IsRetryable(e)

(* While the loop goes on, every call so far was one failed attempt, all   *)
(* the failures were transient, and the budget is not used up; delay and   *)
(* slept play no part.                                                     *)
LoopInv ==
  /\ pc \in {"calling", "sleeping", "returned", "raised"}
  /\ attempt \in Nat
  /\ calls \in Nat
  /\ failures \subseteq Exceptions
  /\ pc \in {"calling", "sleeping"} =>
       /\ calls = attempt
       /\ attempt <= Budget
       /\ \A e \in failures : ~Permanent(e)
  /\ pc = "returned" => calls <= Budget + 1
  /\ pc = "raised" =>
       /\ calls <= Budget + 1
       /\ calls = Budget + 1 \/ \E e \in failures : Permanent(e)

(* The budget is a natural number, also when max_retries is negative.      *)
LEMMA BudgetIsNat == Budget \in Nat /\ (MaxRetries > 0 => Budget = MaxRetries)
  BY RetryAssumption DEF Budget

(* LoopInv holds at the start of every call of with_retry.                 *)
LEMMA LoopInvInit == Init => LoopInv
  BY BudgetIsNat DEF Init, LoopInv

(* Every step of the loop keeps LoopInv.                                   *)
LEMMA LoopInvStep == LoopInv /\ [Next]_vars => LoopInv'
<1> SUFFICES ASSUME LoopInv, [Next]_vars PROVE LoopInv'
  OBVIOUS
<1> USE BudgetIsNat, RetryAssumption DEF LoopInv
<1>1. CASE Return
  BY <1>1 DEF Return
<1>2. ASSUME NEW e \in Exceptions, Raise(e) PROVE LoopInv'
  <2>1. pc = "calling" /\ pc' = "raised" /\ calls' = calls + 1
        /\ failures' = failures \union {e}
    BY <1>2 DEF Raise
  <2>2. CASE Permanent(e)
    <3>1. attempt' \in Nat
      BY <1>2 DEF Raise, GiveUp
    <3> QED
      BY <2>1, <2>2, <3>1
  <2>3. CASE ~Permanent(e)
    <3>1. attempt' = attempt + 1 /\ attempt + 1 > MaxRetries
      BY <1>2, <2>3 DEF Raise, GiveUp, Permanent, Exhausted
    <3>2. calls' = Budget + 1
      BY <2>1, <3>1 DEF Budget
    <3> QED
      BY <2>1, <3>1, <3>2
  <2> QED
    BY <2>2, <2>3
<1>3. ASSUME NEW e \in Exceptions, BackOff(e) PROVE LoopInv'
  <2>1. /\ pc = "calling" /\ pc' = "sleeping"
        /\ calls' = calls + 1 /\ attempt' = attempt + 1
        /\ failures' = failures \union {e}
        /\ ~Permanent(e)
    BY <1>3 DEF BackOff, Permanent
  <2>2. attempt + 1 <= MaxRetries
    BY <1>3 DEF BackOff, Exhausted
  <2>3. attempt' <= Budget
    BY <2>1, <2>2 DEF Budget
  <2> QED
    BY <2>1, <2>3
<1>4. CASE Wake
  BY <1>4 DEF Wake
<1>5. CASE Finished \/ UNCHANGED vars
  BY <1>5 DEF Finished, vars
<1> QED
  BY <1>1, <1>2, <1>3, <1>4, <1>5 DEF Next

(* LoopInv is an invariant of with_retry.                                  *)
THEOREM LoopInvariant == Spec => []LoopInv
<1>1. QED
  BY LoopInvInit, LoopInvStep, PTL DEF Spec

(* The chat model is called at most 1 + max_retries times per call of      *)
(* with_retry, and once when max_retries is zero or negative.              *)
THEOREM CallBudgetHolds == Spec => []CallBudget
<1>1. LoopInv => CallBudget
  BY BudgetIsNat DEF LoopInv, CallBudget
<1> QED
  BY <1>1, LoopInvariant, PTL

(* with_retry gives up only after the whole budget or on an exception that *)
(* is not transient.                                                       *)
THEOREM GivesUpOnlyWhenJustifiedHolds == Spec => []GivesUpOnlyWhenJustified
<1>1. LoopInv => GivesUpOnlyWhenJustified
  BY DEF LoopInv, GivesUpOnlyWhenJustified, Permanent
<1> QED
  BY <1>1, LoopInvariant, PTL

(* No call is made after an exception that is not transient.               *)
THEOREM NoCallAfterPermanentFailureHolds == Spec => NoCallAfterPermanentFailure
<1>1. LoopInv /\ [Next]_vars =>
        [(\E e \in failures : ~Caught(e) \/ ~IsRetryable(e)) => calls' = calls]_vars
  <2> SUFFICES ASSUME LoopInv, Next, NEW e \in failures, Permanent(e)
               PROVE calls' = calls
    BY DEF Permanent
  <2>1. pc \notin {"calling", "sleeping"}
    BY DEF LoopInv
  <2> QED
    BY <2>1 DEF Next, Return, Raise, BackOff, Wake, Finished, vars
<1> QED
  BY <1>1, LoopInvariant, PTL DEF Spec, NoCallAfterPermanentFailure

(* Each failed attempt has cost one sleep of at most max_delay.            *)
SleepInv ==
  /\ slept \in Int /\ delay \in Int
  /\ pc = "calling" => delay = 0
  /\ pc \in {"calling", "sleeping"} => slept + delay <= attempt * MaxDelay
  /\ pc \in {"returned", "raised"} => slept + delay <= Budget * MaxDelay

(* A cap is an integer that does not exceed max_delay.                     *)
LEMMA DelayCapBounded ==
  ASSUME NEW n \in Nat, n >= 1
  PROVE  DelayCap(n) \in Int /\ DelayCap(n) <= MaxDelay
<1>1. 2^(n - 1) \in Int
  BY Z3
<1>2. BaseDelay * 2^(n - 1) \in Int
  BY <1>1, RetryAssumption
<1> QED
  BY <1>2, RetryAssumption DEF DelayCap

(* More attempts allow for more sleep.                                     *)
LEMMA SleepGrows ==
  ASSUME NEW m \in Nat, NEW n \in Nat, m <= n
  PROVE  m * MaxDelay <= n * MaxDelay
  BY RetryAssumption

(* Every step of the loop keeps SleepInv.                                  *)
LEMMA SleepInvStep == LoopInv /\ SleepInv /\ [Next]_vars => SleepInv'
<1> SUFFICES ASSUME LoopInv, SleepInv, [Next]_vars PROVE SleepInv'
  OBVIOUS
<1> USE BudgetIsNat, RetryAssumption DEF SleepInv
<1>0. pc \in {"calling", "sleeping"} => slept + delay <= Budget * MaxDelay
  <2> SUFFICES ASSUME pc \in {"calling", "sleeping"}
               PROVE  slept + delay <= Budget * MaxDelay
    OBVIOUS
  <2>1. attempt \in Nat /\ attempt <= Budget
    BY DEF LoopInv
  <2>2. attempt * MaxDelay <= Budget * MaxDelay
    BY <2>1, SleepGrows
  <2>3. attempt * MaxDelay \in Int /\ Budget * MaxDelay \in Int
    BY <2>1
  <2> QED
    BY <2>2, <2>3
<1>1. CASE Return
  BY <1>0, <1>1 DEF Return
<1>2. ASSUME NEW e \in Exceptions, Raise(e) PROVE SleepInv'
  BY <1>0, <1>2 DEF Raise
<1>3. ASSUME NEW e \in Exceptions, BackOff(e) PROVE SleepInv'
  <2>1. /\ pc = "calling" /\ pc' = "sleeping" /\ slept' = slept
        /\ attempt' = attempt + 1 /\ delay' = DelayCap(attempt + 1)
    BY <1>3 DEF BackOff
  <2>2. attempt \in Nat /\ attempt + 1 \in Nat /\ attempt + 1 >= 1
    BY DEF LoopInv
  <2>3. delay' \in Int /\ delay' <= MaxDelay
    BY <2>1, <2>2, DelayCapBounded
  <2>4. delay = 0
    BY <2>1
  <2>5. slept <= attempt * MaxDelay
    BY <2>1, <2>2, <2>4
  <2>6. attempt' * MaxDelay = attempt * MaxDelay + MaxDelay /\ attempt * MaxDelay \in Int
    BY <2>1, <2>2
  <2> QED
    BY <2>1, <2>3, <2>5, <2>6
<1>4. CASE Wake
  <2>1. PICK jittered \in 0..delay : slept' = slept + jittered
    BY <1>4 DEF Wake
  <2>2. attempt \in Nat /\ attempt * MaxDelay \in Int
    BY DEF LoopInv
  <2> QED
    BY <1>4, <2>1, <2>2 DEF Wake
<1>5. CASE Finished \/ UNCHANGED vars
  BY <1>5 DEF Finished, vars
<1> QED
  BY <1>1, <1>2, <1>3, <1>4, <1>5 DEF Next

(* The time one call of with_retry spends asleep is at most max_delay per  *)
(* retry of the budget.                                                    *)
THEOREM BackOffBoundedHolds == Spec => []BackOffBounded
<1>1. Init => SleepInv
  BY RetryAssumption, BudgetIsNat DEF Init, SleepInv
<1>2. LoopInv /\ SleepInv => BackOffBounded
  <2> SUFFICES ASSUME LoopInv, SleepInv PROVE BackOffBounded
    OBVIOUS
  <2>1. CASE pc \in {"returned", "raised"}
    BY <2>1 DEF SleepInv, BackOffBounded
  <2>2. CASE pc \in {"calling", "sleeping"}
    <3>1. attempt \in Nat /\ attempt <= Budget
      BY <2>2 DEF LoopInv
    <3>2. attempt * MaxDelay <= Budget * MaxDelay
      BY <3>1, SleepGrows, BudgetIsNat
    <3>3. attempt * MaxDelay \in Int /\ Budget * MaxDelay \in Int
      BY <3>1, BudgetIsNat, RetryAssumption
    <3> QED
      BY <2>2, <3>2, <3>3 DEF SleepInv, BackOffBounded
  <2> QED
    BY <2>1, <2>2 DEF LoopInv
<1> QED
  BY <1>1, <1>2, SleepInvStep, LoopInvariant, PTL DEF Spec
=============================================================================
