------------------------------- MODULE Retry --------------------------------
(***************************************************************************)
(* retry_with_backoff of app/core/retry.py with its clock.  Time is in     *)
(* milliseconds since the call, the same for every time.time() between two *)
(* awaits.  An attempt (one _send_backend_request) may take any time up to *)
(* MaxCall, which the http client's own timeouts bound: the loop looks at  *)
(* its budget between attempts and never interrupts one.  A sleep may end  *)
(* late, by at most MaxLate.                                               *)
(***************************************************************************)
EXTENDS Integers

CONSTANTS
    MaxRetries,      \* config.max_retries
    TotalTimeout,    \* config.total_timeout_seconds
    LoadingTimeout,  \* config.loading_timeout_seconds
    BaseDelay,       \* config.base_delay_ms
    MinSleep,        \* a shorter delay than this is not slept: 0.001 s
    MaxCall,         \* the longest attempt
    MaxLate          \* the longest delay of a timer

(* RetryConfig.__post_init__, and the bounds of the settings schema.       *)
ASSUME ConfigAssumption ==
    /\ MaxRetries \in Nat
    /\ TotalTimeout \in Nat \ {0}
    /\ LoadingTimeout \in Nat \ {0}
    /\ BaseDelay \in Nat \ {0}
    /\ MinSleep \in Nat /\ MaxCall \in Nat /\ MaxLate \in Nat
ASSUME PowerAssumption == \A k \in 0..MaxRetries : 2^k \in Nat

VARIABLES
    loading,    \* is_loading_operation
    now,        \* elapsed time
    phase,      \* "calling", "sleeping" or "returned"
    attempt,    \* the loop variable
    since,      \* when the running attempt or sleep began
    wake,       \* when the running sleep is due to end
    errors,     \* len(errors)
    calls,      \* history: the attempts made
    result,     \* RetryResult: "none", "success" or "failure"
    attempts    \* RetryResult.attempts

vars == <<loading, now, phase, attempt, since, wake, errors, calls, result, attempts>>

Budget == IF loading THEN LoadingTimeout ELSE TotalTimeout

(* The call of func in an iteration whose budget check passed.             *)
Call(k) ==
    /\ phase' = "calling"
    /\ attempt' = k
    /\ since' = now
    /\ calls' = calls + 1
    /\ UNCHANGED <<result, attempts>>

(* The last return: attempt counts from 0.                                 *)
Fail(k) ==
    /\ phase' = "returned"
    /\ attempt' = k
    /\ result' = "failure"
    /\ attempts' = k + 1
    /\ UNCHANGED <<since, calls>>

Init ==
    /\ loading \in BOOLEAN
    /\ now = 0 /\ since = 0 /\ wake = 0
    /\ phase = "calling"
    /\ attempt = 0
    /\ errors = 0
    /\ calls = 1
    /\ result = "none"
    /\ attempts = 0

Succeed ==
    /\ phase = "calling"
    /\ phase' = "returned"
    /\ result' = "success"
    /\ attempts' = attempt + 1
    /\ UNCHANGED <<loading, now, attempt, since, wake, errors, calls>>

(* base_delay * 2^attempt, and its part the budget leaves room for.        *)
LinearDelay(k) == BaseDelay * k
Backoff(k) == BaseDelay * 2^k

Remaining == Budget - now

UncappedDelay(k) == Backoff(k)
ActualDelay(k) == IF Backoff(k) < Remaining THEN Backoff(k) ELSE Remaining

(* for attempt in range(max_retries + 1): is k the last?                   *)
OneFewer(k) == k + 1 >= MaxRetries
OneMore(k) == k > MaxRetries
LastAttempt(k) == k = MaxRetries

(* An attempt raises: the last one; one that used up the budget; one after *)
(* which the delay is worth a sleep; one after which it is not.            *)
AttemptFails ==
    /\ phase = "calling"
    /\ errors' = errors + 1
    /\ \/ /\ LastAttempt(attempt)
          /\ Fail(attempt)
          /\ UNCHANGED wake
       \/ /\ ~LastAttempt(attempt)
          /\ Remaining <= 0
          /\ Fail(attempt)
          /\ UNCHANGED wake
       \/ /\ ~LastAttempt(attempt)
          /\ Remaining > 0
          /\ ActualDelay(attempt) > MinSleep
          /\ phase' = "sleeping"
          /\ since' = now
          /\ wake' = now + ActualDelay(attempt)
          /\ UNCHANGED <<attempt, calls, result, attempts>>
       \/ /\ ~LastAttempt(attempt)
          /\ Remaining > 0
          /\ ActualDelay(attempt) <= MinSleep
          /\ Call(attempt + 1)
          /\ UNCHANGED wake
    /\ UNCHANGED <<loading, now>>

(* The check at the head of an iteration.                                  *)
LateCheck == now > Budget
OutOfBudget == now >= Budget

(* A sleep ends and the loop comes round to its budget check.              *)
SleepEnds ==
    /\ phase = "sleeping"
    /\ now >= wake
    /\ IF OutOfBudget THEN Fail(attempt + 1) ELSE Call(attempt + 1)
    /\ UNCHANGED <<loading, now, wake, errors>>

(* Time passes, within the bounds of attempts and timers.                  *)
Tick ==
    /\ \/ phase = "calling" /\ now < since + MaxCall
       \/ phase = "sleeping" /\ now < wake + MaxLate
    /\ now' = now + 1
    /\ UNCHANGED <<loading, phase, attempt, since, wake, errors, calls, result, attempts>>

Next == Succeed \/ AttemptFails \/ SleepEnds \/ Tick

Spec == Init /\ [][Next]_vars

-----------------------------------------------------------------------------

(* The variables have their types: attempts are numbered 0 to MaxRetries.  *)
TypeOK ==
    /\ loading \in BOOLEAN
    /\ now \in Nat /\ since \in Nat /\ wake \in Nat
    /\ phase \in {"calling", "sleeping", "returned"}
    /\ attempt \in 0..MaxRetries
    /\ errors \in Nat /\ calls \in Nat /\ attempts \in Nat
    /\ result \in {"none", "success", "failure"}

(* No attempt starts once the budget is spent, and no sleep is due after   *)
(* it: only an attempt under way or a late timer can pass the deadline.    *)
StartsWithinBudget ==
    /\ phase = "calling" => since < Budget
    /\ phase = "sleeping" => wake <= Budget

(* How late the caller may get its answer: a last attempt that starts just *)
(* in time runs for as long as the http client lets it.                    *)
OverrunBounded ==
    phase = "returned" => now < Budget + MaxCall \/ now <= Budget + MaxLate

(* It does not give up early: a failure means that every attempt allowed   *)
(* was made or that the budget is spent, and each attempt made has its     *)
(* error on record.                                                        *)
GivesUpOnlyWhenSpent ==
    result = "failure" =>
        /\ calls = MaxRetries + 1 \/ now >= Budget
        /\ errors = calls

(* Attempts are spaced exponentially: attempt k + 1 starts at least        *)
(* base_delay * 2^k after attempt k failed, unless that delay or what is   *)
(* left of the budget was too short to sleep.                              *)
ExponentialSpacing ==
    [][calls' # calls =>
        \/ phase = "sleeping" /\ now - since >= BaseDelay * 2^attempt
        \/ phase = "calling" /\ (BaseDelay * 2^attempt <= MinSleep \/ Remaining <= MinSleep)]_vars

(* The abstraction module ReverseProxy is built on: one attempt at a time  *)
(* and another only after a failure, at most MaxRetries + 1 in all.        *)
Stage ==
    IF phase = "calling" THEN "running"
    ELSE IF phase = "sleeping" THEN "paused"
    ELSE IF result = "success" THEN "won" ELSE "lost"
Loop == INSTANCE RetryLoop WITH stage <- Stage, failed <- errors
LoopContract == Loop!Spec

(* MODEL_MATRIX.md on RetryConfig.total_timeout_seconds: "Hard ceiling on  *)
(* total time across all attempts".                                        *)
HardCeiling == phase = "returned" => now <= Budget
=============================================================================
