----------------------------- MODULE RetryProofs -----------------------------
(***************************************************************************)
(* Proofs about Retry, for every configuration the settings allow and      *)
(* whatever the attempts and the timers take.                              *)
(***************************************************************************)
EXTENDS Retry, TLAPS

(* Every delay of the loop is a number of milliseconds.                    *)
LEMMA BackoffNat == \A k \in 0..MaxRetries : Backoff(k) \in Nat
  BY ConfigAssumption, PowerAssumption DEF Backoff

(***************************************************************************)
(* The inductive invariant: where the clock may be in each phase, and how  *)
(* the counters go together.  A sleep is shorter than its full delay only  *)
(* if it lasts until the budget is spent.                                  *)
(***************************************************************************)
CallingInv ==
    phase = "calling" =>
        /\ since < Budget
        /\ now <= since + MaxCall
        /\ errors = attempt /\ calls = attempt + 1
        /\ result = "none"

SleepingInv ==
    phase = "sleeping" =>
        /\ attempt < MaxRetries
        /\ wake <= Budget
        /\ wake < Budget => wake = since + Backoff(attempt)
        /\ now <= wake + MaxLate
        /\ errors = attempt + 1 /\ calls = attempt + 1
        /\ result = "none"

ReturnedInv ==
    phase = "returned" =>
        /\ OverrunBounded
        /\ GivesUpOnlyWhenSpent
        /\ result # "none"

Inv == TypeOK /\ CallingInv /\ SleepingInv /\ ReturnedInv

(* The invariant holds when the first attempt starts.                      *)
LEMMA InvInit == Init => Inv
  BY ConfigAssumption
     DEF Init, Inv, TypeOK, CallingInv, SleepingInv, ReturnedInv, Budget

(* Attempts, sleeps and the clock keep the invariant.                      *)
LEMMA InvStep == Inv /\ [Next]_vars => Inv'
  <1> SUFFICES ASSUME Inv, [Next]_vars PROVE Inv'
    OBVIOUS
  <1>1. /\ Budget \in Nat /\ (UNCHANGED loading => Budget' = Budget)
        /\ MaxRetries \in Nat /\ MaxCall \in Nat /\ MaxLate \in Nat /\ MinSleep \in Nat
    BY ConfigAssumption DEF Budget, Inv, TypeOK
  <1>2. Backoff(attempt) \in Nat
    BY BackoffNat DEF Inv, TypeOK
  <1> HIDE DEF Backoff, Budget
  <1>3. CASE Succeed
    BY <1>1, <1>3
       DEF Succeed, Inv, TypeOK, CallingInv, SleepingInv, ReturnedInv,
           OverrunBounded, GivesUpOnlyWhenSpent
  <1>4. CASE AttemptFails
    <2>1. /\ phase = "calling" /\ errors' = errors + 1 /\ UNCHANGED <<loading, now>>
          /\ since < Budget /\ now <= since + MaxCall
          /\ errors = attempt /\ calls = attempt + 1 /\ result = "none"
      BY <1>4 DEF AttemptFails, Inv, CallingInv
    <2>2. CASE /\ LastAttempt(attempt) \/ Remaining <= 0
               /\ Fail(attempt) /\ UNCHANGED wake
      BY <1>1, <2>1, <2>2
         DEF Fail, LastAttempt, Remaining, Inv, TypeOK, CallingInv, SleepingInv,
             ReturnedInv, OverrunBounded, GivesUpOnlyWhenSpent
    <2>3. CASE /\ ~LastAttempt(attempt) /\ Remaining > 0
               /\ ActualDelay(attempt) > MinSleep
               /\ phase' = "sleeping" /\ since' = now
               /\ wake' = now + ActualDelay(attempt)
               /\ UNCHANGED <<attempt, calls, result, attempts>>
      <3>1. /\ ActualDelay(attempt) \in Nat
            /\ now + ActualDelay(attempt) <= Budget
            /\ now + ActualDelay(attempt) < Budget => ActualDelay(attempt) = Backoff(attempt)
        BY <1>1, <1>2, <2>3 DEF ActualDelay, Remaining, Inv, TypeOK
      <3>2. attempt < MaxRetries /\ attempt \in Nat
        BY <1>1, <2>3 DEF LastAttempt, Inv, TypeOK
      <3>3. Backoff(attempt)' = Backoff(attempt)
        BY <2>3 DEF Backoff
      <3> QED
        BY <1>1, <1>2, <2>1, <2>3, <3>1, <3>2, <3>3
           DEF Inv, TypeOK, CallingInv, SleepingInv, ReturnedInv
    <2>4. CASE /\ ~LastAttempt(attempt) /\ Remaining > 0
               /\ Call(attempt + 1) /\ UNCHANGED wake
      BY <1>1, <2>1, <2>4
         DEF Call, LastAttempt, Remaining, Inv, TypeOK, CallingInv, SleepingInv, ReturnedInv
    <2> QED BY <1>4, <2>2, <2>3, <2>4 DEF AttemptFails
  <1>5. CASE SleepEnds
    <2>1. /\ phase = "sleeping" /\ UNCHANGED <<loading, now, wake, errors>>
          /\ attempt < MaxRetries /\ wake <= Budget /\ now <= wake + MaxLate
          /\ errors = attempt + 1 /\ calls = attempt + 1 /\ result = "none"
      BY <1>5 DEF SleepEnds, Inv, SleepingInv
    <2>2. CASE now >= Budget
      <3>1. Fail(attempt + 1)
        BY <1>5, <2>2 DEF SleepEnds, OutOfBudget
      <3> QED
        BY <1>1, <2>1, <2>2, <3>1
           DEF Fail, Inv, TypeOK, CallingInv, SleepingInv, ReturnedInv,
               OverrunBounded, GivesUpOnlyWhenSpent
    <2>3. CASE ~(now >= Budget)
      <3>1. Call(attempt + 1)
        BY <1>5, <2>3 DEF SleepEnds, OutOfBudget
      <3> QED
        BY <1>1, <2>1, <2>3, <3>1
           DEF Call, Inv, TypeOK, CallingInv, SleepingInv, ReturnedInv
    <2> QED BY <2>2, <2>3
  <1>6. CASE Tick
    <2>1. Backoff(attempt)' = Backoff(attempt)
      BY <1>6 DEF Tick, Backoff
    <2> QED
      BY <1>1, <1>6, <2>1 DEF Tick, Inv, TypeOK, CallingInv, SleepingInv, ReturnedInv
  <1>7. CASE UNCHANGED vars
    <2>1. Backoff(attempt)' = Backoff(attempt)
      BY <1>7 DEF vars, Backoff
    <2> QED
      BY <1>1, <1>7, <2>1
         DEF vars, Inv, TypeOK, CallingInv, SleepingInv, ReturnedInv,
             OverrunBounded, GivesUpOnlyWhenSpent
  <1> QED BY <1>3, <1>4, <1>5, <1>6, <1>7 DEF Next

(* The inductive invariant: when an attempt or a sleep began, relative to  *)
(* the budget, and how many attempts failed by then.                       *)
THEOREM Invariance == Spec => []Inv
  BY InvInit, InvStep, PTL DEF Spec

-----------------------------------------------------------------------------

(* Every variable keeps its type: in particular the attempts are numbered  *)
(* 0 to max_retries.                                                       *)
THEOREM TypeCorrect == Spec => []TypeOK
  <1>1. Inv => TypeOK
    BY DEF Inv
  <1> QED BY <1>1, Invariance, PTL

(* The budget is checked at the right moments: nothing starts too late.    *)
THEOREM NothingStartsLate == Spec => []StartsWithinBudget
  <1>1. Inv => StartsWithinBudget
    BY DEF Inv, CallingInv, SleepingInv, StartsWithinBudget
  <1> QED BY <1>1, Invariance, PTL

(* The answer is late by no more than the attempt or the timer that was    *)
(* running when the budget ran out.                                        *)
THEOREM LatenessBounded == Spec => []OverrunBounded
  <1>1. Inv => OverrunBounded
    BY DEF Inv, ReturnedInv, OverrunBounded
  <1> QED BY <1>1, Invariance, PTL

(* A failure is told only when the attempts or the budget are used up.     *)
THEOREM NoEarlyFailure == Spec => []GivesUpOnlyWhenSpent
  <1>1. Inv => GivesUpOnlyWhenSpent
    BY DEF Inv, TypeOK, CallingInv, SleepingInv, ReturnedInv, GivesUpOnlyWhenSpent
  <1> QED BY <1>1, Invariance, PTL

(* Between two attempts there is the full exponential delay, although the  *)
(* code sleeps for less when the budget is short: after a shortened sleep  *)
(* no attempt follows.                                                     *)
THEOREM Spaced == Spec => ExponentialSpacing
  <1>1. ASSUME Inv, Next, calls' # calls
        PROVE  \/ phase = "sleeping" /\ now - since >= BaseDelay * 2^attempt
               \/ phase = "calling"
                    /\ (BaseDelay * 2^attempt <= MinSleep \/ Remaining <= MinSleep)
    <2>1. Backoff(attempt) = BaseDelay * 2^attempt /\ Backoff(attempt) \in Nat
      BY <1>1, BackoffNat DEF Backoff, Inv, TypeOK
    <2>2. Budget \in Nat
      BY <1>1, ConfigAssumption DEF Budget
    <2> HIDE DEF Backoff, Budget
    <2>3. CASE SleepEnds
      <3>1. phase = "sleeping" /\ now >= wake /\ ~(now >= Budget)
        BY <1>1, <2>3 DEF SleepEnds, OutOfBudget, Fail
      <3>2. wake = since + Backoff(attempt)
        BY <1>1, <2>2, <3>1 DEF Inv, TypeOK, SleepingInv
      <3>3. now - since >= Backoff(attempt)
        BY <1>1, <2>1, <3>1, <3>2 DEF Inv, TypeOK
      <3> QED BY <2>1, <3>1, <3>3
    <2>4. CASE AttemptFails
      <3>1. phase = "calling" /\ ActualDelay(attempt) <= MinSleep
        BY <1>1, <2>4 DEF AttemptFails, Fail
      <3>2. Backoff(attempt) <= MinSleep \/ Remaining <= MinSleep
        BY <3>1 DEF ActualDelay
      <3> QED BY <2>1, <3>1, <3>2
    <2> QED BY <1>1, <2>3, <2>4 DEF Next, Succeed, Tick
  <1>2. Inv /\ [Next]_vars =>
          [calls' # calls =>
              \/ phase = "sleeping" /\ now - since >= BaseDelay * 2^attempt
              \/ phase = "calling"
                   /\ (BaseDelay * 2^attempt <= MinSleep \/ Remaining <= MinSleep)]_vars
    BY <1>1
  <1> QED BY <1>2, Invariance, PTL DEF Spec, ExponentialSpacing

-----------------------------------------------------------------------------

(* The loop starts as its abstraction does.                                *)
LEMMA LoopInit == Init => Loop!Init
  BY DEF Init, Loop!Init, Stage

(* Every step of the clocked loop is one of the abstraction or a stutter.  *)
LEMMA LoopStep == Inv /\ [Next]_vars => [Loop!Next]_Loop!vars
  <1> SUFFICES ASSUME Inv, [Next]_vars PROVE [Loop!Next]_Loop!vars
    OBVIOUS
  <1>1. CASE Succeed
    <2>1. Stage = "running" /\ Stage' = "won" /\ UNCHANGED errors
      BY <1>1 DEF Succeed, Stage
    <2> QED BY <2>1 DEF Loop!Next, Loop!AttemptSucceeds
  <1>2. CASE AttemptFails
    <2>1. /\ phase = "calling" /\ errors' = errors + 1 /\ errors = attempt
          /\ result = "none" /\ attempt \in 0..MaxRetries
      BY <1>2 DEF AttemptFails, Inv, TypeOK, CallingInv
    <2>2. \/ phase' = "returned" /\ result' = "failure"
          \/ attempt # MaxRetries /\ phase' \in {"sleeping", "calling"} /\ result' = result
      BY <1>2 DEF AttemptFails, LastAttempt, Fail, Call
    <2>3. errors < MaxRetries \/ Stage' = "lost"
      BY <2>1, <2>2, ConfigAssumption DEF Stage
    <2>4. Stage = "running" /\ Stage' \in {"running", "paused", "lost"}
      BY <2>1, <2>2 DEF Stage
    <2> QED BY <2>1, <2>3, <2>4 DEF Loop!Next, Loop!AttemptFails
  <1>3. CASE SleepEnds
    <2>1. /\ phase = "sleeping" /\ UNCHANGED errors
          /\ \/ phase' = "returned" /\ result' = "failure"
             \/ phase' = "calling"
      BY <1>3 DEF SleepEnds, Fail, Call
    <2>2. Stage = "paused"
      BY <2>1 DEF Stage
    <2>3. Stage' \in {"running", "lost"}
      BY <2>1 DEF Stage
    <2> QED BY <2>1, <2>2, <2>3 DEF Loop!Next, Loop!PauseEnds
  <1>4. CASE Tick \/ UNCHANGED vars
    BY <1>4 DEF Tick, vars, Stage, Loop!vars
  <1> QED BY <1>1, <1>2, <1>3, <1>4 DEF Next

(* With its clock, delays and budget the loop does nothing but what module *)
(* RetryLoop allows, which is how ReverseProxy uses it.                    *)
THEOREM LoopRefinement == Spec => LoopContract
  BY LoopInit, LoopStep, Invariance, PTL DEF Spec, LoopContract, Loop!Spec

-----------------------------------------------------------------------------

(* What RetryResult.attempts tells.  A success tells the attempts made.  A *)
(* failure does as well, unless the break at the head of an iteration      *)
(* counted an attempt the budget left no time for.                         *)
AttemptsTold ==
    /\ result = "success" => attempts = calls /\ errors = calls - 1
    /\ result = "failure" =>
        \/ attempts = calls
        \/ attempts = calls + 1 /\ calls <= MaxRetries /\ now >= Budget
    /\ result # "none" => attempts \in 1 .. MaxRetries + 1

(* The attempts told are one more than those made only if the budget was   *)
(* spent in a sleep.                                                       *)
THEOREM AttemptsAreTold == Spec => []AttemptsTold
  <1> DEFINE Told == AttemptsTold /\ (phase # "returned" => result = "none")
  <1>1. Init => Told
    BY DEF Init, AttemptsTold
  <1>2. Inv /\ Told /\ [Next]_vars => Told'
    <2> SUFFICES ASSUME Inv, Told, [Next]_vars PROVE Told'
      OBVIOUS
    <2>1. /\ UNCHANGED loading => Budget' = Budget
          /\ MaxRetries \in Nat /\ MaxRetries' = MaxRetries
      BY ConfigAssumption DEF Budget
    <2> HIDE DEF Budget
    <2>2. CASE Succeed
      BY <2>1, <2>2 DEF Succeed, Inv, TypeOK, CallingInv, AttemptsTold
    <2>3. CASE AttemptFails
      BY <2>1, <2>3
         DEF AttemptFails, Fail, Call, LastAttempt, Inv, TypeOK, CallingInv, AttemptsTold
    <2>4. CASE SleepEnds
      BY <2>1, <2>4
         DEF SleepEnds, OutOfBudget, Fail, Call, Inv, TypeOK, SleepingInv, AttemptsTold
    <2>5. CASE Tick
      BY <2>1, <2>5 DEF Tick, Inv, TypeOK, AttemptsTold
    <2>6. CASE UNCHANGED vars
      BY <2>1, <2>6 DEF vars, AttemptsTold
    <2> QED BY <2>2, <2>3, <2>4, <2>5, <2>6 DEF Next
  <1>3. Spec => []Told
    BY <1>1, <1>2, Invariance, PTL DEF Spec
  <1> QED BY <1>3, PTL
=============================================================================
