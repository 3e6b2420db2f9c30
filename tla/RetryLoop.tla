----------------------------- MODULE RetryLoop ------------------------------
(***************************************************************************)
(* What retry_with_backoff promises its caller, without a clock: one       *)
(* attempt at a time, at most MaxRetries + 1 of them, another attempt only *)
(* after one that failed, and an end that may come after any failure.      *)
(* Module ReverseProxy uses the loop in this form.                         *)
(***************************************************************************)
EXTENDS Naturals

CONSTANT MaxRetries

VARIABLES stage, failed   \* failed: the attempts that failed so far

vars == <<stage, failed>>

Init == stage = "running" /\ failed = 0

AttemptFails ==
    /\ stage = "running"
    /\ failed' = failed + 1
    /\ \/ failed < MaxRetries /\ stage' \in {"running", "paused"}
       \/ stage' = "lost"

AttemptSucceeds == stage = "running" /\ stage' = "won" /\ UNCHANGED failed

PauseEnds == stage = "paused" /\ stage' \in {"running", "lost"} /\ UNCHANGED failed

Next == AttemptFails \/ AttemptSucceeds \/ PauseEnds

Spec == Init /\ [][Next]_vars
=============================================================================
