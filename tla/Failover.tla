------------------------------ MODULE Failover ------------------------------
(***************************************************************************)
(* What the reverse proxy promises a client: a request that is accepted    *)
(* has a set of servers that may still serve it.  Servers leave the set    *)
(* one at a time, each because it failed the request; the request is       *)
(* answered by a server of the set, told that all servers failed once the  *)
(* set is empty, or ended by an error only a vLLM server may end it with.  *)
(***************************************************************************)
CONSTANTS Backends, Vllm, Requests

VARIABLES remaining, verdict

vars == <<remaining, verdict>>

Verdicts == {"waiting", "serving", "answered", "exhausted", "aborted", "refused"}

Init ==
    /\ remaining = [r \in Requests |-> {}]
    /\ verdict = [r \in Requests |-> "waiting"]

Verdict(r, v) == verdict' = [verdict EXCEPT ![r] = v]

Submit(r) ==
    /\ verdict[r] # "serving"
    /\ Verdict(r, "waiting")
    /\ remaining' = [remaining EXCEPT ![r] = {}]

Refuse(r) ==
    /\ verdict[r] # "serving"
    /\ Verdict(r, "refused")
    /\ remaining' = [remaining EXCEPT ![r] = {}]

Accept(r) ==
    /\ verdict[r] = "waiting"
    /\ Verdict(r, "serving")
    /\ \E S \in (SUBSET Backends) \ {{}} : remaining' = [remaining EXCEPT ![r] = S]

ServerFails(r) ==
    /\ verdict[r] = "serving"
    /\ \E s \in remaining[r] :
        /\ remaining' = [remaining EXCEPT ![r] = @ \ {s}]
        /\ Verdict(r, IF remaining[r] = {s} THEN "exhausted" ELSE "serving")

Answer(r) ==
    /\ verdict[r] = "serving"
    /\ remaining[r] # {}
    /\ Verdict(r, "answered")
    /\ UNCHANGED remaining

Abort(r) ==
    /\ verdict[r] = "serving"
    /\ remaining[r] \intersect Vllm # {}
    /\ Verdict(r, "aborted")
    /\ UNCHANGED remaining

Next == \E r \in Requests :
    \/ Submit(r) \/ Refuse(r) \/ Accept(r)
    \/ ServerFails(r) \/ Answer(r) \/ Abort(r)

Spec == Init /\ [][Next]_vars
=============================================================================
