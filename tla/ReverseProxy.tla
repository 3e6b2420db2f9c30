---------------------------- MODULE ReverseProxy ----------------------------
(***************************************************************************)
(* One worker process of the proxy: the life of a request from             *)
(* get_active_servers to the response, over the state the requests of a    *)
(* worker share (the health cache of proxy.py and app.state's round-robin  *)
(* index) and the registry of backend servers in the database.             *)
(*                                                                         *)
(* The worker is an asyncio loop: a request loses control only where it    *)
(* awaits, so one action is the code between two awaits.  Times are left   *)
(* out: the 5 second life of a health entry is ExpireHealth, which may     *)
(* happen at any moment, and the retry budget is RetryGivesUp, which may   *)
(* end a retry loop after any of its attempts (module Retry has the clock).*)
(***************************************************************************)
EXTENDS Integers, FiniteSets

CONSTANTS
    Servers,     \* rows the table ollama_servers may hold
    Vllm,        \* those of them whose server_type is "vllm"
    Fallback,    \* the unsaved OllamaServer (id None) made for cloud models
    Rank,        \* position of a server in get_servers' created_at order
    Requests,    \* request slots of the worker; a slot is reused once done
    MaxRetries,  \* settings.max_retries
    Kinds,       \* what requests name, of AllKinds
    Payloads,    \* what vLLM servers make of requests, of AllPayloads
    Registries,  \* the contents of ollama_servers a run starts with
    MaxChanges   \* bound on changes of the registry

Backends == Servers \union {Fallback}

ASSUME ServersAssumption ==
    /\ IsFiniteSet(Servers)
    /\ Vllm \subseteq Servers
    /\ Fallback \notin Servers
ASSUME RankAssumption ==
    /\ Rank \in [Backends -> Nat]
    /\ \A s, t \in Backends : Rank[s] = Rank[t] => s = t
ASSUME BoundAssumption == MaxRetries \in Nat /\ MaxChanges \in Nat

(* What a request names: no model, a model, or an openrouter/cloud model.  *)
AllKinds == {"plain", "model", "cloud"}

(* What a vLLM server makes of it: translatable; a 400 or 404 (bad JSON, a *)
(* path vLLM lacks); or JSON whose shape makes the translation raise.      *)
AllPayloads == {"valid", "rejected", "malformed"}

(* A row is missing, has is_active false, or is in use.  New rows are      *)
(* active and no handler writes the column: a row can only be inactive     *)
(* from the start, by hand in the database.                                *)
Statuses == {"absent", "inactive", "active"}

ASSUME InputAssumption ==
    /\ Kinds \subseteq AllKinds
    /\ Payloads \subseteq AllPayloads
    /\ Registries \subseteq [Servers -> Statuses]

Phases == {"idle", "lookup", "route", "direct", "retry", "backoff", "vllm", "done"}

Outcomes == {"none", "answered", "exhausted", "vllm_error", "lookup_error", "no_servers"}

VARIABLES
    status,     \* status[s]: is row s in the table, and is it active
    catalog,    \* the servers whose available_models lists a model
    changes,    \* how often the registry changed (bounded by MaxChanges)
    unhealthy,  \* the servers with a fresh healthy=False entry in
                \* _server_health_cache; no entry, a stale one and
                \* healthy=True are the same to its only reader
    rrIndex,    \* app.state.backend_server_index
    pc,         \* where a request is
    payload,    \* what a vLLM server makes of it
    target,     \* proxy_ollama's candidate_servers
    listed,     \* the snapshot's servers whose loaded row lists a model
    first,      \* history: _reverse_proxy's candidates before any failure
    cand,       \* candidate_servers, the failed ones removed
    cur, att,   \* current_index and server_attempt
    chosen,     \* chosen_server
    tries,      \* failed attempts of the running retry_with_backoff
    sends,      \* sends[r][s]: attempts request r made on s
    outcome

registry == <<status, catalog, changes>>
shared   == <<unhealthy, rrIndex>>
arrival  == <<payload, target, listed, first>>
loop     == <<cand, cur, att, chosen>>
vars     == <<registry, shared, pc, arrival, loop, tries, sends, outcome>>

Active == {s \in Servers : status[s] = "active"}

NoSends == [s \in Backends |-> 0]

-----------------------------------------------------------------------------

Init ==
    /\ status \in Registries
    /\ catalog = {}
    /\ changes = 0
    /\ unhealthy = {}
    /\ rrIndex = 0
    /\ pc = [r \in Requests |-> "idle"]
    /\ payload \in [Requests -> Payloads]
    /\ target = [r \in Requests |-> {}]
    /\ listed = [r \in Requests |-> {}]
    /\ first = [r \in Requests |-> {}]
    /\ cand = [r \in Requests |-> {}]
    /\ cur = [r \in Requests |-> 0]
    /\ att = [r \in Requests |-> 0]
    /\ chosen = [r \in Requests |-> Fallback]
    /\ tries = [r \in Requests |-> 0]
    /\ sends = [r \in Requests |-> NoSends]
    /\ outcome = [r \in Requests |-> "none"]

Finish(r, o) ==
    /\ pc' = [pc EXCEPT ![r] = "done"]
    /\ outcome' = [outcome EXCEPT ![r] = o]

(* The index of s in the list of the servers in S.                         *)
Position(S, s) == Cardinality({t \in S : Rank[t] < Rank[s]})

(* chosen_server = candidate_servers[safe_index], and its first await.     *)
Contact(r, S, safeIndex) ==
    \E s \in S :
        /\ Position(S, s) = safeIndex
        /\ chosen' = [chosen EXCEPT ![r] = s]
        /\ pc' = [pc EXCEPT ![r] = IF s \in Vllm THEN "vllm" ELSE "direct"]
        /\ sends' = [sends EXCEPT ![r][s] = @ + 1]

(* A new request: the dependency get_active_servers reads the registry.    *)
Arrive(r) ==
    /\ pc[r] \in {"idle", "done"}
    /\ \E p \in Payloads : payload' = [payload EXCEPT ![r] = p]
    /\ target' = [target EXCEPT ![r] = Active]
    /\ listed' = [listed EXCEPT ![r] = Active \intersect catalog]
    /\ first' = [first EXCEPT ![r] = {}]
    /\ cand' = [cand EXCEPT ![r] = {}]
    /\ chosen' = [chosen EXCEPT ![r] = Fallback]
    /\ cur' = [cur EXCEPT ![r] = 0]
    /\ att' = [att EXCEPT ![r] = 0]
    /\ tries' = [tries EXCEPT ![r] = 0]
    /\ sends' = [sends EXCEPT ![r] = NoSends]
    /\ IF Active = {}
       THEN Finish(r, "no_servers")
       ELSE /\ pc' = [pc EXCEPT ![r] = "lookup"]
            /\ outcome' = [outcome EXCEPT ![r] = "none"]
    /\ UNCHANGED <<registry, shared>>

(* The rows get_servers_with_model sees to list a model.  The session keeps*)
(* the rows it loaded on arrival as they were then; the others are fresh.  *)
SeenListed(r) ==
    {s \in listed[r] : status[s] # "absent"} \union ((Active \intersect catalog) \ target[r])

(* Smart routing.  Comparing a listed model with the requested one calls   *)
(* _model_matches, which no module defines: the NameError is a 500.  With  *)
(* nothing listed, a cloud name gets the fallback server and any other     *)
(* name the whole snapshot.  The usage log row and the cold start check    *)
(* that follow await, and change none of this state.                       *)
Lookup(r) ==
    /\ pc[r] = "lookup"
    /\ \E k \in Kinds :
        IF k # "plain" /\ SeenListed(r) # {}
        THEN Finish(r, "lookup_error") /\ UNCHANGED target
        ELSE /\ target' = IF k = "cloud" THEN [target EXCEPT ![r] = {Fallback}] ELSE target
             /\ pc' = [pc EXCEPT ![r] = "route"]
             /\ UNCHANGED outcome
    /\ listed' = [listed EXCEPT ![r] = {}]
    /\ UNCHANGED <<registry, shared, payload, first, loop, tries, sends>>

(* _is_server_healthy_cached: a server without a fresh entry is healthy.   *)
IgnoresCache(s) == TRUE
HealthyCached(s) == s \notin unhealthy

(* The candidates: the healthy targets, or all of them if none is.         *)
OnlyHealthy(r) == {s \in target[r] : HealthyCached(s)}
Candidates(r) == IF OnlyHealthy(r) = {} THEN target[r] ELSE OnlyHealthy(r)

(* Indices modulo max(1, len(candidate_servers)).                          *)
Modulo(i, S) == i % (IF S = {} THEN 1 ELSE Cardinality(S))

(* The value of backend_server_index after candidate i of S was picked.    *)
StuckIndex(i, S) == i
AdvancedIndex(i, S) == Modulo(i + 1, S)

(* The head of _reverse_proxy up to the first contact: no await in between.*)
Route(r) ==
    /\ pc[r] = "route"
    /\ LET C == Candidates(r)
           i == Modulo(rrIndex, C)
       IN  /\ rrIndex' = AdvancedIndex(i, C)
           /\ first' = [first EXCEPT ![r] = C]
           /\ cand' = [cand EXCEPT ![r] = C]
           /\ cur' = [cur EXCEPT ![r] = i]
           /\ att' = [att EXCEPT ![r] = 0]
           /\ Contact(r, C, i)
    /\ UNCHANGED <<registry, unhealthy, payload, target, listed, tries, outcome>>

-----------------------------------------------------------------------------

(* _update_health_cache with True, and with False.                         *)
MarkHealthy(s) == unhealthy' = unhealthy \ {s}
MarkUnhealthy(s) == unhealthy' = unhealthy \union {s}

(* What the list keeps when the chosen server failed.                      *)
KeepsFailed(r) == cand[r]
Rest(r) == cand[r] \ {chosen[r]}

(* range(len(candidate_servers)) was evaluated before any server left.     *)
LiveRange(r) == att[r] + 1 >= Cardinality(Rest(r))
RangeOver(r) == att[r] + 1 = Cardinality(first[r])

(* The end of a round of the failover loop: the server leaves the list and *)
(* the next round starts, unless the list is empty or the range is over.   *)
TryNext(r) ==
    LET safeIndex == Modulo(cur[r] + att[r], cand[r])
        next      == Modulo(safeIndex, Rest(r))
    IN  /\ cand' = [cand EXCEPT ![r] = Rest(r)]
        /\ IF Rest(r) = {} \/ RangeOver(r)
           THEN /\ Finish(r, "exhausted")
                /\ UNCHANGED <<cur, att, chosen, sends>>
           ELSE /\ cur' = [cur EXCEPT ![r] = next]
                /\ att' = [att EXCEPT ![r] = @ + 1]
                /\ Contact(r, Rest(r), Modulo(next + att[r] + 1, Rest(r)))
                /\ UNCHANGED outcome

(* The backend answers with a status below 500, a 4xx included.            *)
Answer(r) ==
    /\ pc[r] \in {"direct", "retry"}
    /\ MarkHealthy(chosen[r])
    /\ Finish(r, "answered")
    /\ UNCHANGED <<registry, rrIndex, arrival, loop, tries, sends>>

(* The direct attempt raises or gets a 5xx: the first attempt of           *)
(* retry_with_backoff on the same server starts at once.                   *)
DirectFails(r) ==
    /\ pc[r] = "direct"
    /\ MarkUnhealthy(chosen[r])
    /\ tries' = [tries EXCEPT ![r] = 0]
    /\ sends' = [sends EXCEPT ![r][chosen[r]] = @ + 1]
    /\ pc' = [pc EXCEPT ![r] = "retry"]
    /\ UNCHANGED <<registry, rrIndex, arrival, loop, outcome>>

(* attempt < max_retries: another attempt may follow the failed one.       *)
OneRetryTooMany(r) == tries[r] <= MaxRetries
MayRetry(r) == tries[r] < MaxRetries

(* An attempt of the retry loop fails and another one is allowed.          *)
RetryFails(r) ==
    /\ pc[r] = "retry"
    /\ MayRetry(r)
    /\ tries' = [tries EXCEPT ![r] = @ + 1]
    /\ pc' = [pc EXCEPT ![r] = "backoff"]
    /\ UNCHANGED <<registry, shared, arrival, loop, sends, outcome>>

(* The backoff sleep ends within the budget: the next attempt starts.      *)
RetryAgain(r) ==
    /\ pc[r] = "backoff"
    /\ sends' = [sends EXCEPT ![r][chosen[r]] = @ + 1]
    /\ pc' = [pc EXCEPT ![r] = "retry"]
    /\ UNCHANGED <<registry, shared, arrival, loop, tries, outcome>>

(* The retry loop ends in failure: its last attempt failed, or the budget  *)
(* is spent when an attempt has failed or when a sleep ends.               *)
RetryGivesUp(r) ==
    /\ pc[r] \in {"retry", "backoff"}
    /\ MarkUnhealthy(chosen[r])
    /\ TryNext(r)
    /\ UNCHANGED <<registry, rrIndex, arrival, tries>>

(* _proxy_to_vllm returns: the server replied, or the reply is a stream,   *)
(* which is returned before the connection is opened.                      *)
VllmReplies(r) ==
    /\ pc[r] = "vllm"
    /\ payload[r] = "valid"
    /\ MarkHealthy(chosen[r])
    /\ Finish(r, "answered")
    /\ UNCHANGED <<registry, rrIndex, arrival, loop, tries, sends>>

(* _proxy_to_vllm raises an HTTPException: the 400 or 404 of a payload it  *)
(* rejects, or what it makes of any failure of the server.  Raised again.  *)
VllmHTTPException(r) ==
    /\ pc[r] = "vllm"
    /\ payload[r] # "malformed"
    /\ MarkUnhealthy(chosen[r])
    /\ Finish(r, "vllm_error")
    /\ UNCHANGED <<registry, rrIndex, arrival, loop, tries, sends>>

(* _proxy_to_vllm raises anything else: the payload broke the translation. *)
VllmRaises(r) ==
    /\ pc[r] = "vllm"
    /\ payload[r] = "malformed"
    /\ MarkUnhealthy(chosen[r])
    /\ TryNext(r)
    /\ UNCHANGED <<registry, rrIndex, arrival, tries>>

-----------------------------------------------------------------------------

(* An entry outlives _health_cache_ttl_seconds.                            *)
ExpireHealth(s) ==
    /\ s \in unhealthy
    /\ unhealthy' = unhealthy \ {s}
    /\ UNCHANGED <<registry, rrIndex, pc, arrival, loop, tries, sends, outcome>>

(* An administrator adds or deletes a server; a refresh of the model       *)
(* catalog fills or clears a row's list.  An edit of a row is left out:    *)
(* requests under way keep the row as they loaded it, and for later ones   *)
(* it is as good as another row.                                           *)
ChangeRegistry ==
    /\ changes < MaxChanges
    /\ changes' = changes + 1
    /\ \E s \in Servers :
        \/ /\ status[s] = "absent"
           /\ status' = [status EXCEPT ![s] = "active"]
           /\ UNCHANGED catalog
        \/ /\ status[s] # "absent"
           /\ status' = [status EXCEPT ![s] = "absent"]
           /\ catalog' = catalog \ {s}
        \/ /\ status[s] # "absent"
           /\ catalog' \in {catalog \union {s}, catalog \ {s}}
           /\ UNCHANGED status
    /\ UNCHANGED <<shared, pc, arrival, loop, tries, sends, outcome>>

(* Every await of a request that has arrived.                              *)
Proceed(r) ==
    \/ Lookup(r) \/ Route(r)
    \/ Answer(r) \/ DirectFails(r)
    \/ RetryFails(r) \/ RetryAgain(r) \/ RetryGivesUp(r)
    \/ VllmReplies(r) \/ VllmHTTPException(r) \/ VllmRaises(r)

Next ==
    \/ \E r \in Requests : Arrive(r) \/ Proceed(r)
    \/ \E s \in Backends : ExpireHealth(s)
    \/ ChangeRegistry

(* Awaits end: the http client has timeouts, the retry loop a budget and   *)
(* the event loop runs every ready task.  Nothing makes a client send.     *)
Fairness == \A r \in Requests : WF_vars(Proceed(r))

Spec == Init /\ [][Next]_vars /\ Fairness

-----------------------------------------------------------------------------

(* The variables have their types: the round-robin index of the worker     *)
(* stays within the number of servers.                                     *)
TypeOK ==
    /\ status \in [Servers -> Statuses]
    /\ catalog \subseteq Servers
    /\ changes \in 0..MaxChanges
    /\ unhealthy \subseteq Backends
    /\ rrIndex \in 0..Cardinality(Servers)
    /\ pc \in [Requests -> Phases]
    /\ payload \in [Requests -> Payloads]
    /\ target \in [Requests -> SUBSET Backends]
    /\ listed \in [Requests -> SUBSET Servers]
    /\ first \in [Requests -> SUBSET Backends]
    /\ cand \in [Requests -> SUBSET Backends]
    /\ cur \in [Requests -> Nat]
    /\ att \in [Requests -> Nat]
    /\ chosen \in [Requests -> Backends]
    /\ tries \in [Requests -> 0..MaxRetries]
    /\ sends \in [Requests -> [Backends -> Nat]]
    /\ outcome \in [Requests -> Outcomes]

(* The 504 "All backend servers unavailable" is told only when every       *)
(* candidate _reverse_proxy started with was really tried, although the    *)
(* loop's range is fixed while the list it indexes shrinks and the index   *)
(* jumps.                                                                  *)
ExhaustedMeansAllTried ==
    \A r \in Requests : outcome[r] = "exhausted" =>
        \A s \in first[r] : sends[r][s] > 0

(* However often a request fails over and retries, a server gets at most   *)
(* the direct attempt and the max_retries + 1 attempts of one retry loop.  *)
SendsBounded ==
    \A r \in Requests, s \in Backends : sends[r][s] <= MaxRetries + 2

(* The failover loop never comes back to a server it gave up: a new        *)
(* choice is one the request has sent nothing to.                          *)
NeverReturns ==
    [][\A r \in Requests :
        chosen'[r] # chosen[r] /\ pc[r] # "done" => sends[r][chosen'[r]] = 0]_vars

(* A server the cache holds unhealthy is a first choice only for a request *)
(* all of whose servers are: its mark keeps traffic off it, and no mark    *)
(* refuses a request.                                                      *)
UnhealthyLastResort ==
    [][\A r \in Requests :
        Route(r) /\ chosen'[r] \in unhealthy =>
            target[r] \subseteq unhealthy]_vars

(* Every request that arrives is answered, whatever the servers, the cache *)
(* and the administrator do.                                               *)
AllAnswered == \A r \in Requests : pc[r] # "idle" ~> pc[r] = "done"

(* The servers a request may still be served by, and how it stands.        *)
Remaining == [r \in Requests |-> cand[r]]
Verdict ==
    [r \in Requests |->
        IF pc[r] \in {"idle", "lookup", "route"} THEN "waiting"
        ELSE IF pc[r] # "done" THEN "serving"
        ELSE CASE outcome[r] = "vllm_error" -> "aborted"
               [] outcome[r] \in {"lookup_error", "no_servers"} -> "refused"
               [] OTHER -> outcome[r]]

(* The worker implements the failover contract of module Failover.         *)
Contract == INSTANCE Failover WITH remaining <- Remaining, verdict <- Verdict
FailoverContract == Contract!Spec

(* MODEL_MATRIX.md on smart routing: a model name known, the request goes  *)
(* to the servers that host it; here, it is at least not refused.          *)
SmartRoutingServes == \A r \in Requests : outcome[r] # "lookup_error"
=============================================================================
