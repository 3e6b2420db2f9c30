------------------------- MODULE ReverseProxyProofs -------------------------
(***************************************************************************)
(* Proofs about ReverseProxy, for every registry, every set of request     *)
(* slots and every value of max_retries.                                   *)
(***************************************************************************)
EXTENDS ReverseProxy, FiniteSetTheorems, TLAPS

(* There are finitely many backends: the rows and the fallback server.     *)
LEMMA BackendsFinite ==
    /\ IsFiniteSet(Backends)
    /\ Cardinality(Backends) = Cardinality(Servers) + 1
    /\ Cardinality(Servers) \in Nat
  BY ServersAssumption, FS_AddElement, FS_CardinalityType DEF Backends

(* Every set of candidates is finite.                                      *)
LEMMA SubsetCardinality ==
    ASSUME NEW S \in SUBSET Backends
    PROVE  /\ IsFiniteSet(S)
           /\ Cardinality(S) \in Nat
           /\ Cardinality(S) <= Cardinality(Servers) + 1
           /\ Cardinality(S) = 0 <=> S = {}
  BY BackendsFinite, FS_Subset, FS_CardinalityType, FS_EmptySet

(* Modulo never divides by zero and gives an index of the list.            *)
LEMMA ModuloRange ==
    ASSUME NEW i \in Nat, NEW S \in SUBSET Backends
    PROVE  Modulo(i, S) \in 0..Cardinality(Servers)
  <1>1. CASE S = {}
    BY <1>1, BackendsFinite DEF Modulo
  <1>2. CASE S # {}
    <2>1. Cardinality(S) \in Nat \ {0} /\ Cardinality(S) <= Cardinality(Servers) + 1
      BY <1>2, SubsetCardinality
    <2>2. Modulo(i, S) = i % Cardinality(S)
      BY <1>2 DEF Modulo
    <2>3. i % Cardinality(S) \in 0..(Cardinality(S) - 1)
      BY <2>1
    <2> QED BY <2>1, <2>2, <2>3, BackendsFinite
  <1> QED BY <1>1, <1>2

-----------------------------------------------------------------------------

(* The worker starts with every variable in its type.                      *)
LEMMA TypeInit == Init => TypeOK
  <1> SUFFICES ASSUME Init PROVE TypeOK
    OBVIOUS
  <1>1. 0 \in 0..Cardinality(Servers)
    BY BackendsFinite
  <1>2. Fallback \in Backends
    BY DEF Backends
  <1> QED BY <1>1, <1>2, BoundAssumption, InputAssumption
             DEF Init, TypeOK, NoSends, Phases, Outcomes

(* What a new choice of server and its counter look like after Contact.    *)
LEMMA ContactType ==
    ASSUME TypeOK, NEW r \in Requests, NEW S \in SUBSET Backends, NEW i, Contact(r, S, i)
    PROVE  /\ chosen' \in [Requests -> Backends]
           /\ pc' \in [Requests -> Phases]
           /\ sends' \in [Requests -> [Backends -> Nat]]
  BY DEF TypeOK, Contact, Phases

(* The types after a round of the failover loop.                           *)
LEMMA TryNextType ==
    ASSUME TypeOK, NEW r \in Requests, TryNext(r)
    PROVE  /\ cand' \in [Requests -> SUBSET Backends]
           /\ cur' \in [Requests -> Nat]
           /\ att' \in [Requests -> Nat]
           /\ chosen' \in [Requests -> Backends]
           /\ pc' \in [Requests -> Phases]
           /\ sends' \in [Requests -> [Backends -> Nat]]
           /\ outcome' \in [Requests -> Outcomes]
  <1> DEFINE safeIndex == Modulo(cur[r] + att[r], cand[r])
             next == Modulo(safeIndex, Rest(r))
  <1>1. Rest(r) \in SUBSET Backends /\ cand[r] \in SUBSET Backends
    BY DEF Rest, TypeOK
  <1>2. cand' \in [Requests -> SUBSET Backends]
    BY <1>1 DEF TryNext, TypeOK
  <1>3. safeIndex \in Nat
    BY <1>1, ModuloRange DEF TypeOK
  <1>4. next \in Nat
    BY <1>1, <1>3, ModuloRange
  <1>5. CASE Rest(r) = {} \/ RangeOver(r)
    BY <1>2, <1>5 DEF TryNext, Finish, TypeOK, Phases, Outcomes
  <1>6. CASE ~(Rest(r) = {} \/ RangeOver(r))
    <2>1. Contact(r, Rest(r), Modulo(next + att[r] + 1, Rest(r)))
      BY <1>6 DEF TryNext
    <2>2. /\ cur' = [cur EXCEPT ![r] = next]
          /\ att' = [att EXCEPT ![r] = @ + 1]
          /\ UNCHANGED outcome
      BY <1>6 DEF TryNext
    <2>3. cur' \in [Requests -> Nat] /\ att' \in [Requests -> Nat]
      BY <1>4, <2>2 DEF TypeOK
    <2> QED BY <1>1, <1>2, <2>1, <2>2, <2>3, ContactType DEF TypeOK
  <1> QED BY <1>5, <1>6

(* Every step keeps the types.                                             *)
LEMMA TypeStep == TypeOK /\ [Next]_vars => TypeOK'
  <1> SUFFICES ASSUME TypeOK, [Next]_vars PROVE TypeOK'
    OBVIOUS
  <1> USE DEF registry, shared, arrival, loop
  <1>1. ASSUME NEW r \in Requests, Arrive(r) PROVE TypeOK'
    <2>1. Active \in SUBSET Servers /\ Servers \subseteq Backends /\ Fallback \in Backends
      BY DEF Active, Backends
    <2>2. pc' \in [Requests -> Phases] /\ outcome' \in [Requests -> Outcomes]
      BY <1>1 DEF Arrive, Finish, TypeOK, Phases, Outcomes
    <2>3. /\ payload' \in [Requests -> Payloads]
          /\ target' \in [Requests -> SUBSET Backends]
          /\ listed' \in [Requests -> SUBSET Servers]
      BY <1>1, <2>1 DEF Arrive, TypeOK
    <2>4. /\ first' \in [Requests -> SUBSET Backends]
          /\ cand' \in [Requests -> SUBSET Backends]
          /\ chosen' \in [Requests -> Backends]
      BY <1>1, <2>1 DEF Arrive, TypeOK
    <2>5. /\ cur' \in [Requests -> Nat]
          /\ att' \in [Requests -> Nat]
          /\ tries' \in [Requests -> 0..MaxRetries]
      BY <1>1, BoundAssumption DEF Arrive, TypeOK
    <2>6. sends' \in [Requests -> [Backends -> Nat]]
      BY <1>1 DEF Arrive, TypeOK, NoSends
    <2>7. /\ status' \in [Servers -> Statuses] /\ catalog' \subseteq Servers
          /\ changes' \in 0..MaxChanges /\ unhealthy' \subseteq Backends
          /\ rrIndex' \in 0..Cardinality(Servers)
      BY <1>1 DEF Arrive, TypeOK
    <2> QED BY <2>2, <2>3, <2>4, <2>5, <2>6, <2>7, Zenon DEF TypeOK
  <1>2. ASSUME NEW r \in Requests, Lookup(r) PROVE TypeOK'
    <2>1. Fallback \in Backends
      BY DEF Backends
    <2>2. /\ pc' \in [Requests -> Phases] /\ outcome' \in [Requests -> Outcomes]
          /\ target' \in {target, [target EXCEPT ![r] = {Fallback}]}
      BY <1>2 DEF Lookup, TypeOK, Finish, Phases, Outcomes
    <2>3. target' \in [Requests -> SUBSET Backends]
      BY <2>1, <2>2 DEF TypeOK
    <2>4. /\ listed' = [listed EXCEPT ![r] = {}]
          /\ UNCHANGED <<registry, shared, payload, first, loop, tries, sends>>
      BY <1>2 DEF Lookup
    <2>5. listed' \in [Requests -> SUBSET Servers]
      BY <2>4 DEF TypeOK
    <2> QED BY <2>2, <2>3, <2>4, <2>5 DEF TypeOK
  <1>3. ASSUME NEW r \in Requests, Route(r) PROVE TypeOK'
    <2> DEFINE C == Candidates(r)
               i == Modulo(rrIndex, C)
    <2>1. C \in SUBSET Backends
      BY DEF Candidates, OnlyHealthy, TypeOK
    <2>2. rrIndex \in Nat /\ 0..Cardinality(Servers) \subseteq Nat
      BY BackendsFinite DEF TypeOK
    <2>3. i \in Nat
      BY <2>1, <2>2, ModuloRange
    <2>4. AdvancedIndex(i, C) \in 0..Cardinality(Servers)
      BY <2>1, <2>3, ModuloRange DEF AdvancedIndex
    <2>5. Contact(r, C, i)
      BY <1>3 DEF Route
    <2>6. /\ chosen' \in [Requests -> Backends]
          /\ pc' \in [Requests -> Phases]
          /\ sends' \in [Requests -> [Backends -> Nat]]
      BY <2>1, <2>5, ContactType
    <2>7. /\ rrIndex' = AdvancedIndex(i, C)
          /\ first' = [first EXCEPT ![r] = C]
          /\ cand' = [cand EXCEPT ![r] = C]
          /\ cur' = [cur EXCEPT ![r] = i]
          /\ att' = [att EXCEPT ![r] = 0]
          /\ UNCHANGED <<registry, unhealthy, payload, target, listed, tries, outcome>>
      BY <1>3 DEF Route
    <2> HIDE DEF C, i
    <2> QED BY <2>1, <2>3, <2>4, <2>6, <2>7 DEF TypeOK
  <1>4. ASSUME NEW r \in Requests, Answer(r) \/ VllmReplies(r) \/ VllmHTTPException(r)
        PROVE  TypeOK'
    <2>1. /\ pc' \in [Requests -> Phases] /\ outcome' \in [Requests -> Outcomes]
          /\ UNCHANGED <<registry, rrIndex, arrival, loop, tries, sends>>
      BY <1>4 DEF Answer, VllmReplies, VllmHTTPException, Finish, TypeOK, Phases, Outcomes
    <2>2. unhealthy' \subseteq Backends
      BY <1>4 DEF Answer, VllmReplies, VllmHTTPException, MarkHealthy, MarkUnhealthy, TypeOK
    <2> QED BY <2>1, <2>2 DEF TypeOK
  <1>5. ASSUME NEW r \in Requests, DirectFails(r) PROVE TypeOK'
    BY <1>5, BoundAssumption DEF DirectFails, MarkUnhealthy, TypeOK, Phases
  <1>6. ASSUME NEW r \in Requests, RetryFails(r) PROVE TypeOK'
    BY <1>6, BoundAssumption DEF RetryFails, MayRetry, TypeOK, Phases
  <1>7. ASSUME NEW r \in Requests, RetryAgain(r) PROVE TypeOK'
    BY <1>7 DEF RetryAgain, TypeOK, Phases
  <1>8. ASSUME NEW r \in Requests, RetryGivesUp(r) \/ VllmRaises(r) PROVE TypeOK'
    <2>1. TryNext(r) /\ unhealthy' = unhealthy \union {chosen[r]}
      BY <1>8 DEF RetryGivesUp, VllmRaises, MarkUnhealthy
    <2>2. UNCHANGED <<registry, rrIndex, arrival, tries>>
      BY <1>8 DEF RetryGivesUp, VllmRaises
    <2> QED BY <2>1, <2>2, TryNextType DEF TypeOK
  <1>9. ASSUME NEW s \in Backends, ExpireHealth(s) PROVE TypeOK'
    BY <1>9 DEF ExpireHealth, TypeOK
  <1>10. CASE ChangeRegistry
    <2>1. changes' \in 0..MaxChanges
      BY <1>10, BoundAssumption DEF ChangeRegistry, TypeOK
    <2>2. status' \in [Servers -> Statuses] /\ catalog' \subseteq Servers
      BY <1>10 DEF ChangeRegistry, TypeOK, Statuses
    <2> QED BY <1>10, <2>1, <2>2 DEF ChangeRegistry, TypeOK
  <1>11. CASE UNCHANGED vars
    BY <1>11 DEF vars, TypeOK
  <1> QED BY <1>1, <1>2, <1>3, <1>4, <1>5, <1>6, <1>7, <1>8, <1>9, <1>10, <1>11
             DEF Next, Proceed

(* Every variable keeps its type; the round-robin index in particular      *)
(* never exceeds the number of servers registered.                         *)
THEOREM TypeCorrect == Spec => []TypeOK
  BY TypeInit, TypeStep, PTL DEF Spec

-----------------------------------------------------------------------------

(***************************************************************************)
(* The inductive invariant.  What a request has sent to whom is tied to    *)
(* where it is in the failover loop: the servers out of the list got       *)
(* something, those behind the chosen one nothing, and the loop's counter  *)
(* is the number of servers that left.                                     *)
(***************************************************************************)
Serving == {"direct", "retry", "backoff", "vllm"}

(* Nothing is known of a request before it is routed.                      *)
NotRouted(r) ==
    pc[r] \in {"idle", "lookup", "route"} =>
        first[r] = {} /\ cand[r] = {} /\ sends[r] = NoSends

(* The attempts on the chosen server so far.                               *)
Attempts(r) ==
    IF pc[r] = "retry" THEN tries[r] + 2
    ELSE IF pc[r] = "backoff" THEN tries[r] + 1
    ELSE 1

FailingOver(r) ==
    pc[r] \in Serving =>
        /\ chosen[r] \in cand[r]
        /\ cand[r] \subseteq first[r]
        /\ att[r] + Cardinality(cand[r]) = Cardinality(first[r])
        /\ \A s \in first[r] \ cand[r] : sends[r][s] > 0
        /\ \A s \in cand[r] \ {chosen[r]} : sends[r][s] = 0
        /\ sends[r][chosen[r]] = Attempts(r)

(* The vLLM branch is for vLLM servers.                                    *)
OnVllm(r) == pc[r] = "vllm" => chosen[r] \in Vllm

Bounded(r) == \A s \in Backends : sends[r][s] <= MaxRetries + 2

Told(r) ==
    /\ pc[r] # "done" => outcome[r] = "none"
    /\ outcome[r] = "exhausted" => \A s \in first[r] : sends[r][s] > 0

RequestInv(r) == NotRouted(r) /\ FailingOver(r) /\ OnVllm(r) /\ Bounded(r) /\ Told(r)

Inv == TypeOK /\ \A r \in Requests : RequestInv(r)

(* A request no variable of which changes keeps its part of the invariant. *)
Unmoved(q) ==
    /\ pc'[q] = pc[q]
    /\ first'[q] = first[q]
    /\ cand'[q] = cand[q]
    /\ att'[q] = att[q]
    /\ chosen'[q] = chosen[q]
    /\ tries'[q] = tries[q]
    /\ sends'[q] = sends[q]
    /\ outcome'[q] = outcome[q]

(* A step that moves no part of a request keeps what holds of it.          *)
LEMMA Frame ==
    ASSUME NEW q \in Requests, RequestInv(q), Unmoved(q)
    PROVE  RequestInv(q)'
  BY DEF RequestInv, NotRouted, FailingOver, Attempts, OnVllm, Bounded, Told, Unmoved

(* The invariant holds before the first request.                           *)
LEMMA InvInit == Init => Inv
  <1> SUFFICES ASSUME Init PROVE Inv
    OBVIOUS
  <1>1. TypeOK
    BY TypeInit
  <1>2. ASSUME NEW r \in Requests PROVE RequestInv(r)
    <2>1. pc[r] = "idle" /\ first[r] = {} /\ cand[r] = {} /\ sends[r] = NoSends
          /\ outcome[r] = "none"
      BY DEF Init
    <2>2. \A s \in Backends : sends[r][s] = 0
      BY <2>1 DEF NoSends
    <2> QED BY <2>1, <2>2, BoundAssumption
               DEF RequestInv, NotRouted, FailingOver, Serving, OnVllm, Bounded, Told
  <1> QED BY <1>1, <1>2 DEF Inv

(* A contact makes a member of the list the chosen server, with one        *)
(* attempt more on record, and moves no other request.                     *)
LEMMA ContactEffect ==
    ASSUME TypeOK, NEW r \in Requests, NEW S \in SUBSET Backends, NEW i, Contact(r, S, i)
    PROVE  /\ chosen'[r] \in S
           /\ pc'[r] = IF chosen'[r] \in Vllm THEN "vllm" ELSE "direct"
           /\ sends'[r] = [sends[r] EXCEPT ![chosen'[r]] = @ + 1]
           /\ \A q \in Requests \ {r} :
                chosen'[q] = chosen[q] /\ pc'[q] = pc[q] /\ sends'[q] = sends[q]
  BY DEF Contact, TypeOK

(* One server leaves the list in a round.                                  *)
LEMMA RestCardinality ==
    ASSUME TypeOK, NEW r \in Requests, chosen[r] \in cand[r]
    PROVE  Cardinality(Rest(r)) = Cardinality(cand[r]) - 1
  <1>1. IsFiniteSet(cand[r])
    BY SubsetCardinality DEF TypeOK
  <1> QED BY <1>1, FS_RemoveElement DEF Rest

(* The range of the loop, fixed at its start, ends with the list.          *)
LEMMA LoopEnds ==
    ASSUME Inv, NEW r \in Requests, pc[r] \in Serving, Rest(r) = {} \/ RangeOver(r)
    PROVE  Rest(r) = {}
  <1>1. SUFFICES ASSUME RangeOver(r) PROVE Rest(r) = {}
    OBVIOUS
  <1>2. /\ chosen[r] \in cand[r] /\ TypeOK
        /\ att[r] + Cardinality(cand[r]) = Cardinality(first[r])
    BY DEF Inv, RequestInv, FailingOver
  <1>3. /\ Rest(r) \in SUBSET Backends
        /\ Cardinality(cand[r]) \in Nat /\ Cardinality(first[r]) \in Nat
        /\ att[r] \in Nat
    BY <1>2, SubsetCardinality DEF Rest, TypeOK
  <1>4. Cardinality(Rest(r)) = 0
    BY <1>1, <1>2, <1>3, RestCardinality DEF RangeOver
  <1> QED BY <1>3, <1>4, SubsetCardinality

(* A round of the failover loop that ends in failure.                      *)
LEMMA TryNextInv ==
    ASSUME Inv, NEW r \in Requests, pc[r] \in Serving, TryNext(r), UNCHANGED <<first, tries>>
    PROVE  \A q \in Requests : RequestInv(q)'
  <1> USE DEF Inv
  <1>1. /\ chosen[r] \in cand[r]
        /\ cand[r] \subseteq first[r]
        /\ att[r] + Cardinality(cand[r]) = Cardinality(first[r])
        /\ \A s \in first[r] \ cand[r] : sends[r][s] > 0
        /\ \A s \in cand[r] \ {chosen[r]} : sends[r][s] = 0
        /\ sends[r][chosen[r]] = Attempts(r)
    BY DEF RequestInv, FailingOver
  <1>2. sends[r][chosen[r]] > 0
    BY <1>1, BoundAssumption DEF Attempts, TypeOK
  <1>3. /\ first[r] \in SUBSET Backends /\ cand[r] \in SUBSET Backends
        /\ Rest(r) \in SUBSET Backends
        /\ IsFiniteSet(cand[r])
        /\ Cardinality(cand[r]) \in Nat
        /\ Cardinality(first[r]) \in Nat
        /\ att[r] \in Nat
    BY SubsetCardinality DEF Rest, TypeOK
  <1>4. Cardinality(Rest(r)) = Cardinality(cand[r]) - 1
    BY <1>1, RestCardinality
  <1>5. \A s \in first[r] \ Rest(r) : sends[r][s] > 0
    BY <1>1, <1>2 DEF Rest
  <1>6. /\ cand'[r] = Rest(r)
        /\ \A q \in Requests \ {r} : cand'[q] = cand[q]
    BY DEF TryNext, TypeOK
  <1>7. Bounded(r)
    BY DEF RequestInv
  <1>8. outcome[r] = "none"
    BY DEF RequestInv, Told, Serving
  <1>9. CASE Rest(r) = {} \/ RangeOver(r)
    <2>1. Rest(r) = {}
      BY <1>9, LoopEnds
    <2>2. UNCHANGED <<att, chosen, sends>> /\ Finish(r, "exhausted")
      BY <1>9 DEF TryNext
    <2>3. pc'[r] = "done" /\ outcome'[r] = "exhausted"
      BY <2>2 DEF Finish, TypeOK
    <2>4. RequestInv(r)'
      BY <1>5, <1>7, <2>1, <2>2, <2>3
         DEF RequestInv, NotRouted, FailingOver, Serving, OnVllm, Bounded, Told
    <2>5. ASSUME NEW q \in Requests \ {r} PROVE RequestInv(q)'
      <3>1. Unmoved(q)
        BY <1>6, <2>2 DEF Unmoved, Finish, TypeOK
      <3> QED BY <3>1, Frame
    <2> QED BY <2>4, <2>5
  <1>10. CASE ~(Rest(r) = {} \/ RangeOver(r))
    <2> DEFINE next == Modulo(Modulo(cur[r] + att[r], cand[r]), Rest(r))
    <2>1. /\ Contact(r, Rest(r), Modulo(next + att[r] + 1, Rest(r)))
          /\ att' = [att EXCEPT ![r] = @ + 1]
          /\ UNCHANGED outcome
      BY <1>10 DEF TryNext
    <2>2. /\ chosen'[r] \in Rest(r)
          /\ pc'[r] = IF chosen'[r] \in Vllm THEN "vllm" ELSE "direct"
          /\ sends'[r] = [sends[r] EXCEPT ![chosen'[r]] = @ + 1]
          /\ \A q \in Requests \ {r} :
                chosen'[q] = chosen[q] /\ pc'[q] = pc[q] /\ sends'[q] = sends[q]
      BY <1>3, <2>1, ContactEffect
    <2>3. sends[r] \in [Backends -> Nat] /\ sends[r][chosen'[r]] = 0
      BY <1>1, <2>2 DEF Rest, TypeOK
    <2>4. /\ sends'[r][chosen'[r]] = 1
          /\ \A s \in Backends \ {chosen'[r]} : sends'[r][s] = sends[r][s]
      BY <1>3, <2>2, <2>3
    <2>5. FailingOver(r)'
      <3>1. att'[r] + Cardinality(cand'[r]) = Cardinality(first'[r])
        BY <1>1, <1>3, <1>4, <1>6, <2>1 DEF TypeOK
      <3>2. chosen'[r] \in cand'[r] /\ cand'[r] \subseteq first'[r]
        BY <1>1, <1>6, <2>2 DEF Rest
      <3>3. \A s \in first'[r] \ cand'[r] : sends'[r][s] > 0
        BY <1>3, <1>5, <1>6, <2>2, <2>4
      <3>4. \A s \in cand'[r] \ {chosen'[r]} : sends'[r][s] = 0
        BY <1>1, <1>3, <1>6, <2>4 DEF Rest
      <3>5. sends'[r][chosen'[r]] = Attempts(r)'
        BY <2>2, <2>4 DEF Attempts
      <3> QED BY <3>1, <3>2, <3>3, <3>4, <3>5 DEF FailingOver
    <2>6. Bounded(r)'
      BY <1>7, <2>4, BoundAssumption DEF Bounded
    <2>7. NotRouted(r)' /\ OnVllm(r)' /\ Told(r)'
      BY <1>8, <2>1, <2>2 DEF NotRouted, OnVllm, Told
    <2>8. ASSUME NEW q \in Requests \ {r} PROVE RequestInv(q)'
      <3>1. Unmoved(q)
        BY <1>6, <2>1, <2>2 DEF Unmoved, TypeOK
      <3> QED BY <3>1, Frame
    <2> QED BY <2>5, <2>6, <2>7, <2>8 DEF RequestInv
  <1> QED BY <1>9, <1>10

(* Every step keeps the invariant.                                         *)
LEMMA InvStep == Inv /\ [Next]_vars => Inv'
  <1> SUFFICES ASSUME Inv, [Next]_vars PROVE \A q \in Requests : RequestInv(q)'
    BY TypeStep DEF Inv
  <1> USE DEF Inv, registry, shared, arrival, loop
  <1>1. ASSUME NEW r \in Requests, Arrive(r), NEW q \in Requests PROVE RequestInv(q)'
    <2>1. CASE q # r
      BY <1>1, <2>1, Frame DEF Unmoved, Arrive, Finish, TypeOK
    <2>2. CASE q = r
      <3>1. /\ first'[r] = {} /\ cand'[r] = {} /\ sends'[r] = NoSends
            /\ \/ pc'[r] = "done" /\ outcome'[r] = "no_servers"
               \/ pc'[r] = "lookup" /\ outcome'[r] = "none"
        <4>1. CASE Active = {}
          BY <1>1, <4>1 DEF Arrive, Finish, TypeOK
        <4>2. CASE Active # {}
          BY <1>1, <4>2 DEF Arrive, TypeOK
        <4> QED BY <4>1, <4>2
      <3>2. \A s \in Backends : NoSends[s] = 0
        BY DEF NoSends
      <3> QED BY <2>2, <3>1, <3>2, BoundAssumption
                 DEF RequestInv, NotRouted, FailingOver, Serving, OnVllm, Bounded, Told
    <2> QED BY <2>1, <2>2
  <1>2. ASSUME NEW r \in Requests, Lookup(r), NEW q \in Requests PROVE RequestInv(q)'
    <2>1. CASE q # r
      BY <1>2, <2>1, Frame DEF Unmoved, Lookup, Finish, TypeOK
    <2>2. CASE q = r
      <3>1. /\ UNCHANGED <<first, loop, tries, sends>>
            /\ \/ pc'[r] = "done" /\ outcome'[r] = "lookup_error"
               \/ pc'[r] = "route" /\ outcome'[r] = outcome[r]
        BY <1>2 DEF Lookup, Finish, TypeOK
      <3>2. pc[r] = "lookup" /\ RequestInv(r)
        BY <1>2 DEF Lookup
      <3> QED BY <2>2, <3>1, <3>2
                 DEF RequestInv, NotRouted, FailingOver, Serving, OnVllm, Bounded, Told
    <2> QED BY <2>1, <2>2
  <1>3. ASSUME NEW r \in Requests, Route(r), NEW q \in Requests PROVE RequestInv(q)'
    <2> DEFINE C == Candidates(r)
               i == Modulo(rrIndex, C)
    <2>1. C \in SUBSET Backends
      BY DEF Candidates, OnlyHealthy, TypeOK
    <2>2. /\ pc[r] = "route" /\ Contact(r, C, i)
          /\ first' = [first EXCEPT ![r] = C]
          /\ cand' = [cand EXCEPT ![r] = C]
          /\ att' = [att EXCEPT ![r] = 0]
          /\ UNCHANGED <<tries, outcome>>
      BY <1>3 DEF Route
    <2> HIDE DEF C, i
    <2>3. /\ chosen'[r] \in C
          /\ pc'[r] = IF chosen'[r] \in Vllm THEN "vllm" ELSE "direct"
          /\ sends'[r] = [sends[r] EXCEPT ![chosen'[r]] = @ + 1]
          /\ \A p \in Requests \ {r} :
                chosen'[p] = chosen[p] /\ pc'[p] = pc[p] /\ sends'[p] = sends[p]
      BY <2>1, <2>2, ContactEffect
    <2>4. CASE q # r
      <3>1. Unmoved(q)
        BY <2>2, <2>3, <2>4 DEF Unmoved, TypeOK
      <3> QED BY <3>1, Frame
    <2>5. CASE q = r
      <3>1. first'[r] = C /\ cand'[r] = C /\ att'[r] = 0 /\ outcome'[r] = "none"
        BY <2>2 DEF TypeOK, RequestInv, Told
      <3>2. \A s \in Backends : sends'[r][s] = IF s = chosen'[r] THEN 1 ELSE 0
        BY <2>1, <2>2, <2>3 DEF RequestInv, NotRouted, NoSends
      <3>3. FailingOver(r)'
        <4>1. Cardinality(C) \in Nat
          BY <2>1, SubsetCardinality
        <4>2. sends'[r][chosen'[r]] = Attempts(r)'
          BY <2>1, <2>3, <3>2 DEF Attempts
        <4>3. \A s \in C \ {chosen'[r]} : sends'[r][s] = 0
          BY <2>1, <3>2
        <4> QED BY <2>3, <3>1, <4>1, <4>2, <4>3 DEF FailingOver
      <3>4. NotRouted(r)' /\ OnVllm(r)' /\ Told(r)'
        BY <2>3, <3>1 DEF NotRouted, OnVllm, Told
      <3>5. Bounded(r)'
        BY <3>2, BoundAssumption DEF Bounded
      <3> QED BY <2>5, <3>3, <3>4, <3>5 DEF RequestInv
    <2> QED BY <2>4, <2>5
  <1>4. ASSUME NEW r \in Requests, NEW q \in Requests,
               Answer(r) \/ VllmReplies(r) \/ VllmHTTPException(r)
        PROVE  RequestInv(q)'
    <2>1. /\ pc' = [pc EXCEPT ![r] = "done"]
          /\ \/ outcome' = [outcome EXCEPT ![r] = "answered"]
             \/ outcome' = [outcome EXCEPT ![r] = "vllm_error"]
          /\ UNCHANGED <<first, loop, tries, sends>>
      BY <1>4 DEF Answer, VllmReplies, VllmHTTPException, Finish
    <2>2. CASE q # r
      BY <2>1, <2>2, Frame DEF Unmoved, TypeOK
    <2>3. CASE q = r
      <3>1. pc'[r] = "done" /\ outcome'[r] \in {"answered", "vllm_error"} /\ RequestInv(r)
        BY <2>1 DEF TypeOK
      <3> QED BY <2>1, <2>3, <3>1
                 DEF RequestInv, NotRouted, FailingOver, Serving, OnVllm, Bounded, Told
    <2> QED BY <2>2, <2>3
  <1>5. ASSUME NEW r \in Requests, NEW q \in Requests,
               DirectFails(r) \/ RetryFails(r) \/ RetryAgain(r)
        PROVE  RequestInv(q)'
    <2>1. CASE q # r
      BY <1>5, <2>1, Frame DEF Unmoved, TypeOK, DirectFails, RetryFails, RetryAgain
    <2>2. CASE q = r
      <3>1. /\ pc[r] \in Serving /\ pc'[r] \in {"retry", "backoff"}
            /\ UNCHANGED <<first, loop, outcome>>
        BY <1>5 DEF DirectFails, RetryFails, RetryAgain, TypeOK, Serving
      <3>2. /\ chosen[r] \in cand[r] /\ sends[r][chosen[r]] = Attempts(r)
            /\ cand[r] \subseteq first[r]
            /\ \A s \in cand[r] \ {chosen[r]} : sends[r][s] = 0
            /\ \A s \in first[r] \ cand[r] : sends[r][s] > 0
        BY <3>1 DEF RequestInv, FailingOver
      <3>3. /\ sends'[r][chosen[r]] = Attempts(r)'
            /\ sends'[r][chosen[r]] <= MaxRetries + 2
            /\ \A s \in Backends \ {chosen[r]} : sends'[r][s] = sends[r][s]
        <4>1. tries[r] \in 0..MaxRetries /\ chosen[r] \in Backends
          BY DEF TypeOK
        <4>2. CASE DirectFails(r)
          BY <3>2, <4>1, <4>2, BoundAssumption DEF DirectFails, Attempts, TypeOK
        <4>3. CASE RetryFails(r)
          BY <3>2, <4>1, <4>3, BoundAssumption DEF RetryFails, MayRetry, Attempts, TypeOK
        <4>4. CASE RetryAgain(r)
          BY <3>2, <4>1, <4>4, BoundAssumption DEF RetryAgain, Attempts, TypeOK
        <4> QED BY <1>5, <4>2, <4>3, <4>4
      <3>4. FailingOver(r)'
        <4>1. first[r] \in SUBSET Backends
          BY DEF TypeOK
        <4>2. att[r] + Cardinality(cand[r]) = Cardinality(first[r])
          BY <3>1 DEF RequestInv, FailingOver
        <4> QED BY <3>1, <3>2, <3>3, <4>1, <4>2 DEF FailingOver
      <3>5. Bounded(r)'
        BY <3>1, <3>3 DEF Bounded, RequestInv
      <3>6. NotRouted(r)' /\ OnVllm(r)' /\ Told(r)'
        BY <3>1 DEF NotRouted, OnVllm, Told, RequestInv, Serving
      <3> QED BY <2>2, <3>4, <3>5, <3>6 DEF RequestInv
    <2> QED BY <2>1, <2>2
  <1>6. ASSUME NEW r \in Requests, NEW q \in Requests, RetryGivesUp(r) \/ VllmRaises(r)
        PROVE  RequestInv(q)'
    <2>1. pc[r] \in Serving /\ TryNext(r) /\ UNCHANGED <<first, tries>>
      BY <1>6 DEF RetryGivesUp, VllmRaises, Serving
    <2> QED BY <2>1, TryNextInv
  <1>7. ASSUME NEW q \in Requests,
               ChangeRegistry \/ UNCHANGED vars \/ \E s \in Backends : ExpireHealth(s)
        PROVE  RequestInv(q)'
    <2>1. UNCHANGED <<pc, arrival, loop, tries, sends, outcome>>
      BY <1>7 DEF ChangeRegistry, ExpireHealth, vars
    <2> QED BY <2>1, Frame DEF Unmoved
  <1> QED BY <1>1, <1>2, <1>3, <1>4, <1>5, <1>6, <1>7 DEF Next, Proceed

(* The inductive invariant: where a request stands in the failover loop,   *)
(* what its list still holds and what it has sent agree in every state.    *)
THEOREM Invariance == Spec => []Inv
  BY InvInit, InvStep, PTL DEF Spec

-----------------------------------------------------------------------------

(* "All backend servers unavailable" is told only after each candidate of  *)
(* the request was tried: the fixed range of the failover loop is never    *)
(* over before the shrinking list is empty.                                *)
THEOREM AllCandidatesTried == Spec => []ExhaustedMeansAllTried
  <1>1. Inv => ExhaustedMeansAllTried
    BY DEF Inv, RequestInv, Told, ExhaustedMeansAllTried
  <1> QED BY <1>1, Invariance, PTL

(* A request costs a server at most max_retries + 2 attempts.              *)
THEOREM AttemptsBounded == Spec => []SendsBounded
  <1>1. Inv => SendsBounded
    BY DEF Inv, RequestInv, Bounded, SendsBounded
  <1> QED BY <1>1, Invariance, PTL

(* The failover loop moves on to servers the request has not tried.        *)
THEOREM NoReturn == Spec => NeverReturns
  <1>1. ASSUME Inv, Next, NEW r \in Requests, chosen'[r] # chosen[r], pc[r] # "done"
        PROVE  sends[r][chosen'[r]] = 0
    <2> USE <1>1 DEF Inv, registry, shared, arrival, loop
    <2>1. ASSUME NEW q \in Requests, Arrive(q) PROVE sends[r][chosen'[r]] = 0
      <3>1. q = r /\ pc[r] = "idle"
        BY <1>1, <2>1 DEF Arrive, TypeOK
      <3>2. sends[r] = NoSends /\ chosen'[r] = Fallback
        BY <2>1, <3>1 DEF Arrive, TypeOK, RequestInv, NotRouted
      <3> QED BY <3>2 DEF NoSends, Backends
    <2>2. ASSUME NEW q \in Requests, Route(q) PROVE sends[r][chosen'[r]] = 0
      <3> DEFINE C == Candidates(q)
      <3>1. C \in SUBSET Backends
        BY DEF Candidates, OnlyHealthy, TypeOK
      <3>2. pc[q] = "route" /\ Contact(q, C, Modulo(rrIndex, C))
        BY <2>2 DEF Route
      <3> HIDE DEF C
      <3>3. q = r /\ chosen'[q] \in C
        BY <1>1, <3>1, <3>2, ContactEffect
      <3>4. sends[r] = NoSends
        BY <3>2, <3>3 DEF RequestInv, NotRouted
      <3> QED BY <3>1, <3>3, <3>4 DEF NoSends
    <2>3. ASSUME NEW q \in Requests, RetryGivesUp(q) \/ VllmRaises(q)
          PROVE  sends[r][chosen'[r]] = 0
      <3>1. pc[q] \in Serving /\ TryNext(q)
        BY <2>3 DEF RetryGivesUp, VllmRaises, Serving
      <3>2. PICK i : Contact(q, Rest(q), i)
        BY <1>1, <3>1 DEF TryNext
      <3>3. Rest(q) \in SUBSET Backends
        BY DEF Rest, TypeOK
      <3>4. q = r /\ chosen'[q] \in Rest(q)
        BY <1>1, <3>2, <3>3, ContactEffect
      <3> QED BY <3>1, <3>4 DEF RequestInv, FailingOver, Rest
    <2>4. ASSUME UNCHANGED chosen PROVE FALSE
      BY <1>1, <2>4
    <2> QED
      BY <1>1, <2>1, <2>2, <2>3, <2>4
         DEF Next, Proceed, Lookup, Answer, DirectFails, RetryFails, RetryAgain,
             VllmReplies, VllmHTTPException, ExpireHealth, ChangeRegistry
  <1>2. Inv /\ [Next]_vars =>
          [\A r \in Requests :
              chosen'[r] # chosen[r] /\ pc[r] # "done" => sends[r][chosen'[r]] = 0]_vars
    BY <1>1
  <1> QED BY <1>2, Invariance, PTL DEF Spec, NeverReturns

(* A request's first server is held unhealthy only if all its servers are. *)
THEOREM HealthyFirst == Spec => UnhealthyLastResort
  <1>1. ASSUME TypeOK, NEW r \in Requests, Route(r), chosen'[r] \in unhealthy
        PROVE  target[r] \subseteq unhealthy
    <2>1. Candidates(r) \in SUBSET Backends
      BY <1>1 DEF Candidates, OnlyHealthy, TypeOK
    <2>2. chosen'[r] \in Candidates(r)
      BY <1>1, <2>1, ContactEffect DEF Route
    <2> QED BY <1>1, <2>2 DEF Candidates, OnlyHealthy, HealthyCached
  <1>2. TypeOK /\ [Next]_vars =>
          [\A r \in Requests :
              Route(r) /\ chosen'[r] \in unhealthy => target[r] \subseteq unhealthy]_vars
    BY <1>1
  <1> QED BY <1>2, TypeCorrect, PTL DEF Spec, UnhealthyLastResort

-----------------------------------------------------------------------------

(* A step of request r changes the abstract state at r only.               *)
LEMMA AbstractFrame ==
    ASSUME NEW r \in Requests,
           \A q \in Requests \ {r} :
              pc'[q] = pc[q] /\ outcome'[q] = outcome[q] /\ cand'[q] = cand[q]
    PROVE  /\ Verdict' = [Verdict EXCEPT ![r] = Verdict'[r]]
           /\ Remaining' = [Remaining EXCEPT ![r] = cand'[r]]
  <1>1. \A q \in Requests \ {r} : Verdict'[q] = Verdict[q]
    BY DEF Verdict
  <1>2. Verdict = [q \in Requests |-> Verdict[q]] /\ Verdict' = [q \in Requests |-> Verdict'[q]]
    BY DEF Verdict
  <1>3. Verdict' = [Verdict EXCEPT ![r] = Verdict'[r]]
    BY <1>1, <1>2
  <1>4. Remaining' = [Remaining EXCEPT ![r] = cand'[r]]
    BY DEF Remaining
  <1> QED BY <1>3, <1>4

(* The worker starts where the contract starts.                            *)
LEMMA RefinementInit == Init => Contract!Init
  BY DEF Init, Contract!Init, Verdict, Remaining

(* Every step of the worker is a step of the contract or leaves what the   *)
(* contract sees alone.                                                    *)
LEMMA RefinementStep == Inv /\ [Next]_vars => [Contract!Next]_Contract!vars
  <1> SUFFICES ASSUME Inv, [Next]_vars PROVE [Contract!Next]_Contract!vars
    OBVIOUS
  <1> USE DEF Inv, registry, shared, arrival, loop
  <1>a. \A r \in Requests : Remaining[r] = cand[r]
    BY DEF Remaining
  <1>1. ASSUME NEW r \in Requests, Arrive(r) PROVE Contract!Next
    <2>1. /\ Verdict[r] # "serving"
          /\ cand'[r] = {}
          /\ Verdict'[r] = IF Active = {} THEN "refused" ELSE "waiting"
          /\ \A q \in Requests \ {r} :
                pc'[q] = pc[q] /\ outcome'[q] = outcome[q] /\ cand'[q] = cand[q]
      <3>1. pc[r] \in {"idle", "done"} /\ outcome[r] \in Outcomes
        BY <1>1 DEF Arrive, TypeOK
      <3>2. Verdict[r] # "serving"
        BY <3>1 DEF Verdict, Outcomes
      <3>3. CASE Active = {}
        <4>1. pc'[r] = "done" /\ outcome'[r] = "no_servers"
          BY <1>1, <3>3 DEF Arrive, Finish, TypeOK
        <4>2. Verdict'[r] = "refused"
          BY <4>1 DEF Verdict
        <4> QED BY <1>1, <3>2, <3>3, <4>2 DEF Arrive, Finish, TypeOK
      <3>4. CASE Active # {}
        <4>1. Verdict'[r] = "waiting"
          BY <1>1, <3>4 DEF Arrive, TypeOK, Verdict
        <4> QED BY <1>1, <3>2, <3>4, <4>1 DEF Arrive, TypeOK
      <3> QED BY <3>3, <3>4
    <2>2. Contract!Submit(r) \/ Contract!Refuse(r)
      BY <2>1, AbstractFrame DEF Contract!Submit, Contract!Refuse, Contract!Verdict
    <2> QED BY <2>2 DEF Contract!Next
  <1>2. ASSUME NEW r \in Requests, Lookup(r) PROVE [Contract!Next]_Contract!vars
    <2>1. /\ pc[r] = "lookup" /\ UNCHANGED cand
          /\ \A q \in Requests \ {r} : pc'[q] = pc[q] /\ outcome'[q] = outcome[q]
          /\ \/ pc'[r] = "done" /\ outcome'[r] = "lookup_error"
             \/ pc'[r] = "route"
      BY <1>2 DEF Lookup, Finish, TypeOK
    <2>2. Verdict[r] = "waiting" /\ cand[r] = {}
      BY <2>1 DEF Verdict, RequestInv, NotRouted
    <2>3. Verdict' = [Verdict EXCEPT ![r] = Verdict'[r]]
          /\ Remaining' = [Remaining EXCEPT ![r] = {}]
      BY <2>1, <2>2, AbstractFrame
    <2>4. CASE pc'[r] = "done" /\ outcome'[r] = "lookup_error"
      <3>1. Verdict'[r] = "refused"
        BY <2>4 DEF Verdict
      <3>2. Contract!Refuse(r)
        BY <2>2, <2>3, <3>1 DEF Contract!Refuse, Contract!Verdict
      <3> QED BY <3>2 DEF Contract!Next
    <2>5. CASE pc'[r] = "route"
      <3>1. Verdict'[r] = "waiting"
        BY <2>5 DEF Verdict
      <3>2. Contract!Submit(r)
        BY <2>2, <2>3, <3>1 DEF Contract!Submit, Contract!Verdict
      <3> QED BY <3>2 DEF Contract!Next
    <2> QED BY <2>1, <2>4, <2>5
  <1>3. ASSUME NEW r \in Requests, Route(r) PROVE Contract!Next
    <2> DEFINE C == Candidates(r)
    <2>1. C \in SUBSET Backends
      BY DEF Candidates, OnlyHealthy, TypeOK
    <2>2. /\ pc[r] = "route" /\ Contact(r, C, Modulo(rrIndex, C))
          /\ cand' = [cand EXCEPT ![r] = C] /\ UNCHANGED outcome
      BY <1>3 DEF Route
    <2> HIDE DEF C
    <2>3. /\ chosen'[r] \in C
          /\ pc'[r] \in {"vllm", "direct"}
          /\ \A q \in Requests \ {r} : pc'[q] = pc[q]
      BY <2>1, <2>2, ContactEffect
    <2>4. Verdict[r] = "waiting" /\ Verdict'[r] = "serving"
      BY <2>2, <2>3 DEF Verdict
    <2>5. /\ Verdict' = [Verdict EXCEPT ![r] = "serving"]
          /\ Remaining' = [Remaining EXCEPT ![r] = C]
      BY <2>2, <2>3, <2>4, AbstractFrame DEF TypeOK
    <2>6. C \in (SUBSET Backends) \ {{}}
      BY <2>1, <2>3
    <2>7. Contract!Accept(r)
      BY <2>4, <2>5, <2>6 DEF Contract!Accept, Contract!Verdict
    <2> QED BY <2>7 DEF Contract!Next
  <1>4. ASSUME NEW r \in Requests, Answer(r) \/ VllmReplies(r) \/ VllmHTTPException(r)
        PROVE  Contract!Next
    <2>1. /\ pc[r] \in Serving /\ UNCHANGED cand
          /\ pc' = [pc EXCEPT ![r] = "done"]
          /\ \/ outcome' = [outcome EXCEPT ![r] = "answered"]
             \/ outcome' = [outcome EXCEPT ![r] = "vllm_error"] /\ pc[r] = "vllm"
      BY <1>4 DEF Answer, VllmReplies, VllmHTTPException, Finish, Serving
    <2>2. /\ pc'[r] = "done"
          /\ \/ outcome'[r] = "answered"
             \/ outcome'[r] = "vllm_error" /\ pc[r] = "vllm"
          /\ \A q \in Requests \ {r} :
                pc'[q] = pc[q] /\ outcome'[q] = outcome[q] /\ cand'[q] = cand[q]
      BY <2>1 DEF TypeOK
    <2>3. Verdict[r] = "serving" /\ chosen[r] \in Remaining[r] /\ UNCHANGED Remaining
      BY <1>a, <2>1 DEF Verdict, Serving, RequestInv, FailingOver, Remaining
    <2>4. Verdict' = [Verdict EXCEPT ![r] = Verdict'[r]]
      BY <2>2, AbstractFrame
    <2>5. CASE outcome'[r] = "answered"
      <3>1. Verdict'[r] = "answered"
        BY <2>2, <2>5 DEF Verdict
      <3>2. Contract!Answer(r)
        BY <2>3, <2>4, <3>1 DEF Contract!Answer, Contract!Verdict
      <3> QED BY <3>2 DEF Contract!Next
    <2>6. CASE outcome'[r] = "vllm_error" /\ pc[r] = "vllm"
      <3>1. Verdict'[r] = "aborted"
        BY <2>2, <2>6 DEF Verdict
      <3>2. chosen[r] \in Vllm
        BY <2>6 DEF RequestInv, OnVllm
      <3>3. Contract!Abort(r)
        BY <2>3, <2>4, <3>1, <3>2 DEF Contract!Abort, Contract!Verdict
      <3> QED BY <3>3 DEF Contract!Next
    <2> QED BY <2>2, <2>5, <2>6
  <1>5. ASSUME NEW r \in Requests, DirectFails(r) \/ RetryFails(r) \/ RetryAgain(r)
        PROVE  UNCHANGED Contract!vars
    <2>1. /\ pc[r] \in Serving /\ pc'[r] \in Serving /\ UNCHANGED <<cand, outcome>>
          /\ \A q \in Requests \ {r} : pc'[q] = pc[q]
      BY <1>5 DEF DirectFails, RetryFails, RetryAgain, TypeOK, Serving
    <2>2. \A q \in Requests : Verdict'[q] = Verdict[q]
      BY <2>1 DEF Verdict, Serving
    <2>3. Verdict = [q \in Requests |-> Verdict[q]] /\ Verdict' = [q \in Requests |-> Verdict'[q]]
      BY DEF Verdict
    <2>4. UNCHANGED Verdict
      BY <2>2, <2>3
    <2> QED BY <2>1, <2>4 DEF Contract!vars, Remaining
  <1>6. ASSUME NEW r \in Requests, RetryGivesUp(r) \/ VllmRaises(r) PROVE Contract!Next
    <2>1. pc[r] \in Serving /\ TryNext(r)
      BY <1>6 DEF RetryGivesUp, VllmRaises, Serving
    <2>2. chosen[r] \in cand[r] /\ Verdict[r] = "serving"
      BY <2>1 DEF Verdict, Serving, RequestInv, FailingOver
    <2>3. /\ cand' = [cand EXCEPT ![r] = Rest(r)]
          /\ Rest(r) = cand[r] \ {chosen[r]}
          /\ Rest(r) \in SUBSET Backends
      BY <2>1 DEF TryNext, Rest, TypeOK
    <2>4. CASE Rest(r) = {} \/ RangeOver(r)
      <3>1. Rest(r) = {}
        BY <2>1, <2>4, LoopEnds
      <3>2. /\ pc' = [pc EXCEPT ![r] = "done"]
            /\ outcome' = [outcome EXCEPT ![r] = "exhausted"]
        BY <2>1, <2>4 DEF TryNext, Finish
      <3>3. Verdict'[r] = "exhausted" /\ cand[r] = {chosen[r]}
        BY <2>2, <2>3, <3>1, <3>2 DEF Verdict, TypeOK
      <3>4. /\ Verdict' = [Verdict EXCEPT ![r] = "exhausted"]
            /\ Remaining' = [Remaining EXCEPT ![r] = cand[r] \ {chosen[r]}]
        BY <2>3, <3>2, <3>3, AbstractFrame DEF TypeOK
      <3>5. Contract!ServerFails(r)
        BY <1>a, <2>2, <3>3, <3>4 DEF Contract!ServerFails, Contract!Verdict, Remaining
      <3> QED BY <3>5 DEF Contract!Next
    <2>5. CASE ~(Rest(r) = {} \/ RangeOver(r))
      <3>1. (\E i : Contact(r, Rest(r), i)) /\ UNCHANGED outcome
        BY <2>1, <2>5 DEF TryNext
      <3>2. pc'[r] \in {"vllm", "direct"} /\ \A q \in Requests \ {r} : pc'[q] = pc[q]
        BY <2>3, <3>1, ContactEffect
      <3>3. Verdict'[r] = "serving" /\ cand[r] # {chosen[r]}
        BY <2>3, <2>5, <3>2 DEF Verdict
      <3>4. /\ Verdict' = [Verdict EXCEPT ![r] = "serving"]
            /\ Remaining' = [Remaining EXCEPT ![r] = cand[r] \ {chosen[r]}]
        BY <2>3, <3>1, <3>2, <3>3, AbstractFrame DEF TypeOK
      <3>5. Contract!ServerFails(r)
        BY <1>a, <2>2, <3>3, <3>4 DEF Contract!ServerFails, Contract!Verdict, Remaining
      <3> QED BY <3>5 DEF Contract!Next
    <2> QED BY <2>4, <2>5
  <1>7. CASE ChangeRegistry \/ UNCHANGED vars \/ \E s \in Backends : ExpireHealth(s)
    <2>1. UNCHANGED <<pc, cand, outcome>>
      BY <1>7 DEF ChangeRegistry, ExpireHealth, vars
    <2> QED BY <2>1 DEF Contract!vars, Verdict, Remaining
  <1> QED BY <1>1, <1>2, <1>3, <1>4, <1>5, <1>6, <1>7 DEF Next, Proceed

(* The worker, with its indices, caches and retries, implements the        *)
(* contract a client sees: servers leave one at a time, each because it    *)
(* failed, and only an empty list exhausts a request.                      *)
THEOREM Refinement == Spec => FailoverContract
  BY RefinementInit, RefinementStep, Invariance, PTL
     DEF Spec, FailoverContract, Contract!Spec

-----------------------------------------------------------------------------
(* Indices.  The list of a request shrinks while the loop's index jumps;   *)
(* each index, taken modulo the length of the list, still has a server.    *)
Picks(S, i) == \E s \in S : Position(S, s) = i

(* The positions of a list of n servers are those from 0 to n - 1: they    *)
(* are all different, for no two servers have one rank.                    *)
LEMMA PositionsFill ==
    ASSUME NEW S \in SUBSET Backends, NEW i \in 0 .. Cardinality(S) - 1
    PROVE  Picks(S, i)
  <1> DEFINE n == Cardinality(S)
             Before(s) == {t \in S : Rank[t] < Rank[s]}
             f == [s \in S |-> Position(S, s)]
  <1>1. n \in Nat /\ IsFiniteSet(S)
    BY SubsetCardinality
  <1>2. \A s \in S : Rank[s] \in Nat
    BY RankAssumption
  <1>3. ASSUME NEW s \in S
        PROVE  /\ IsFiniteSet(Before(s)) /\ Cardinality(Before(s)) \in Nat
               /\ Cardinality(Before(s)) < n
    <2>1. s \notin Before(s) /\ Before(s) \in SUBSET S
      BY <1>2
    <2>2. IsFiniteSet(Before(s)) /\ Cardinality(Before(s)) <= n
      BY <1>1, <2>1, FS_Subset
    <2>3. Cardinality(Before(s)) # n
      BY <1>1, <2>1, FS_Subset
    <2>4. Cardinality(Before(s)) \in Nat
      BY <2>2, FS_CardinalityType
    <2> QED BY <1>1, <2>2, <2>3, <2>4
  <1>4. ASSUME NEW s \in S, NEW t \in S, Rank[s] < Rank[t]
        PROVE  Cardinality(Before(s)) < Cardinality(Before(t))
    <2>1. Before(s) \in SUBSET Before(t) /\ s \in Before(t) /\ s \notin Before(s)
      BY <1>2, <1>4
    <2>2. IsFiniteSet(Before(t)) /\ Cardinality(Before(t)) \in Nat
      BY <1>3
    <2>3. Cardinality(Before(s)) <= Cardinality(Before(t))
      BY <2>1, <2>2, FS_Subset
    <2>4. Cardinality(Before(s)) # Cardinality(Before(t))
      BY <2>1, <2>2, FS_Subset
    <2>5. Cardinality(Before(s)) \in Nat
      BY <1>3
    <2> HIDE DEF Before
    <2> QED BY <2>2, <2>3, <2>4, <2>5
  <1>5. \A s \in S : Position(S, s) = Cardinality(Before(s))
    BY DEF Position
  <1> HIDE DEF Before
  <1>6. \A s \in S : Position(S, s) \in 0 .. n - 1
    BY <1>1, <1>3, <1>5
  <1>7. ASSUME NEW s \in S, NEW t \in S, Position(S, s) = Position(S, t)
        PROVE  s = t
    <2>1. Cardinality(Before(s)) = Cardinality(Before(t)) /\ Cardinality(Before(s)) \in Nat
      BY <1>3, <1>5, <1>7
    <2>2. ~(Rank[s] < Rank[t]) /\ ~(Rank[t] < Rank[s])
      BY <1>4, <2>1
    <2>3. Rank[s] = Rank[t]
      BY <1>2, <2>2
    <2> QED BY <2>3, RankAssumption
  <1>8. f \in Injection(S, 0 .. n - 1)
    BY <1>6, <1>7 DEF Injection, IsInjective
  <1>9. IsFiniteSet(0 .. n - 1) /\ Cardinality(0 .. n - 1) = n
    BY <1>1, FS_Interval
  <1>10. f \in Surjection(S, 0 .. n - 1)
    BY <1>8, <1>9, FS_Injection
  <1>11. PICK s \in S : f[s] = i
    BY <1>10 DEF Surjection
  <1> QED BY <1>11 DEF Picks

LEMMA IndexPicks ==
    ASSUME NEW S \in SUBSET Backends, S # {}, NEW i \in Nat
    PROVE  Picks(S, Modulo(i, S))
  <1>1. Cardinality(S) \in Nat \ {0}
    BY SubsetCardinality
  <1>2. Modulo(i, S) \in 0 .. Cardinality(S) - 1
    BY <1>1 DEF Modulo
  <1> QED BY <1>2, PositionsFill

(* A request that is looking for its servers has some.                     *)
HasTargets(r) == pc[r] \in {"lookup", "route"} => target[r] # {}

TargetsInv == TypeOK /\ \A r \in Requests : HasTargets(r)

LEMMA TargetsStep == TargetsInv /\ [Next]_vars => TargetsInv'
  <1> SUFFICES ASSUME TargetsInv, [Next]_vars, NEW q \in Requests PROVE HasTargets(q)'
    BY TypeStep DEF TargetsInv
  <1> USE DEF TargetsInv, registry, shared, arrival, loop
  <1>1. ASSUME pc'[q] = pc[q], target'[q] = target[q] PROVE HasTargets(q)'
    BY <1>1 DEF HasTargets
  <1>2. ASSUME NEW r \in Requests, Arrive(r) PROVE HasTargets(q)'
    <2>1. CASE q # r
      BY <1>1, <1>2, <2>1 DEF Arrive, Finish, TypeOK
    <2>2. CASE q = r /\ Active = {}
      BY <1>2, <2>2 DEF Arrive, Finish, TypeOK, HasTargets
    <2>3. CASE q = r /\ Active # {}
      BY <1>2, <2>3 DEF Arrive, TypeOK, HasTargets
    <2> QED BY <2>1, <2>2, <2>3
  <1>3. ASSUME NEW r \in Requests, Lookup(r) PROVE HasTargets(q)'
    <2>1. \/ UNCHANGED target
          \/ target' = [target EXCEPT ![r] = {Fallback}]
      BY <1>3 DEF Lookup
    <2>2. pc[r] = "lookup" /\ (q # r => pc'[q] = pc[q])
      BY <1>3 DEF Lookup, Finish, TypeOK
    <2>3. target'[q] = target[q] \/ (q = r /\ target'[q] = {Fallback})
      BY <2>1 DEF TypeOK
    <2> QED BY <2>2, <2>3 DEF HasTargets
  <1>4. ASSUME NEW r \in Requests,
               \/ Route(r) \/ Answer(r) \/ DirectFails(r) \/ RetryFails(r) \/ RetryAgain(r)
               \/ RetryGivesUp(r) \/ VllmReplies(r) \/ VllmHTTPException(r) \/ VllmRaises(r)
        PROVE  HasTargets(q)'
    <2>1. UNCHANGED target
      BY <1>4 DEF Route, Answer, DirectFails, RetryFails, RetryAgain, RetryGivesUp,
                  VllmReplies, VllmHTTPException, VllmRaises
    <2>2. \E to \in {"done", "retry", "backoff", "direct", "vllm"} : pc' = [pc EXCEPT ![r] = to]
      BY <1>4 DEF Route, Answer, DirectFails, RetryFails, RetryAgain, RetryGivesUp,
                  VllmReplies, VllmHTTPException, VllmRaises, TryNext, Finish, Contact
    <2> QED BY <1>1, <2>1, <2>2 DEF TypeOK, HasTargets
  <1>5. CASE \/ UNCHANGED vars \/ ChangeRegistry
             \/ \E s \in Backends : ExpireHealth(s)
    BY <1>1, <1>5 DEF vars, ChangeRegistry, ExpireHealth
  <1> QED BY <1>2, <1>3, <1>4, <1>5 DEF Next, Proceed

(* The index of the first choice, and that of the choice after a failure.  *)
FirstIndex(r) == Modulo(rrIndex, Candidates(r))
NextIndex(r) ==
    Modulo(Modulo(Modulo(cur[r] + att[r], cand[r]), Rest(r)) + att[r] + 1, Rest(r))

(* Each index the code computes picks one server of the list it is for.    *)
IndicesInRange ==
    \A r \in Requests :
        /\ pc[r] = "route" => Picks(Candidates(r), FirstIndex(r))
        /\ pc[r] \in Serving /\ Rest(r) # {} => Picks(Rest(r), NextIndex(r))

(* candidate_servers is never indexed out of its range and never empty     *)
(* when a server is to be picked, whatever other requests have made of the *)
(* worker's index and however many servers have left the list.             *)
THEOREM AlwaysAServer == Spec => []IndicesInRange
  <1>1. Init => TargetsInv
    BY TypeInit DEF Init, TargetsInv, HasTargets
  <1>2. TargetsInv => IndicesInRange
    <2> SUFFICES ASSUME TargetsInv, NEW r \in Requests
                 PROVE  /\ pc[r] = "route" => Picks(Candidates(r), FirstIndex(r))
                        /\ Rest(r) # {} => Picks(Rest(r), NextIndex(r))
      BY DEF IndicesInRange
    <2> USE DEF TargetsInv
    <2>1. ASSUME pc[r] = "route" PROVE Picks(Candidates(r), FirstIndex(r))
      <3>1. Candidates(r) # {} /\ Candidates(r) \in SUBSET Backends
        BY <2>1 DEF HasTargets, Candidates, OnlyHealthy, TypeOK
      <3>2. rrIndex \in Nat
        BY BackendsFinite DEF TypeOK
      <3> QED BY <3>1, <3>2, IndexPicks DEF FirstIndex
    <2>2. ASSUME Rest(r) # {} PROVE Picks(Rest(r), NextIndex(r))
      <3>1. Rest(r) \in SUBSET Backends /\ cand[r] \in SUBSET Backends
            /\ cur[r] \in Nat /\ att[r] \in Nat
        BY DEF Rest, TypeOK
      <3> DEFINE here == Modulo(cur[r] + att[r], cand[r])
                 next == Modulo(here, Rest(r))
      <3>2. here \in Nat
        BY <3>1, ModuloRange
      <3>3. next \in Nat
        BY <3>1, <3>2, ModuloRange
      <3>4. next + att[r] + 1 \in Nat
        BY <3>1, <3>3
      <3> QED BY <2>2, <3>1, <3>4, IndexPicks DEF NextIndex
    <2> QED BY <2>1, <2>2
  <1> QED BY <1>1, <1>2, TargetsStep, PTL DEF Spec

-----------------------------------------------------------------------------
(* Termination.  StepsLeft bounds the steps a request still takes: two     *)
(* before its first contact, and for each server that is left those of the *)
(* direct attempt, of max_retries + 1 attempts in the retry loop and of    *)
(* the sleeps between them.                                                *)
PerServer == 2 * MaxRetries + 2

AtServer(r) ==
    CASE pc[r] = "retry" -> 2 * (MaxRetries - tries[r]) + 1
      [] pc[r] = "backoff" -> 2 * (MaxRetries - tries[r]) + 2
      [] OTHER -> PerServer

StepsLeft(r) ==
    CASE pc[r] = "lookup" -> Cardinality(target[r]) * PerServer + 2
      [] pc[r] = "route" -> Cardinality(target[r]) * PerServer + 1
      [] pc[r] \in Serving -> (Cardinality(cand[r]) - 1) * PerServer + AtServer(r)
      [] OTHER -> 0

(* In a sleep there has been an attempt.                                   *)
Slept(r) == pc[r] = "backoff" => tries[r] > 0

WorkInv == Inv /\ TargetsInv /\ \A r \in Requests : Slept(r)

LEMMA SleptStep ==
    ASSUME TypeOK, [Next]_vars, \A r \in Requests : Slept(r), NEW q \in Requests
    PROVE  Slept(q)'
  <1> USE DEF registry, shared, arrival, loop
  <1>1. ASSUME NEW r \in Requests,
               \/ Arrive(r) \/ Lookup(r) \/ Route(r) \/ Answer(r) \/ DirectFails(r)
               \/ RetryAgain(r) \/ RetryGivesUp(r)
               \/ VllmReplies(r) \/ VllmHTTPException(r) \/ VllmRaises(r)
        PROVE  Slept(q)'
    <2>1. \E to \in {"done", "lookup", "route", "retry", "direct", "vllm"} :
              pc' = [pc EXCEPT ![r] = to]
      BY <1>1 DEF Arrive, Lookup, Route, Answer, DirectFails, RetryAgain, RetryGivesUp,
                  VllmReplies, VllmHTTPException, VllmRaises, TryNext, Finish, Contact
    <2>2. UNCHANGED tries \/ \E n : tries' = [tries EXCEPT ![r] = n]
      BY <1>1 DEF Arrive, Lookup, Route, Answer, DirectFails, RetryAgain, RetryGivesUp,
                  VllmReplies, VllmHTTPException, VllmRaises
    <2> QED BY <2>1, <2>2 DEF TypeOK, Slept
  <1>2. ASSUME NEW r \in Requests, RetryFails(r)
        PROVE  Slept(q)'
    <2>1. pc' = [pc EXCEPT ![r] = "backoff"] /\ tries' = [tries EXCEPT ![r] = @ + 1]
      BY <1>2 DEF RetryFails
    <2>2. tries[r] \in 0 .. MaxRetries
      BY DEF TypeOK
    <2>3. tries[r] + 1 > 0
      BY <2>2, BoundAssumption
    <2> QED BY <2>1, <2>3 DEF TypeOK, Slept
  <1>3. CASE \/ UNCHANGED vars \/ ChangeRegistry
             \/ \E s \in Backends : ExpireHealth(s)
    BY <1>3 DEF vars, ChangeRegistry, ExpireHealth, Slept
  <1> QED BY <1>1, <1>2, <1>3 DEF Next, Proceed

LEMMA WorkInvariance == Spec => []WorkInv
  <1>1. Init => WorkInv
    BY InvInit, TypeInit DEF Init, WorkInv, TargetsInv, HasTargets, Slept
  <1>2. WorkInv /\ [Next]_vars => WorkInv'
    <2>1. WorkInv /\ [Next]_vars => \A q \in Requests : Slept(q)'
      BY SleptStep DEF WorkInv, Inv
    <2> QED BY <2>1, InvStep, TargetsStep DEF WorkInv
  <1> QED BY <1>1, <1>2, PTL DEF Spec

(* Products with the constant PerServer.                                   *)
LEMMA Products ==
    ASSUME NEW m \in Nat, NEW n \in Nat, m <= n
    PROVE  /\ PerServer \in Nat \ {0}
           /\ m * PerServer \in Nat /\ n * PerServer \in Nat
           /\ m * PerServer <= n * PerServer
           /\ m < n => m * PerServer + PerServer <= n * PerServer
  <1>1. PerServer \in Nat \ {0}
    BY BoundAssumption DEF PerServer
  <1> HIDE DEF PerServer
  <1>2. PICK d \in Nat : n = m + d
    <2>1. n - m \in Nat /\ n = m + (n - m)
      OBVIOUS
    <2> QED BY <2>1
  <1>3. \A k \in Nat : k * PerServer \in Nat
    BY <1>1
  <1>4. n * PerServer = m * PerServer + d * PerServer
    BY <1>1, <1>2
  <1>5. m * PerServer <= n * PerServer
    BY <1>2, <1>3, <1>4
  <1>6. ASSUME m < n PROVE m * PerServer + PerServer <= n * PerServer
    <2>1. d - 1 \in Nat /\ d = (d - 1) + 1
      BY <1>2, <1>6
    <2>2. d * PerServer = (d - 1) * PerServer + PerServer
      BY <1>1, <2>1
    <2>3. (d - 1) * PerServer \in Nat
      BY <1>3, <2>1
    <2> QED BY <1>1, <1>3, <1>4, <2>2, <2>3
  <1> QED BY <1>1, <1>3, <1>5, <1>6

(* The part of the bound that is for the chosen server.                    *)
LEMMA AtServerRange ==
    ASSUME TypeOK, NEW r \in Requests, Slept(r)
    PROVE  AtServer(r) \in 1 .. PerServer
  <1>1. tries[r] \in 0 .. MaxRetries /\ MaxRetries \in Nat
    BY BoundAssumption DEF TypeOK
  <1>2. pc[r] = "backoff" => tries[r] > 0
    BY DEF Slept
  <1> QED BY <1>1, <1>2 DEF AtServer, PerServer

(* Another server: what is left is what was left without the failed one.   *)
LEMMA TryNextWork ==
    ASSUME WorkInv, NEW r \in Requests, pc[r] \in Serving, TryNext(r)
    PROVE  StepsLeft(r)' < StepsLeft(r)
  <1> DEFINE n == Cardinality(cand[r])
  <1>1. /\ TypeOK /\ chosen[r] \in cand[r] /\ Slept(r)
        /\ cand[r] \in SUBSET Backends /\ Rest(r) \in SUBSET Backends
    BY DEF WorkInv, Inv, RequestInv, FailingOver, TypeOK, Rest
  <1>2. n \in Nat \ {0} /\ Cardinality(Rest(r)) = n - 1
    BY <1>1, SubsetCardinality, RestCardinality
  <1>3. AtServer(r) \in 1 .. PerServer
    BY <1>1, AtServerRange
  <1>4. StepsLeft(r) = (n - 1) * PerServer + AtServer(r)
    BY DEF StepsLeft, Serving
  <1>5. (n - 1) * PerServer \in Nat /\ PerServer \in Nat
    BY <1>2, Products
  <1>6. CASE Rest(r) = {} \/ RangeOver(r)
    <2>1. pc'[r] = "done"
      BY <1>1, <1>6 DEF TryNext, Finish, TypeOK
    <2>2. StepsLeft(r)' = 0
      BY <2>1 DEF StepsLeft, Serving
    <2> HIDE DEF n
    <2> QED BY <1>3, <1>4, <1>5, <2>2
  <1>7. CASE ~(Rest(r) = {} \/ RangeOver(r))
    <2>1. cand'[r] = Rest(r)
      BY <1>1 DEF TryNext, TypeOK
    <2>2. PICK i : Contact(r, Rest(r), i)
      BY <1>7 DEF TryNext
    <2>3. pc'[r] \in {"direct", "vllm"}
      BY <1>1, <2>2, ContactEffect
    <2>4. AtServer(r)' = PerServer
      BY <2>3 DEF AtServer, PerServer
    <2>5. StepsLeft(r)' = (Cardinality(Rest(r)) - 1) * PerServer + PerServer
      BY <2>1, <2>3, <2>4 DEF StepsLeft, Serving, PerServer
    <2>6. Cardinality(Rest(r)) # 0
      BY <1>1, <1>7, SubsetCardinality
    <2>7. n - 2 \in Nat /\ n - 1 \in Nat /\ n - 2 < n - 1
      BY <1>2, <2>6
    <2>8. (n - 2) * PerServer + PerServer <= (n - 1) * PerServer
          /\ (n - 2) * PerServer \in Nat
      BY <2>7, Products
    <2>9. StepsLeft(r)' = (n - 2) * PerServer + PerServer
      BY <1>2, <2>5
    <2> HIDE DEF n
    <2> QED BY <1>3, <1>4, <1>5, <2>8, <2>9
  <1> QED BY <1>6, <1>7

(* Each step of a request leaves fewer.                                    *)
LEMMA ProceedWork ==
    ASSUME WorkInv, NEW r \in Requests, Proceed(r)
    PROVE  StepsLeft(r)' < StepsLeft(r)
  <1> USE DEF registry, shared, arrival, loop
  <1>1. /\ TypeOK /\ Slept(r)
        /\ cand[r] \in SUBSET Backends /\ target[r] \in SUBSET Backends
    BY DEF WorkInv, Inv, TypeOK
  <1>2. /\ Cardinality(target[r]) * PerServer \in Nat
        /\ PerServer \in Nat \ {0}
        /\ Cardinality(cand[r]) # 0 => (Cardinality(cand[r]) - 1) * PerServer \in Nat
    <2>1. Cardinality(target[r]) \in Nat /\ Cardinality(cand[r]) \in Nat
      BY <1>1, SubsetCardinality
    <2>2. Cardinality(cand[r]) # 0 => Cardinality(cand[r]) - 1 \in Nat
      BY <2>1
    <2> QED BY <2>1, <2>2, Products
  <1>3. pc[r] \in Serving => (Cardinality(cand[r]) - 1) * PerServer \in Nat
    <2>1. pc[r] \in Serving => cand[r] # {}
      BY DEF WorkInv, Inv, RequestInv, FailingOver
    <2> QED BY <1>1, <1>2, <2>1, SubsetCardinality
  <1>4. AtServer(r) \in 1 .. PerServer
    BY <1>1, AtServerRange
  <1>5. ASSUME pc[r] \in {"lookup", "route"} \union Serving, pc'[r] = "done"
        PROVE  StepsLeft(r)' < StepsLeft(r)
    <2>1. StepsLeft(r)' = 0
      BY <1>5 DEF StepsLeft, Serving
    <2>2. \/ StepsLeft(r) = Cardinality(target[r]) * PerServer + 2
          \/ StepsLeft(r) = Cardinality(target[r]) * PerServer + 1
          \/ /\ pc[r] \in Serving
             /\ StepsLeft(r) = (Cardinality(cand[r]) - 1) * PerServer + AtServer(r)
      BY <1>5 DEF StepsLeft, Serving
    <2> QED BY <1>2, <1>3, <1>4, <2>1, <2>2
  <1>6. ASSUME Lookup(r) PROVE StepsLeft(r)' < StepsLeft(r)
    <2>1. CASE pc'[r] = "done"
      BY <1>5, <1>6, <2>1 DEF Lookup
    <2>2. CASE pc'[r] # "done"
      <3>1. PICK k \in Kinds :
              /\ target' = IF k = "cloud" THEN [target EXCEPT ![r] = {Fallback}] ELSE target
              /\ pc' = [pc EXCEPT ![r] = "route"]
        BY <1>1, <1>6, <2>2 DEF Lookup, Finish, TypeOK
      <3>2. pc'[r] = "route" /\ pc[r] = "lookup"
        BY <1>1, <1>6, <3>1 DEF Lookup, TypeOK
      <3>3. target'[r] = target[r] \/ target'[r] = {Fallback}
        BY <1>1, <3>1 DEF TypeOK
      <3>4. target[r] # {}
        BY <3>2 DEF WorkInv, TargetsInv, HasTargets
      <3>5. Cardinality(target[r]) \in Nat \ {0}
        BY <1>1, <3>4, SubsetCardinality
      <3>6. Cardinality({Fallback}) = 1
        BY FS_Singleton
      <3>7. Cardinality(target'[r]) \in Nat /\ Cardinality(target'[r]) <= Cardinality(target[r])
        BY <3>3, <3>5, <3>6
      <3>8. /\ Cardinality(target'[r]) * PerServer <= Cardinality(target[r]) * PerServer
            /\ Cardinality(target'[r]) * PerServer \in Nat
        BY <3>5, <3>7, Products
      <3>9. StepsLeft(r) = Cardinality(target[r]) * PerServer + 2
        BY <3>2 DEF StepsLeft, Serving
      <3>10. StepsLeft(r)' = Cardinality(target'[r]) * PerServer + 1
        BY <3>2 DEF StepsLeft, Serving, PerServer
      <3> QED BY <1>2, <3>8, <3>9, <3>10
    <2> QED BY <2>1, <2>2
  <1>7. ASSUME Route(r) PROVE StepsLeft(r)' < StepsLeft(r)
    <2> DEFINE C == Candidates(r)
    <2>1. C \subseteq target[r] /\ C \in SUBSET Backends
      BY <1>1 DEF Candidates, OnlyHealthy
    <2>2. pc[r] = "route" /\ cand' = [cand EXCEPT ![r] = C]
          /\ Contact(r, C, Modulo(rrIndex, C))
      BY <1>7 DEF Route
    <2> HIDE DEF C
    <2>3. cand'[r] = C /\ C # {} /\ pc'[r] \in {"direct", "vllm"}
      BY <1>1, <2>1, <2>2, ContactEffect DEF TypeOK
    <2>4. AtServer(r)' = PerServer
      BY <2>3 DEF AtServer, PerServer
    <2>5. StepsLeft(r)' = (Cardinality(C) - 1) * PerServer + PerServer
      BY <2>3, <2>4 DEF StepsLeft, Serving, PerServer
    <2>6. StepsLeft(r) = Cardinality(target[r]) * PerServer + 1
      BY <2>2 DEF StepsLeft, Serving
    <2>7. /\ Cardinality(C) \in Nat \ {0} /\ Cardinality(target[r]) \in Nat
          /\ Cardinality(C) <= Cardinality(target[r])
      BY <1>1, <2>1, <2>3, SubsetCardinality, FS_Subset
    <2>8. Cardinality(C) - 1 \in Nat /\ Cardinality(C) - 1 < Cardinality(target[r])
      BY <2>7
    <2>9. (Cardinality(C) - 1) * PerServer + PerServer <= Cardinality(target[r]) * PerServer
          /\ (Cardinality(C) - 1) * PerServer \in Nat
      BY <2>7, <2>8, Products
    <2> QED BY <1>2, <2>5, <2>6, <2>9
  <1>8. ASSUME Answer(r) \/ VllmReplies(r) \/ VllmHTTPException(r)
        PROVE  StepsLeft(r)' < StepsLeft(r)
    <2>1. pc[r] \in Serving /\ pc'[r] = "done"
      BY <1>1, <1>8 DEF Answer, VllmReplies, VllmHTTPException, Finish, TypeOK, Serving
    <2> QED BY <1>5, <2>1
  <1>9. ASSUME UNCHANGED cand, pc[r] \in Serving, pc'[r] \in Serving,
               AtServer(r)' < AtServer(r), AtServer(r)' \in Int
        PROVE  StepsLeft(r)' < StepsLeft(r)
    <2>1. /\ StepsLeft(r) = (Cardinality(cand[r]) - 1) * PerServer + AtServer(r)
          /\ StepsLeft(r)' = (Cardinality(cand[r]) - 1) * PerServer + AtServer(r)'
      BY <1>9 DEF StepsLeft, Serving, PerServer
    <2>2. (Cardinality(cand[r]) - 1) * PerServer \in Nat
      BY <1>3, <1>9
    <2> QED BY <1>4, <1>9, <2>1, <2>2
  <1>10. ASSUME DirectFails(r) PROVE StepsLeft(r)' < StepsLeft(r)
    <2>1. pc[r] = "direct" /\ pc'[r] = "retry" /\ tries'[r] = 0 /\ UNCHANGED cand
      BY <1>1, <1>10 DEF DirectFails, TypeOK
    <2>2. AtServer(r) = PerServer /\ AtServer(r)' = 2 * (MaxRetries - 0) + 1
      BY <2>1 DEF AtServer
    <2>3. AtServer(r)' < AtServer(r) /\ AtServer(r)' \in Int
      BY <2>2, BoundAssumption DEF PerServer
    <2> QED BY <1>9, <2>1, <2>3 DEF Serving
  <1>11. ASSUME RetryFails(r) PROVE StepsLeft(r)' < StepsLeft(r)
    <2>1. pc[r] = "retry" /\ pc'[r] = "backoff" /\ tries'[r] = tries[r] + 1 /\ UNCHANGED cand
      BY <1>1, <1>11 DEF RetryFails, TypeOK
    <2>2. /\ AtServer(r) = 2 * (MaxRetries - tries[r]) + 1
          /\ AtServer(r)' = 2 * (MaxRetries - (tries[r] + 1)) + 2
      BY <2>1 DEF AtServer
    <2>3. tries[r] \in Nat /\ MaxRetries \in Nat
      BY <1>1, BoundAssumption DEF TypeOK
    <2>4. AtServer(r)' < AtServer(r) /\ AtServer(r)' \in Int
      BY <2>2, <2>3
    <2> QED BY <1>9, <2>1, <2>4 DEF Serving
  <1>12. ASSUME RetryAgain(r) PROVE StepsLeft(r)' < StepsLeft(r)
    <2>1. pc[r] = "backoff" /\ pc'[r] = "retry" /\ UNCHANGED <<tries, cand>>
      BY <1>1, <1>12 DEF RetryAgain, TypeOK
    <2>2. /\ AtServer(r) = 2 * (MaxRetries - tries[r]) + 2
          /\ AtServer(r)' = 2 * (MaxRetries - tries[r]) + 1
      BY <2>1 DEF AtServer
    <2>3. tries[r] \in Nat /\ MaxRetries \in Nat
      BY <1>1, BoundAssumption DEF TypeOK
    <2>4. AtServer(r)' < AtServer(r) /\ AtServer(r)' \in Int
      BY <2>2, <2>3
    <2> QED BY <1>9, <2>1, <2>4 DEF Serving
  <1>13. ASSUME RetryGivesUp(r) \/ VllmRaises(r) PROVE StepsLeft(r)' < StepsLeft(r)
    BY <1>13, TryNextWork DEF RetryGivesUp, VllmRaises, Serving
  <1> QED BY <1>6, <1>7, <1>8, <1>10, <1>11, <1>12, <1>13 DEF Proceed

(* A step of another request, of the cache or of the registry is none of   *)
(* this request's.                                                         *)
LEMMA OthersWork ==
    ASSUME WorkInv, Next, NEW r \in Requests, ~Arrive(r), ~Proceed(r)
    PROVE  StepsLeft(r)' = StepsLeft(r)
  <1> USE DEF registry, shared, arrival, loop
  <1>1. TypeOK
    BY DEF WorkInv, Inv
  <1>2. /\ pc'[r] = pc[r] /\ target'[r] = target[r] /\ cand'[r] = cand[r]
        /\ tries'[r] = tries[r]
    <2>1. ASSUME NEW q \in Requests, Arrive(q) \/ Proceed(q)
          PROVE  /\ pc'[r] = pc[r] /\ target'[r] = target[r] /\ cand'[r] = cand[r]
                 /\ tries'[r] = tries[r]
      <3>1. q # r
        BY <2>1
      <3>2. /\ \E x : pc' = [pc EXCEPT ![q] = x]
            /\ UNCHANGED target \/ \E x : target' = [target EXCEPT ![q] = x]
            /\ UNCHANGED cand \/ \E x : cand' = [cand EXCEPT ![q] = x]
            /\ UNCHANGED tries \/ \E x : tries' = [tries EXCEPT ![q] = x]
        BY <2>1 DEF Arrive, Proceed, Lookup, Route, Answer, DirectFails, RetryFails,
                    RetryAgain, RetryGivesUp, VllmReplies, VllmHTTPException, VllmRaises,
                    TryNext, Finish, Contact
      <3> QED BY <1>1, <3>1, <3>2 DEF TypeOK
    <2>2. ASSUME ChangeRegistry \/ \E s \in Backends : ExpireHealth(s)
          PROVE  UNCHANGED <<pc, target, cand, tries>>
      BY <2>2 DEF ChangeRegistry, ExpireHealth
    <2> QED BY <2>1, <2>2 DEF Next
  <1> QED BY <1>2 DEF StepsLeft, AtServer, Serving, PerServer

(* No request takes more than (number of servers + 1) * (2 * max_retries   *)
(* + 2) + 2 steps, and it is answered when none is left.                   *)
WorkBounded ==
    \A r \in Requests :
        /\ StepsLeft(r) \in 0 .. (Cardinality(Servers) + 1) * PerServer + 2
        /\ StepsLeft(r) = 0 => pc[r] \in {"idle", "done"}

(* The retries of one server and the failover from server to server        *)
(* together are finite: neither loop restarts the other one's count.       *)
THEOREM WorkIsBounded == Spec => []WorkBounded
  <1>1. WorkInv => WorkBounded
    <2> SUFFICES ASSUME WorkInv, NEW r \in Requests
                 PROVE  /\ StepsLeft(r) \in 0 .. (Cardinality(Servers) + 1) * PerServer + 2
                        /\ StepsLeft(r) = 0 => pc[r] \in {"idle", "done"}
      BY DEF WorkBounded
    <2> DEFINE all == Cardinality(Servers) + 1
    <2>1. /\ TypeOK /\ Slept(r) /\ all \in Nat
          /\ cand[r] \in SUBSET Backends /\ target[r] \in SUBSET Backends
      BY BackendsFinite DEF WorkInv, Inv, TypeOK
    <2>2. /\ Cardinality(target[r]) \in Nat /\ Cardinality(target[r]) <= all
          /\ Cardinality(cand[r]) \in Nat /\ Cardinality(cand[r]) <= all
          /\ pc[r] \in Serving => Cardinality(cand[r]) # 0
      BY <2>1, SubsetCardinality DEF WorkInv, Inv, RequestInv, FailingOver
    <2>3. AtServer(r) \in 1 .. PerServer
      BY <2>1, AtServerRange
    <2> HIDE DEF all
    <2>4. /\ PerServer \in Nat \ {0} /\ all * PerServer \in Nat
          /\ Cardinality(target[r]) * PerServer \in Nat
          /\ Cardinality(target[r]) * PerServer <= all * PerServer
      BY <2>1, <2>2, Products
    <2>5. CASE pc[r] \in {"lookup", "route"}
      <3>1. \/ StepsLeft(r) = Cardinality(target[r]) * PerServer + 2
            \/ StepsLeft(r) = Cardinality(target[r]) * PerServer + 1
        BY <2>5 DEF StepsLeft, Serving
      <3>2. StepsLeft(r) \in 0 .. all * PerServer + 2 /\ StepsLeft(r) # 0
        BY <2>4, <3>1
      <3> QED BY <3>2 DEF all
    <2>6. CASE pc[r] \in Serving
      <3>1. StepsLeft(r) = (Cardinality(cand[r]) - 1) * PerServer + AtServer(r)
        BY <2>6 DEF StepsLeft, Serving
      <3>2. Cardinality(cand[r]) - 1 \in Nat /\ Cardinality(cand[r]) - 1 < all
        BY <2>1, <2>2, <2>6
      <3>3. /\ (Cardinality(cand[r]) - 1) * PerServer \in Nat
            /\ (Cardinality(cand[r]) - 1) * PerServer + PerServer <= all * PerServer
        BY <2>1, <3>2, Products
      <3>4. StepsLeft(r) \in 0 .. all * PerServer + 2 /\ StepsLeft(r) # 0
        BY <2>3, <2>4, <3>1, <3>3
      <3> QED BY <3>4 DEF all
    <2>7. CASE pc[r] \in {"idle", "done"}
      <3>1. StepsLeft(r) = 0
        BY <2>7 DEF StepsLeft, Serving
      <3>2. StepsLeft(r) \in 0 .. all * PerServer + 2
        BY <2>4, <3>1
      <3> QED BY <2>7, <3>2 DEF all
    <2> QED BY <2>1, <2>5, <2>6, <2>7 DEF TypeOK, Phases, Serving
  <1> QED BY <1>1, WorkInvariance, PTL

(* Every step of a request leaves it fewer to take, and nothing another    *)
(* request, the cache or an administrator does gives it more: the safety   *)
(* half of AllAnswered.                                                    *)
WorkShrinks ==
    [][\A r \in Requests :
        /\ Proceed(r) => StepsLeft(r)' < StepsLeft(r)
        /\ ~Arrive(r) /\ ~Proceed(r) => StepsLeft(r)' = StepsLeft(r)]_vars

(* Failing over never gives back the retries that were spent, and a retry  *)
(* never gives back a server.                                              *)
THEOREM WorkDoesShrink == Spec => WorkShrinks
  <1>1. WorkInv /\ [Next]_vars =>
          [\A r \in Requests :
              /\ Proceed(r) => StepsLeft(r)' < StepsLeft(r)
              /\ ~Arrive(r) /\ ~Proceed(r) => StepsLeft(r)' = StepsLeft(r)]_vars
    BY ProceedWork, OthersWork
  <1> QED BY <1>1, WorkInvariance, PTL DEF Spec, WorkShrinks

=============================================================================
