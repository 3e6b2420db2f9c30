-------------------------- MODULE RoundRobinProofs --------------------------
(***************************************************************************)
(* Proof that a worker hands its requests to the servers in turn, for      *)
(* every number of servers, requests in flight and changes of the health   *)
(* cache between two routings.                                             *)
(***************************************************************************)
EXTENDS ReverseProxyHistory, ReverseProxyProofs

(* After a routing the index points behind the server it chose, and stays  *)
(* there until the next one.                                               *)
PointsBehind ==
    lastPick.among # {} =>
        /\ lastPick.among \in SUBSET Backends
        /\ lastPick.server \in lastPick.among
        /\ rrIndex = Modulo(Position(lastPick.among, lastPick.server) + 1, lastPick.among)

TurnInv == TypeOK /\ PointsBehind

(* An index of a list is itself modulo the length of the list.             *)
LEMMA ModuloTwice ==
  ASSUME NEW S \in SUBSET Backends, S # {}, NEW i \in Nat
  PROVE  Modulo(Modulo(i, S), S) = Modulo(i, S)
  <1>1. Cardinality(S) \in Nat \ {0}
    BY SubsetCardinality
  <1>2. i % Cardinality(S) \in 0 .. Cardinality(S) - 1
    BY <1>1
  <1>3. (i % Cardinality(S)) % Cardinality(S) = i % Cardinality(S)
    BY <1>1, <1>2
  <1> QED BY <1>3 DEF Modulo

LEMMA PositionNat ==
  ASSUME NEW S \in SUBSET Backends, NEW s
  PROVE  Position(S, s) \in Nat
  <1>1. {t \in S : Rank[t] < Rank[s]} \in SUBSET Backends
    OBVIOUS
  <1> QED BY <1>1, SubsetCardinality DEF Position

(* The choice of a routing, and where it leaves the index.                 *)
LEMMA RouteEffect ==
  ASSUME TypeOK, NEW r \in Requests, Route(r)
  PROVE  /\ first'[r] \in SUBSET Backends
         /\ chosen'[r] \in first'[r]
         /\ Position(first'[r], chosen'[r]) = Modulo(rrIndex, first'[r])
         /\ rrIndex' = Modulo(Position(first'[r], chosen'[r]) + 1, first'[r])
  <1> DEFINE C == Candidates(r)
  <1>1. C \in SUBSET Backends
    BY DEF Candidates, OnlyHealthy, TypeOK
  <1>2. /\ rrIndex' = AdvancedIndex(Modulo(rrIndex, C), C)
        /\ first' = [first EXCEPT ![r] = C]
        /\ Contact(r, C, Modulo(rrIndex, C))
    BY DEF Route
  <1> HIDE DEF C
  <1>3. first'[r] = C
    BY <1>2 DEF TypeOK
  <1>4. chosen'[r] \in C /\ Position(C, chosen'[r]) = Modulo(rrIndex, C)
    BY <1>2 DEF Contact, TypeOK
  <1> QED BY <1>1, <1>2, <1>3, <1>4 DEF AdvancedIndex

(* Nothing but a routing moves the index.                                  *)
LEMMA IndexStays ==
  ASSUME Next, \A r \in Requests : ~Route(r)
  PROVE  UNCHANGED rrIndex
  BY DEF Next, Proceed, Arrive, Lookup, Answer, DirectFails, RetryFails, RetryAgain,
         RetryGivesUp, VllmReplies, VllmHTTPException, VllmRaises, ExpireHealth,
         ChangeRegistry, shared

LEMMA TurnStep == TurnInv /\ [HNext]_hvars => TurnInv'
  <1> SUFFICES ASSUME TurnInv, [HNext]_hvars PROVE TurnInv'
    OBVIOUS
  <1>1. TypeOK'
    BY TypeStep DEF TurnInv, HNext, hvars
  <1>2. CASE UNCHANGED hvars
    BY <1>1, <1>2 DEF hvars, vars, shared, TurnInv, PointsBehind
  <1>3. CASE HNext /\ \A r \in Requests : ~Route(r)
    BY <1>1, <1>3, IndexStays DEF HNext, Remember, TurnInv, PointsBehind
  <1>4. CASE HNext /\ \E r \in Requests : Route(r)
    <2>1. PICK r \in Requests :
            Route(r) /\ lastPick' = [among |-> first'[r], server |-> chosen'[r]]
      BY <1>4 DEF HNext, Remember
    <2> QED BY <1>1, <2>1, RouteEffect DEF TurnInv, PointsBehind
  <1> QED BY <1>2, <1>3, <1>4

(* Two routings in a row over the same candidates pick neighbours in the   *)
(* list: no failure, retry, expiry or request in between moves the index.  *)
THEOREM InTurn == HSpec => RoundRobin
  <1>1. HInit => TurnInv
    BY TypeInit DEF HInit, TurnInv, PointsBehind
  <1>2. ASSUME TurnInv, NEW r \in Requests, Route(r), first'[r] = lastPick.among
        PROVE  Position(lastPick.among, chosen'[r])
                 = Modulo(Position(lastPick.among, lastPick.server) + 1, lastPick.among)
    <2> DEFINE C == lastPick.among
    <2>1. /\ C \in SUBSET Backends /\ C # {}
          /\ Position(C, chosen'[r]) = Modulo(rrIndex, C)
      BY <1>2, RouteEffect DEF TurnInv
    <2>2. rrIndex = Modulo(Position(C, lastPick.server) + 1, C)
      BY <1>2, <2>1 DEF TurnInv, PointsBehind
    <2>3. Position(C, lastPick.server) + 1 \in Nat
      BY <2>1, PositionNat
    <2> HIDE DEF C
    <2>4. Modulo(rrIndex, C) = rrIndex
      BY <2>1, <2>2, <2>3, ModuloTwice
    <2> QED BY <2>1, <2>2, <2>4 DEF C
  <1>3. TurnInv /\ [HNext]_hvars =>
          [\A r \in Requests :
              Route(r) /\ first'[r] = lastPick.among =>
                  Position(lastPick.among, chosen'[r])
                    = Modulo(Position(lastPick.among, lastPick.server) + 1,
                             lastPick.among)]_hvars
    BY <1>2
  <1> QED BY <1>1, <1>3, TurnStep, PTL DEF HSpec, RoundRobin
=============================================================================
