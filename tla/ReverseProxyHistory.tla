------------------------ MODULE ReverseProxyHistory ------------------------
(***************************************************************************)
(* ReverseProxy with a history variable, the last routing decision of the  *)
(* worker, to state how consecutive decisions relate.                      *)
(***************************************************************************)
EXTENDS ReverseProxy

VARIABLE lastPick   \* the candidates of the last routing and its choice

hvars == <<vars, lastPick>>

HInit == Init /\ lastPick = [among |-> {}, server |-> Fallback]

Remember ==
    lastPick' = IF \E r \in Requests : Route(r)
                THEN LET r == CHOOSE q \in Requests : Route(q)
                     IN  [among |-> first'[r], server |-> chosen'[r]]
                ELSE lastPick

HNext == Next /\ Remember

HSpec == HInit /\ [][HNext]_hvars /\ Fairness

(* Two routings in a row over the same candidates pick neighbours in the   *)
(* list, whatever the requests in flight do to the health cache, and to    *)
(* lists and indices of their own, in between.                             *)
RoundRobin ==
    [][\A r \in Requests :
        Route(r) /\ first'[r] = lastPick.among =>
            Position(lastPick.among, chosen'[r])
                = Modulo(Position(lastPick.among, lastPick.server) + 1, lastPick.among)]_hvars
=============================================================================
